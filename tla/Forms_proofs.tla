----------------------------- MODULE Forms_proofs -----------------------------
(***************************************************************************)
(* Theorems about what the user fills in or edits: the panes of files, the    *)
(* list of transfers, the connect form, the lists, the settings and the keys, *)
(* for any directories, uploads, servers, entries and bounds.  Each part has  *)
(* its inductive invariant, named after it (FilesIInv, TransfersIInv, ...).   *)
(***************************************************************************)
EXTENDS Forms, SequenceTheorems, FiniteSetTheorems, TLAPS

\* A set of at most one element.
LEMMA AtMostOne ==
    ASSUME NEW S, \A x, y \in S : x = y
    PROVE  Lists!Cardinality(S) <= 1 /\ Settings!Cardinality(S) <= 1 /\ Keyboard!Cardinality(S) <= 1
<1>1. ASSUME S = {} PROVE Cardinality(S) <= 1
  <2>1. Cardinality(S) = 0
    BY <1>1, FS_EmptySet
  <2> QED
    BY <2>1
<1>2. ASSUME S # {} PROVE Cardinality(S) <= 1
  <2>1. PICK x \in S : TRUE
    BY <1>2
  <2>2. S = {x}
    BY <2>1
  <2>3. Cardinality(S) = 1
    BY <2>2, FS_Singleton
  <2> QED
    BY <2>3
<1>3. Cardinality(S) <= 1
  BY <1>1, <1>2
<1>4. Lists!Cardinality(S) = Cardinality(S)
  BY DEF Cardinality, Lists!Cardinality
<1>5. Settings!Cardinality(S) = Cardinality(S)
  BY DEF Cardinality, Settings!Cardinality
<1>6. Keyboard!Cardinality(S) = Cardinality(S)
  BY DEF Cardinality, Keyboard!Cardinality
<1> QED
  BY <1>3, <1>4, <1>5, <1>6

-----------------------------------------------------------------------------
(* The panes of files *)

USE FilesAssumption

\* A change of a directory that is made but not answered yet.
FilesChanging(p, d) == \E t \in Slots : work[t].kind = "change" /\ work[t].pane = p /\ work[t].done /\ work[t].in = d

\* The entries are of the directory that is named.
FilesPanel == \A p \in Panes : listed[p].of = dir[p] /\ sel[p] \in {Files!NoDir, dir[p]}

\* A call is for a directory, and a change for the one it lists afterwards.
FilesCalled ==
    \A s \in Slots :
        /\ work[s].kind \in {"list", "change", "refreshAll"} => work[s].in \in Dirs
        /\ work[s].kind = "change" => work[s].target = work[s].in
        /\ work[s].kind = "refreshAll" => work[s].target \in Dirs

\* What a listing read that nothing overlaps is as the directory is, but for
\* changes that list it again.
FilesRead ==
    \A s \in Slots :
        work[s].kind \in {"list", "refreshAll"} /\ work[s].done /\ work[s].alone =>
            \/ work[s].age = disk[work[s].pane][work[s].in]
            \/ FilesChanging(work[s].pane, work[s].in)

\* The same of what is shown, but for changes and listings under way.
FilesFresh ==
    \A p \in Panes :
        ~unsure[p] /\ dir[p] # Files!NoDir =>
            \/ listed[p].age = disk[p][dir[p]]
            \/ \E s \in Slots : work[s].pane = p /\ work[s].kind \in {"list", "refreshAll"}
            \/ \E d \in Dirs : FilesChanging(p, d)

FilesIInv == Files!TypeOK /\ FilesPanel /\ FilesCalled /\ FilesRead /\ FilesFresh

FilesWork == [kind : Files!Kinds, pane : Panes, in : Dirs \cup {Files!NoDir}, target : Dirs \cup {Files!NoDir},
         age : 0..MaxChanges, done : BOOLEAN, alone : BOOLEAN]

LEMMA FilesIdleIsWork == Files!Idle \in FilesWork /\ Files!Idle.kind = "idle" /\ ~Files!Idle.done
<1> DEFINE q == CHOOSE p \in Panes : TRUE
<1>1. q \in Panes
  OBVIOUS
<1>2. Files!Idle = [kind |-> "idle", pane |-> q, in |-> Files!NoDir, target |-> Files!NoDir, age |-> 0, done |-> FALSE,
              alone |-> FALSE]
  BY DEF Files!Idle
<1> HIDE DEF q
<1> QED
  BY <1>1, <1>2 DEF FilesWork, Files!Kinds

LEMMA FilesInitIInv == Files!Init => FilesIInv
<1> SUFFICES ASSUME Files!Init PROVE FilesIInv
  OBVIOUS
<1>1. \A s \in Slots : work[s] \in FilesWork /\ work[s].kind = "idle"
  BY FilesIdleIsWork DEF Files!Init
<1>2. Files!TypeOK
  <2>1. work \in [Slots -> FilesWork]
    BY <1>1 DEF Files!Init
  <2> QED
    BY <2>1 DEF Files!Init, Files!TypeOK, FilesWork
<1>3. FilesCalled /\ FilesRead
  BY <1>1 DEF FilesCalled, FilesRead
<1>4. FilesPanel /\ FilesFresh
  BY DEF Files!Init, FilesPanel, FilesFresh
<1> QED
  BY <1>2, <1>3, <1>4 DEF FilesIInv

\* What a listing that starts changes in the calls.
LEMMA FilesListingStarts ==
    ASSUME work \in [Slots -> FilesWork], NEW s \in Slots, NEW what \in {"list", "refreshAll"},
           NEW p \in Panes, NEW d \in Dirs, NEW w, w = Files!Listing(work, s, what, p, d)
    PROVE  /\ w \in [Slots -> FilesWork]
           /\ w[s].kind = what /\ w[s].pane = p /\ w[s].in = d /\ w[s].target = Files!NoDir
           /\ ~w[s].done
           /\ \A i \in Slots \ {s} : \/ w[i] = work[i]
                                     \/ w[i] = [work[i] EXCEPT !.alone = FALSE]
           /\ \A i \in Slots \ {s} : work[i].pane = p /\ work[i].kind \in {"list", "refreshAll"}
                                     => w[i] = [work[i] EXCEPT !.alone = FALSE]
<1> DEFINE others == Files!Listings(p) \ {s}
           b == (others = {})
<1>1. w = [i \in Slots |->
             IF i = s THEN [Files!Idle EXCEPT !.kind = what, !.pane = p, !.in = d, !.alone = b]
             ELSE IF i \in others THEN [work[i] EXCEPT !.alone = FALSE] ELSE work[i]]
  BY DEF Files!Listing
<1>2. b \in BOOLEAN
  OBVIOUS
<1>3. \A i \in Slots \ {s} : work[i].pane = p /\ work[i].kind \in {"list", "refreshAll"} => i \in others
  BY DEF Files!Listings, Files!Busy
<1> HIDE DEF others, b
<1>4. /\ w[s] = [Files!Idle EXCEPT !.kind = what, !.pane = p, !.in = d, !.alone = b]
      /\ \A i \in Slots \ {s} : w[i] = IF i \in others THEN [work[i] EXCEPT !.alone = FALSE] ELSE work[i]
      /\ DOMAIN w = Slots
  BY <1>1
<1>5. /\ w[s] \in FilesWork /\ w[s].kind = what /\ w[s].pane = p /\ w[s].in = d /\ ~w[s].done
      /\ w[s].target = Files!Idle.target
  BY <1>2, <1>4, FilesIdleIsWork DEF FilesWork, Files!Kinds
<1>6. \A i \in Slots \ {s} : w[i] \in FilesWork
  <2>1. \A x \in FilesWork : [x EXCEPT !.alone = FALSE] \in FilesWork
    BY DEF FilesWork
  <2> QED
    BY <1>4, <2>1
<1>7. Files!Idle.target = Files!NoDir
  BY DEF Files!Idle
<1>8. w \in [Slots -> FilesWork]
  BY <1>1, <1>5, <1>6
<1> QED
  BY <1>3, <1>4, <1>5, <1>7, <1>8

\* A listing that starts where no call was, after a change, or after the listing
\* that showed its entries.
LEMMA FilesStartIInv ==
    ASSUME FilesIInv, NEW s \in Slots, work' \in [Slots -> FilesWork], UNCHANGED disk,
           dir' \in [Panes -> Dirs \cup {Files!NoDir}], sel' \in [Panes -> Dirs \cup {Files!NoDir}],
           listed' \in [Panes -> [of : Dirs \cup {Files!NoDir}, age : 0..MaxChanges]],
           unsure' \in [Panes -> BOOLEAN], FilesPanel',
           work'[s].kind \in {"list", "refreshAll"}, work'[s].in \in Dirs, ~work'[s].done,
           work'[s].kind = "refreshAll" => work'[s].target \in Dirs,
           work[s].kind = "change" => work'[s].pane = work[s].pane,
           \A i \in Slots \ {s} : work'[i] = work[i] \/ work'[i] = [work[i] EXCEPT !.alone = FALSE],
           \A i \in Slots \ {s} : work[i].pane = work'[s].pane /\ work[i].kind \in {"list", "refreshAll"}
                                  => work'[i] = [work[i] EXCEPT !.alone = FALSE],
           \A p \in Panes : \/ UNCHANGED <<listed[p], dir[p], unsure[p]>> /\ work[s].kind \in {"idle", "change"}
                            \/ unsure'[p]
                            \/ UNCHANGED <<listed[p], dir[p], unsure[p]>> /\ work[s].pane # p
                            \/ listed'[p].age = disk[p][dir'[p]]
                            \/ \E d \in Dirs : FilesChanging(p, d) /\ work[s].kind # "change"
    PROVE  FilesIInv'
<1>0. work \in [Slots -> FilesWork] /\ disk \in [Panes -> [Dirs -> 0..MaxChanges]]
  BY DEF FilesIInv, Files!TypeOK, FilesWork
<1>1. Files!TypeOK'
  BY DEF FilesIInv, Files!TypeOK, FilesWork
<1>2. \A i \in Slots \ {s} : /\ work'[i].kind = work[i].kind /\ work'[i].pane = work[i].pane
                             /\ work'[i].in = work[i].in /\ work'[i].target = work[i].target
                             /\ work'[i].age = work[i].age /\ work'[i].done = work[i].done
                             /\ work'[i].alone => work[i].alone
  BY <1>0 DEF FilesWork
<1>3. FilesCalled'
  BY <1>2 DEF FilesIInv, FilesCalled
<1>4. \A p \in Panes, d \in Dirs : FilesChanging(p, d) => \/ FilesChanging(p, d)'
                                                          \/ work[s].kind = "change" /\ work'[s].pane = p
  <2>1. SUFFICES ASSUME NEW p \in Panes, NEW d \in Dirs, FilesChanging(p, d)
                 PROVE  FilesChanging(p, d)' \/ (work[s].kind = "change" /\ work'[s].pane = p)
    OBVIOUS
  <2>2. PICK t \in Slots : work[t].kind = "change" /\ work[t].pane = p /\ work[t].done /\ work[t].in = d
    BY <2>1 DEF FilesChanging
  <2>3. CASE t = s
    BY <2>2, <2>3
  <2>4. CASE t # s
    <3>1. work'[t].kind = "change" /\ work'[t].pane = p /\ work'[t].done /\ work'[t].in = d
      BY <1>2, <2>2, <2>4
    <3> QED
      BY <3>1 DEF FilesChanging
  <2> QED
    BY <2>3, <2>4
<1>5. FilesRead'
  <2>1. SUFFICES ASSUME NEW i \in Slots, work'[i].kind \in {"list", "refreshAll"}, work'[i].done,
                        work'[i].alone
                 PROVE  (work[i].age = disk[work[i].pane][work[i].in] \/ FilesChanging(work[i].pane, work[i].in))'
    BY DEF FilesRead
  <2>2. i # s
    BY <2>1
  <2>3. work'[i].pane # work'[s].pane
    BY <1>0, <1>2, <2>1, <2>2 DEF FilesWork
  <2>4. work[i].pane \in Panes /\ work[i].in \in Dirs
    BY <1>0, <1>2, <2>1, <2>2 DEF FilesIInv, FilesCalled, FilesWork
  <2>5. work[i].age = disk[work[i].pane][work[i].in] \/ FilesChanging(work[i].pane, work[i].in)
    BY <1>2, <2>1, <2>2 DEF FilesIInv, FilesRead
  <2>6. CASE FilesChanging(work[i].pane, work[i].in)
    <3>1. (FilesChanging(work[i].pane, work[i].in))'
      <4>1. work[i].pane # work'[s].pane
        BY <1>2, <2>2, <2>3
      <4>2. PICK t \in Slots : /\ work[t].kind = "change" /\ work[t].pane = work[i].pane
                               /\ work[t].done /\ work[t].in = work[i].in
        BY <2>6 DEF FilesChanging
      <4>3. t # s
        BY <4>1, <4>2
      <4>4. /\ work'[t].kind = "change" /\ work'[t].pane = work'[i].pane
            /\ work'[t].done /\ work'[t].in = work'[i].in
        BY <1>2, <2>2, <4>2, <4>3
      <4> QED
        BY <4>4 DEF FilesChanging
    <3> QED
      BY <3>1
  <2> QED
    BY <1>2, <2>2, <2>5, <2>6
<1>6. FilesFresh'
  <2>1. SUFFICES ASSUME NEW p \in Panes, ~unsure'[p], dir'[p] # Files!NoDir
                 PROVE  \/ listed'[p].age = disk[p][dir'[p]]
                        \/ \E i \in Slots : work'[i].pane = p /\ work'[i].kind \in {"list", "refreshAll"}
                        \/ \E d \in Dirs : FilesChanging(p, d)'
    BY DEF FilesFresh
  <2>2. CASE \E d \in Dirs : FilesChanging(p, d)
    BY <1>4, <2>2
  <2>3. CASE (UNCHANGED <<listed[p], dir[p], unsure[p]>>) /\ listed[p].age = disk[p][dir[p]]
    BY <2>3
  <2>4. CASE /\ UNCHANGED <<listed[p], dir[p], unsure[p]>>
             /\ \E i \in Slots : work[i].pane = p /\ work[i].kind \in {"list", "refreshAll"}
             /\ work[s].kind \in {"idle", "change"} \/ work[s].pane # p
    <3>1. PICK i \in Slots : work[i].pane = p /\ work[i].kind \in {"list", "refreshAll"}
      BY <2>4
    <3>2. i # s
      BY <2>4, <3>1
    <3> QED
      BY <1>2, <3>1, <3>2
  <2>5. CASE UNCHANGED <<listed[p], dir[p], unsure[p]>>
    <3>1. \/ listed[p].age = disk[p][dir[p]]
          \/ \E i \in Slots : work[i].pane = p /\ work[i].kind \in {"list", "refreshAll"}
          \/ \E d \in Dirs : FilesChanging(p, d)
      BY <2>1, <2>5 DEF FilesIInv, FilesFresh
    <3> QED
      BY <2>1, <2>2, <2>3, <2>4, <2>5, <3>1
  <2> QED
    BY <2>1, <2>2, <2>5
<1> QED
  BY <1>1, <1>3, <1>5, <1>6 DEF FilesIInv

LEMMA FilesOpenIInv == ASSUME FilesIInv, NEW s \in Slots, NEW p \in Panes, NEW d \in Dirs,
                              Files!Open(p, d, s)
                       PROVE  FilesIInv'
<1>0. work \in [Slots -> FilesWork] /\ work[s].kind = "idle"
  BY FilesIdleIsWork DEF Files!Open, FilesIInv, Files!TypeOK, FilesWork
<1>1. /\ work' \in [Slots -> FilesWork]
      /\ work'[s].kind = "list" /\ work'[s].in = d /\ work'[s].done = FALSE
      /\ \A i \in Slots \ {s} : \/ work'[i] = work[i]
                                \/ work'[i] = [work[i] EXCEPT !.alone = FALSE]
      /\ \A i \in Slots \ {s} : work[i].pane = work'[s].pane /\ work[i].kind \in {"list", "refreshAll"}
                                => work'[i] = [work[i] EXCEPT !.alone = FALSE]
  BY <1>0, FilesListingStarts DEF Files!Open
<1>2. UNCHANGED <<disk, dir, listed, sel, unsure>>
  BY DEF Files!Open
<1>3. FilesPanel'
  BY <1>2 DEF FilesIInv, FilesPanel
<1> QED
  BY <1>0, <1>1, <1>2, <1>3, FilesStartIInv DEF FilesIInv, Files!TypeOK

LEMMA FilesRefreshIInv == ASSUME FilesIInv, NEW s \in Slots, Files!RefreshAll(s) PROVE FilesIInv'
<1> DEFINE w == Files!Listing(work, s, "refreshAll", "local", dir["local"])
<1>0. /\ work \in [Slots -> FilesWork] /\ work[s].kind = "idle" /\ dir["local"] \in Dirs
      /\ dir["remote"] \in Dirs
      /\ work' = [w EXCEPT ![s].target = dir["remote"]] /\ "local" \in Panes
  BY FilesIdleIsWork DEF Files!RefreshAll, FilesIInv, Files!TypeOK, FilesWork
<1>1. /\ w \in [Slots -> FilesWork]
      /\ w[s].kind = "refreshAll" /\ w[s].pane = "local" /\ w[s].in = dir["local"]
      /\ w[s].done = FALSE
      /\ \A i \in Slots \ {s} : \/ w[i] = work[i]
                                \/ w[i] = [work[i] EXCEPT !.alone = FALSE]
      /\ \A i \in Slots \ {s} : work[i].pane = "local" /\ work[i].kind \in {"list", "refreshAll"}
                                => w[i] = [work[i] EXCEPT !.alone = FALSE]
  BY <1>0, FilesListingStarts
<1> HIDE DEF w
<1>2. /\ work' \in [Slots -> FilesWork] /\ work'[s].kind = "refreshAll" /\ work'[s].pane = "local"
      /\ work'[s].in \in Dirs /\ work'[s].done = FALSE /\ work'[s].target \in Dirs
      /\ \A i \in Slots \ {s} : work'[i] = w[i]
  <2>1. \A x \in FilesWork : [x EXCEPT !.target = dir["remote"]] \in FilesWork
    BY <1>0 DEF FilesWork
  <2>2. w[s] \in FilesWork /\ work' = [w EXCEPT ![s] = [w[s] EXCEPT !.target = dir["remote"]]]
    BY <1>0, <1>1
  <2>3. work'[s] = [w[s] EXCEPT !.target = dir["remote"]] /\ work' \in [Slots -> FilesWork]
    BY <1>1, <2>1, <2>2
  <2> QED
    BY <1>0, <1>1, <2>2, <2>3 DEF FilesWork
<1>3. UNCHANGED <<disk, dir, listed, sel, unsure>>
  BY DEF Files!RefreshAll
<1>4. FilesPanel'
  BY <1>3 DEF FilesIInv, FilesPanel
<1>5. /\ \A i \in Slots \ {s} : work'[i] = work[i] \/ work'[i] = [work[i] EXCEPT !.alone = FALSE]
      /\ \A i \in Slots \ {s} : work[i].pane = work'[s].pane /\ work[i].kind \in {"list", "refreshAll"}
                                => work'[i] = [work[i] EXCEPT !.alone = FALSE]
  BY <1>1, <1>2
<1> QED
  BY <1>0, <1>2, <1>3, <1>4, <1>5, FilesStartIInv DEF FilesIInv, Files!TypeOK

LEMMA FilesChangedIInv == ASSUME FilesIInv, NEW s \in Slots, Files!Changed(s) PROVE FilesIInv'
<1>0. /\ work \in [Slots -> FilesWork] /\ work[s].kind = "change" /\ work[s].in \in Dirs
      /\ work[s].pane \in Panes
  BY DEF Files!Changed, FilesIInv, Files!TypeOK, FilesWork, FilesCalled
<1>1. /\ work' \in [Slots -> FilesWork]
      /\ work'[s].kind = "list" /\ work'[s].in = work[s].in /\ work'[s].pane = work[s].pane
      /\ work'[s].done = FALSE
      /\ \A i \in Slots \ {s} : \/ work'[i] = work[i]
                                \/ work'[i] = [work[i] EXCEPT !.alone = FALSE]
      /\ \A i \in Slots \ {s} : work[i].pane = work'[s].pane /\ work[i].kind \in {"list", "refreshAll"}
                                => work'[i] = [work[i] EXCEPT !.alone = FALSE]
  BY <1>0, FilesListingStarts DEF Files!Changed
<1>2. UNCHANGED <<disk, dir, listed, sel, unsure>>
  BY DEF Files!Changed
<1>3. FilesPanel'
  BY <1>2 DEF FilesIInv, FilesPanel
<1> QED
  BY <1>0, <1>1, <1>2, <1>3, FilesStartIInv DEF FilesIInv, Files!TypeOK

\* What a listing that was answered leaves in its slot.
LEMMA FilesAfterIs ==
    ASSUME FilesIInv, NEW s \in Slots, work[s].kind \in {"list", "refreshAll"},
           work' = Files!After(s)
    PROVE  \/ /\ work[s].kind = "list" /\ work' = [work EXCEPT ![s] = Files!Idle]
           \/ /\ work[s].kind = "refreshAll" /\ work' \in [Slots -> FilesWork]
              /\ work'[s].kind = "list" /\ work'[s].in \in Dirs /\ work'[s].pane = "remote"
              /\ work'[s].done = FALSE
              /\ \A i \in Slots \ {s} : \/ work'[i] = work[i]
                                        \/ work'[i] = [work[i] EXCEPT !.alone = FALSE]
              /\ \A i \in Slots \ {s} : work[i].pane = "remote" /\ work[i].kind \in {"list", "refreshAll"}
                                        => work'[i] = [work[i] EXCEPT !.alone = FALSE]
<1>0. work \in [Slots -> FilesWork] /\ "remote" \in Panes
  BY DEF FilesIInv, Files!TypeOK, FilesWork
<1>1. CASE work[s].kind = "refreshAll"
  <2>1. work[s].target \in Dirs /\ work' = Files!Listing(work, s, "list", "remote", work[s].target)
    BY <1>1 DEF FilesIInv, FilesCalled, Files!After
  <2> QED
    BY <1>0, <1>1, <2>1, FilesListingStarts
<1>2. CASE work[s].kind = "list"
  BY <1>2 DEF Files!After
<1> QED
  BY <1>1, <1>2

\* A slot is free again, after a listing or a change that was not made.
LEMMA FilesFreeIInv ==
    ASSUME FilesIInv, NEW s \in Slots, work' = [work EXCEPT ![s] = Files!Idle], UNCHANGED disk,
           dir' \in [Panes -> Dirs \cup {Files!NoDir}], sel' \in [Panes -> Dirs \cup {Files!NoDir}],
           listed' \in [Panes -> [of : Dirs \cup {Files!NoDir}, age : 0..MaxChanges]],
           unsure' \in [Panes -> BOOLEAN], FilesPanel',
           work[s].kind = "change" => work[s].done = FALSE,
           \A p \in Panes : \/ UNCHANGED <<listed[p], dir[p], unsure[p]>> /\ work[s].kind = "change"
                            \/ unsure'[p]
                            \/ UNCHANGED <<listed[p], dir[p], unsure[p]>> /\ work[s].pane # p
                            \/ listed'[p].age = disk[p][dir'[p]]
                            \/ \E d \in Dirs : FilesChanging(p, d)
    PROVE  FilesIInv'
<1>0. /\ work \in [Slots -> FilesWork] /\ work' \in [Slots -> FilesWork]
      /\ work'[s].kind = "idle" /\ \A i \in Slots \ {s} : work'[i] = work[i]
  BY FilesIdleIsWork DEF FilesIInv, Files!TypeOK, FilesWork
<1>1. Files!TypeOK'
  BY <1>0 DEF FilesIInv, Files!TypeOK, FilesWork
<1>2. FilesCalled'
  BY <1>0 DEF FilesIInv, FilesCalled
<1>3. \A p, d : FilesChanging(p, d) => FilesChanging(p, d)'
  BY <1>0 DEF FilesChanging
<1>4. FilesRead'
  <2>1. SUFFICES ASSUME NEW i \in Slots, work'[i].kind \in {"list", "refreshAll"}, work'[i].done,
                        work'[i].alone
                 PROVE  (work[i].age = disk[work[i].pane][work[i].in] \/ FilesChanging(work[i].pane, work[i].in))'
    BY DEF FilesRead
  <2>2. i # s /\ work'[i] = work[i]
    BY <1>0, <2>1
  <2>3. work[i].age = disk[work[i].pane][work[i].in] \/ FilesChanging(work[i].pane, work[i].in)
    BY <2>1, <2>2 DEF FilesIInv, FilesRead
  <2>4. CASE FilesChanging(work[i].pane, work[i].in)
    BY <1>0, <2>2, <2>4 DEF FilesChanging
  <2> QED
    BY <2>2, <2>3, <2>4
<1>5. FilesFresh'
  <2>1. SUFFICES ASSUME NEW p \in Panes, ~unsure'[p], dir'[p] # Files!NoDir
                 PROVE  \/ listed'[p].age = disk[p][dir'[p]]
                        \/ \E i \in Slots : work'[i].pane = p /\ work'[i].kind \in {"list", "refreshAll"}
                        \/ \E d \in Dirs : FilesChanging(p, d)'
    BY DEF FilesFresh
  <2>2. CASE \E d \in Dirs : FilesChanging(p, d)
    BY <1>3, <2>2
  <2>3. CASE UNCHANGED <<listed[p], dir[p], unsure[p]>> /\ (work[s].kind = "change" \/ work[s].pane # p)
    <3>1. \/ listed[p].age = disk[p][dir[p]]
          \/ \E i \in Slots : work[i].pane = p /\ work[i].kind \in {"list", "refreshAll"}
          \/ \E d \in Dirs : FilesChanging(p, d)
      BY <2>1, <2>3 DEF FilesIInv, FilesFresh
    <3>2. CASE \E i \in Slots : work[i].pane = p /\ work[i].kind \in {"list", "refreshAll"}
      <4>1. PICK i \in Slots : work[i].pane = p /\ work[i].kind \in {"list", "refreshAll"}
        BY <3>2
      <4>2. i # s
        BY <2>3, <4>1
      <4> QED
        BY <1>0, <4>1, <4>2
    <3> QED
      BY <2>2, <2>3, <3>1, <3>2
  <2> QED
    BY <2>1, <2>2, <2>3
<1> QED
  BY <1>1, <1>2, <1>4, <1>5 DEF FilesIInv

LEMMA FilesShowIInv == ASSUME FilesIInv, NEW s \in Slots, Files!Show(s) PROVE FilesIInv'
<1> DEFINE p == work[s].pane
<1>0. /\ work \in [Slots -> FilesWork] /\ p \in Panes /\ work[s].in \in Dirs
      /\ work[s].kind \in {"list", "refreshAll"} /\ work[s].done /\ work[s].age \in 0..MaxChanges
      /\ work[s].alone \in BOOLEAN
  BY DEF Files!Show, FilesIInv, Files!TypeOK, FilesWork, FilesCalled
<1>1. /\ listed' = [listed EXCEPT ![p] = [of |-> work[s].in, age |-> work[s].age]]
      /\ dir' = [dir EXCEPT ![p] = work[s].in] /\ sel' = [sel EXCEPT ![p] = Files!NoDir]
      /\ unsure' = [unsure EXCEPT ![p] = ~work[s].alone]
      /\ work' = Files!After(s) /\ UNCHANGED disk
  BY DEF Files!Show
<1>2. work[s].alone => work[s].age = disk[p][work[s].in] \/ FilesChanging(p, work[s].in)
  BY <1>0 DEF FilesIInv, FilesRead
<1> HIDE DEF p
<1>3. /\ dir \in [Panes -> Dirs \cup {Files!NoDir}] /\ sel \in [Panes -> Dirs \cup {Files!NoDir}]
      /\ listed \in [Panes -> [of : Dirs \cup {Files!NoDir}, age : 0..MaxChanges]]
      /\ unsure \in [Panes -> BOOLEAN]
  BY DEF FilesIInv, Files!TypeOK
<1>4. /\ dir' \in [Panes -> Dirs \cup {Files!NoDir}] /\ sel' \in [Panes -> Dirs \cup {Files!NoDir}]
      /\ listed' \in [Panes -> [of : Dirs \cup {Files!NoDir}, age : 0..MaxChanges]]
  BY <1>0, <1>1, <1>3
<1>5. unsure' \in [Panes -> BOOLEAN] /\ (~unsure'[p] => work[s].alone)
  BY <1>0, <1>1, <1>3
<1>6. /\ \A q \in Panes \ {p} : listed'[q] = listed[q] /\ dir'[q] = dir[q] /\ unsure'[q] = unsure[q] /\ sel'[q] = sel[q]
      /\ listed'[p].of = work[s].in /\ listed'[p].age = work[s].age /\ dir'[p] = work[s].in
      /\ sel'[p] = Files!NoDir
  BY <1>0, <1>1, <1>3
<1>7. FilesPanel'
  BY <1>6 DEF FilesIInv, FilesPanel
<1>8. \A q \in Panes : \/ unsure'[q]
                       \/ UNCHANGED <<listed[q], dir[q], unsure[q]>> /\ work[s].pane # q
                       \/ listed'[q].age = disk[q][dir'[q]]
                       \/ \E d \in Dirs : FilesChanging(q, d)
  BY <1>0, <1>2, <1>5, <1>6 DEF p
<1>9. work[s].kind # "change"
  BY <1>0
<1>10. CASE work[s].kind = "list" /\ work' = [work EXCEPT ![s] = Files!Idle]
  BY <1>1, <1>4, <1>5, <1>7, <1>8, <1>9, <1>10, FilesFreeIInv
<1>11. CASE ~(work[s].kind = "list" /\ work' = [work EXCEPT ![s] = Files!Idle])
  <2>1. /\ work' \in [Slots -> FilesWork]
        /\ work'[s].kind = "list" /\ work'[s].in \in Dirs /\ work'[s].pane = "remote"
        /\ work'[s].done = FALSE
        /\ \A i \in Slots \ {s} : \/ work'[i] = work[i]
                                  \/ work'[i] = [work[i] EXCEPT !.alone = FALSE]
        /\ \A i \in Slots \ {s} : work[i].pane = "remote" /\ work[i].kind \in {"list", "refreshAll"}
                                  => work'[i] = [work[i] EXCEPT !.alone = FALSE]
    BY <1>0, <1>1, <1>11, FilesAfterIs
  <2> QED
    BY <1>1, <1>4, <1>5, <1>7, <1>8, <1>9, <2>1, FilesStartIInv
<1> QED
  BY <1>10, <1>11

LEMMA FilesFailsIInv == ASSUME FilesIInv, NEW s \in Slots, Files!ListingFails(s) PROVE FilesIInv'
<1>0. /\ work[s].kind \in {"list", "refreshAll"} /\ work[s].pane \in Panes
      /\ unsure' = [unsure EXCEPT ![work[s].pane] = TRUE] /\ work' = Files!After(s)
      /\ UNCHANGED <<disk, dir, listed, sel>>
  BY DEF Files!ListingFails, FilesIInv, Files!TypeOK
<1>1. /\ dir \in [Panes -> Dirs \cup {Files!NoDir}] /\ sel \in [Panes -> Dirs \cup {Files!NoDir}]
      /\ listed \in [Panes -> [of : Dirs \cup {Files!NoDir}, age : 0..MaxChanges]]
      /\ unsure' \in [Panes -> BOOLEAN] /\ unsure'[work[s].pane]
  BY <1>0 DEF FilesIInv, Files!TypeOK
<1>2. \A q \in Panes : \/ unsure'[q]
                       \/ UNCHANGED <<listed[q], dir[q], unsure[q]>> /\ work[s].pane # q
  BY <1>0, <1>1 DEF FilesIInv, Files!TypeOK
<1>3. FilesPanel'
  BY <1>0 DEF FilesIInv, FilesPanel
<1>9. work[s].kind # "change"
  BY <1>0
<1>10. CASE work[s].kind = "list" /\ work' = [work EXCEPT ![s] = Files!Idle]
  BY <1>0, <1>1, <1>2, <1>3, <1>9, <1>10, FilesFreeIInv
<1>11. CASE ~(work[s].kind = "list" /\ work' = [work EXCEPT ![s] = Files!Idle])
  <2>1. /\ work' \in [Slots -> FilesWork]
        /\ work'[s].kind = "list" /\ work'[s].in \in Dirs /\ work'[s].pane = "remote"
        /\ work'[s].done = FALSE
        /\ \A i \in Slots \ {s} : \/ work'[i] = work[i]
                                  \/ work'[i] = [work[i] EXCEPT !.alone = FALSE]
        /\ \A i \in Slots \ {s} : work[i].pane = "remote" /\ work[i].kind \in {"list", "refreshAll"}
                                  => work'[i] = [work[i] EXCEPT !.alone = FALSE]
    BY <1>0, <1>11, FilesAfterIs
  <2>2. /\ dir' \in [Panes -> Dirs \cup {Files!NoDir}]
        /\ sel' \in [Panes -> Dirs \cup {Files!NoDir}]
        /\ listed' \in [Panes -> [of : Dirs \cup {Files!NoDir}, age : 0..MaxChanges]]
        /\ unsure' \in [Panes -> BOOLEAN]
    BY <1>0, <1>1
  <2>3. UNCHANGED disk
    BY <1>0
  <2> QED
    BY <1>2, <1>3, <1>9, <2>1, <2>2, <2>3, FilesStartIInv
<1> QED
  BY <1>10, <1>11

LEMMA FilesGiveUpIInv == ASSUME FilesIInv, NEW s \in Slots, Files!ChangeFails(s) PROVE FilesIInv'
<1>0. /\ work[s].kind = "change" /\ work[s].done = FALSE /\ work' = [work EXCEPT ![s] = Files!Idle]
      /\ UNCHANGED <<disk, dir, listed, sel, unsure>>
  BY DEF Files!ChangeFails, FilesIInv, Files!TypeOK
<1>1. FilesPanel'
  BY <1>0 DEF FilesIInv, FilesPanel
<1> QED
  BY <1>0, <1>1, FilesFreeIInv DEF FilesIInv, Files!TypeOK

\* A call is carried out, or a change is started: what is shown stays.
LEMMA FilesExecuteIInv == ASSUME FilesIInv, NEW s \in Slots, Files!Execute(s) PROVE FilesIInv'
<1>0. /\ work \in [Slots -> FilesWork] /\ disk \in [Panes -> [Dirs -> 0..MaxChanges]]
      /\ work[s].pane \in Panes
      /\ work[s].done = FALSE /\ UNCHANGED <<dir, listed, sel, unsure>>
  BY DEF Files!Execute, FilesIInv, Files!TypeOK, FilesWork
<1>1. FilesPanel'
  BY <1>0 DEF FilesIInv, FilesPanel
<1>2. CASE /\ work[s].kind \in {"list", "refreshAll"} /\ disk' = disk
           /\ work' = [work EXCEPT ![s].done = TRUE, ![s].age = disk[work[s].pane][work[s].in]]
  <2> DEFINE a == disk[work[s].pane][work[s].in]
  <2>1. a \in 0..MaxChanges
    BY <1>0, <1>2 DEF FilesIInv, FilesCalled
  <2>2. work' = [work EXCEPT ![s] = [work[s] EXCEPT !.done = TRUE, !.age = a]]
    BY <1>0, <1>2
  <2>3. a = disk[work[s].pane][work[s].in]
    OBVIOUS
  <2> HIDE DEF a
  <2>4. [work[s] EXCEPT !.done = TRUE, !.age = a] \in FilesWork
    BY <1>0, <2>1 DEF FilesWork
  <2>5. /\ work' \in [Slots -> FilesWork] /\ \A i \in Slots \ {s} : work'[i] = work[i]
        /\ work'[s].kind = work[s].kind /\ work'[s].pane = work[s].pane /\ work'[s].in = work[s].in
        /\ work'[s].target = work[s].target /\ work'[s].age = a
    BY <1>0, <2>2, <2>4 DEF FilesWork
  <2>6. Files!TypeOK'
    BY <1>0, <1>2, <2>5 DEF FilesIInv, Files!TypeOK, FilesWork
  <2>7. FilesCalled'
    BY <2>5 DEF FilesIInv, FilesCalled
  <2>8. \A p, d : FilesChanging(p, d) <=> FilesChanging(p, d)'
    BY <1>2, <2>5 DEF FilesChanging
  <2>9. FilesRead'
    <3>1. SUFFICES ASSUME NEW i \in Slots, work'[i].kind \in {"list", "refreshAll"}, work'[i].done,
                          work'[i].alone
                   PROVE  (work[i].age = disk[work[i].pane][work[i].in] \/ FilesChanging(work[i].pane, work[i].in))'
      BY DEF FilesRead
    <3>2. CASE i = s
      BY <1>2, <2>3, <2>5, <3>2
    <3>3. CASE i # s
      <4>1. work[i].age = disk[work[i].pane][work[i].in] \/ FilesChanging(work[i].pane, work[i].in)
        BY <2>5, <3>1, <3>3 DEF FilesIInv, FilesRead
      <4>2. CASE FilesChanging(work[i].pane, work[i].in)
        <5>1. PICK t \in Slots : /\ work[t].kind = "change" /\ work[t].pane = work[i].pane
                                 /\ work[t].done /\ work[t].in = work[i].in
          BY <4>2 DEF FilesChanging
        <5>2. t # s
          BY <1>2, <5>1
        <5> QED
          BY <2>5, <3>3, <5>1, <5>2 DEF FilesChanging
      <4> QED
        BY <1>2, <2>5, <3>3, <4>1, <4>2
    <3> QED
      BY <3>2, <3>3
  <2>10. FilesFresh'
    <3>1. \A p \in Panes : (\E i \in Slots : work[i].pane = p /\ work[i].kind \in {"list", "refreshAll"})
                           => \E i \in Slots : work'[i].pane = p /\ work'[i].kind \in {"list", "refreshAll"}
      BY <2>5
    <3> QED
      BY <1>0, <1>2, <2>8, <3>1 DEF FilesIInv, FilesFresh
  <2> QED
    BY <1>1, <2>6, <2>7, <2>9, <2>10 DEF FilesIInv
<1>3. CASE /\ work[s].kind = "change" /\ disk[work[s].pane][work[s].target] < MaxChanges
           /\ disk' = [disk EXCEPT ![work[s].pane][work[s].target] = @ + 1]
           /\ work' = [work EXCEPT ![s].done = TRUE]
  <2>0. PICK p \in Panes, d \in Dirs : work[s].pane = p /\ work[s].in = d
    BY <1>0, <1>3 DEF FilesIInv, FilesCalled
  <2>1. p \in Panes /\ d \in Dirs /\ work[s].target = d
    BY <1>0, <1>3, <2>0 DEF FilesIInv, FilesCalled
  <2>2. disk' = [disk EXCEPT ![p] = [disk[p] EXCEPT ![d] = disk[p][d] + 1]]
    BY <1>3, <2>0, <2>1
  <2>3. /\ work[s].pane = p /\ work[s].in = d /\ disk[p][d] < MaxChanges
    BY <1>3, <2>0, <2>1
  <2>4. disk[p][d] + 1 \in 0..MaxChanges
    BY <1>0, <2>1, <2>3
  <2>5. /\ disk' \in [Panes -> [Dirs -> 0..MaxChanges]]
        /\ \A q \in Panes, e \in Dirs : q # p \/ e # d => disk'[q][e] = disk[q][e]
    BY <1>0, <2>1, <2>2, <2>4
  <2>6. work' = [work EXCEPT ![s] = [work[s] EXCEPT !.done = TRUE]]
    BY <1>3
  <2>7. [work[s] EXCEPT !.done = TRUE] \in FilesWork
    BY <1>0 DEF FilesWork
  <2>8. /\ work' \in [Slots -> FilesWork] /\ \A i \in Slots \ {s} : work'[i] = work[i]
        /\ work'[s].kind = "change" /\ work'[s].pane = p /\ work'[s].in = d
        /\ work'[s].target = d /\ work'[s].done
    BY <1>0, <1>3, <2>1, <2>3, <2>6, <2>7 DEF FilesWork
  <2>9. Files!TypeOK'
    BY <1>0, <2>5, <2>8 DEF FilesIInv, Files!TypeOK, FilesWork
  <2>10. FilesCalled'
    BY <2>1, <2>8 DEF FilesIInv, FilesCalled
  <2>11. (\A q, e : FilesChanging(q, e) => FilesChanging(q, e)') /\ FilesChanging(p, d)'
    BY <2>8, <1>0 DEF FilesChanging
  <2>12. FilesRead'
    <3>1. SUFFICES ASSUME NEW i \in Slots, work'[i].kind \in {"list", "refreshAll"}, work'[i].done,
                          work'[i].alone
                   PROVE  (work[i].age = disk[work[i].pane][work[i].in] \/ FilesChanging(work[i].pane, work[i].in))'
      BY DEF FilesRead
    <3>2. i # s /\ work'[i] = work[i] /\ work[i].pane \in Panes /\ work[i].in \in Dirs
      BY <1>0, <2>8, <3>1 DEF FilesIInv, FilesCalled, FilesWork
    <3>3. work[i].age = disk[work[i].pane][work[i].in] \/ FilesChanging(work[i].pane, work[i].in)
      BY <3>1, <3>2 DEF FilesIInv, FilesRead
    <3>4. CASE FilesChanging(work[i].pane, work[i].in)
      <4>1. PICK t \in Slots : /\ work[t].kind = "change" /\ work[t].pane = work[i].pane
                               /\ work[t].done /\ work[t].in = work[i].in
        BY <3>4 DEF FilesChanging
      <4>2. t # s
        BY <1>0, <4>1
      <4> QED
        BY <2>8, <3>2, <4>1, <4>2 DEF FilesChanging
    <3>5. CASE work[i].pane = p /\ work[i].in = d
      BY <2>8, <3>2, <3>5 DEF FilesChanging
    <3>6. CASE ~(work[i].pane = p /\ work[i].in = d) /\ work[i].age = disk[work[i].pane][work[i].in]
      BY <2>5, <3>2, <3>6
    <3> QED
      BY <3>3, <3>4, <3>5, <3>6
  <2>13. FilesFresh'
    <3>1. SUFFICES ASSUME NEW q \in Panes, ~unsure[q], dir[q] # Files!NoDir
                   PROVE  \/ listed[q].age = disk'[q][dir[q]]
                          \/ \E i \in Slots : work'[i].pane = q /\ work'[i].kind \in {"list", "refreshAll"}
                          \/ \E e \in Dirs : FilesChanging(q, e)'
      BY <1>0 DEF FilesFresh
    <3>2. \/ listed[q].age = disk[q][dir[q]]
          \/ \E i \in Slots : work[i].pane = q /\ work[i].kind \in {"list", "refreshAll"}
          \/ \E e \in Dirs : FilesChanging(q, e)
      BY <3>1 DEF FilesIInv, FilesFresh
    <3>3. (\E i \in Slots : work[i].pane = q /\ work[i].kind \in {"list", "refreshAll"})
          => \E i \in Slots : work'[i].pane = q /\ work'[i].kind \in {"list", "refreshAll"}
      BY <1>3, <2>8
    <3>4. (\E e \in Dirs : FilesChanging(q, e)) => \E e \in Dirs : FilesChanging(q, e)'
      BY <2>11
    <3>5. CASE q = p
      BY <2>1, <2>11, <3>5
    <3>6. CASE q # p
      <4>1. dir[q] \in Dirs
        BY <3>1 DEF FilesIInv, Files!TypeOK
      <4>2. disk'[q][dir[q]] = disk[q][dir[q]]
        BY <2>5, <3>6, <4>1
      <4> QED
        BY <3>2, <3>3, <3>4, <4>2
    <3> QED
      BY <3>5, <3>6
  <2> QED
    BY <1>1, <2>9, <2>10, <2>12, <2>13 DEF FilesIInv
<1> QED
  BY <1>2, <1>3 DEF Files!Execute

LEMMA FilesChangeIInv == ASSUME FilesIInv, NEW s \in Slots, NEW p \in Panes, Files!Change(p, s)
                         PROVE  FilesIInv'
<1>0. /\ work \in [Slots -> FilesWork] /\ work[s].kind = "idle" /\ dir[p] \in Dirs
      /\ UNCHANGED <<disk, dir, listed, sel, unsure>>
  BY FilesIdleIsWork DEF Files!Change, FilesIInv, Files!TypeOK, FilesWork
<1>1. PICK t \in {dir[p], sel[p]} \ {Files!NoDir} :
         work' = [work EXCEPT ![s] = [Files!Idle EXCEPT !.kind = "change", !.pane = p, !.in = dir[p], !.target = t]]
  BY DEF Files!Change
<1>2. t = dir[p]
  BY DEF FilesIInv, FilesPanel
<1>3. /\ work' \in [Slots -> FilesWork] /\ \A i \in Slots \ {s} : work'[i] = work[i]
      /\ work'[s].kind = "change" /\ work'[s].in = dir[p] /\ work'[s].target = dir[p]
      /\ work'[s].done = FALSE
  <2>1. /\ [Files!Idle EXCEPT !.kind = "change", !.pane = p, !.in = dir[p], !.target = t] \in FilesWork
        /\ Files!Idle.done = FALSE
    BY <1>0, <1>2, FilesIdleIsWork DEF FilesWork, Files!Kinds
  <2> QED
    BY <1>0, <1>1, <1>2, <2>1, FilesIdleIsWork DEF FilesWork
<1>4. Files!TypeOK' /\ FilesPanel'
  BY <1>0, <1>3 DEF FilesIInv, Files!TypeOK, FilesPanel, FilesWork
<1>5. FilesCalled'
  BY <1>0, <1>3 DEF FilesIInv, FilesCalled
<1>6. \A q, d : FilesChanging(q, d) => FilesChanging(q, d)'
  BY <1>0, <1>3 DEF FilesChanging
<1>7. FilesRead'
  <2>1. SUFFICES ASSUME NEW i \in Slots, work'[i].kind \in {"list", "refreshAll"}, work'[i].done,
                        work'[i].alone
                 PROVE  (work[i].age = disk[work[i].pane][work[i].in] \/ FilesChanging(work[i].pane, work[i].in))'
    BY DEF FilesRead
  <2>2. i # s /\ work'[i] = work[i]
    BY <1>3, <2>1
  <2>3. work[i].age = disk[work[i].pane][work[i].in] \/ FilesChanging(work[i].pane, work[i].in)
    BY <2>1, <2>2 DEF FilesIInv, FilesRead
  <2>4. CASE FilesChanging(work[i].pane, work[i].in)
    BY <1>0, <1>3, <2>2, <2>4 DEF FilesChanging
  <2> QED
    BY <1>0, <2>2, <2>3, <2>4
<1>8. FilesFresh'
  <2>1. \A q \in Panes : (\E i \in Slots : work[i].pane = q /\ work[i].kind \in {"list", "refreshAll"})
                         => \E i \in Slots : work'[i].pane = q /\ work'[i].kind \in {"list", "refreshAll"}
    BY <1>0, <1>3
  <2> QED
    BY <1>0, <1>6, <2>1 DEF FilesIInv, FilesFresh
<1> QED
  BY <1>4, <1>5, <1>7, <1>8 DEF FilesIInv

LEMMA FilesStillIInv == ASSUME FilesIInv, (\E p \in Panes : Files!Select(p)) \/ UNCHANGED Files!vars
                        PROVE  FilesIInv'
<1>1. /\ UNCHANGED <<disk, dir, listed, work, unsure>>
      /\ sel' \in [Panes -> Dirs \cup {Files!NoDir}]
      /\ \A q \in Panes : sel'[q] = sel[q] \/ sel'[q] = listed[q].of
  <2>1. CASE \E p \in Panes : Files!Select(p)
    BY <2>1 DEF Files!Select, FilesIInv, Files!TypeOK
  <2>2. CASE UNCHANGED Files!vars
    BY <2>2 DEF Files!vars, FilesIInv, Files!TypeOK
  <2> QED
    BY <2>1, <2>2
<1>2. Files!TypeOK' /\ FilesPanel'
  BY <1>1 DEF FilesIInv, Files!TypeOK, FilesPanel
<1>3. \A q, d : FilesChanging(q, d) <=> FilesChanging(q, d)'
  BY <1>1 DEF FilesChanging
<1>4. FilesCalled' /\ FilesRead' /\ FilesFresh'
  BY <1>1, <1>3 DEF FilesIInv, FilesCalled, FilesRead, FilesFresh, FilesChanging
<1> QED
  BY <1>2, <1>4 DEF FilesIInv

LEMMA FilesNextIInv == FilesIInv /\ [Files!Next]_(Files!vars) => FilesIInv'
BY FilesOpenIInv, FilesRefreshIInv, FilesChangedIInv, FilesShowIInv, FilesFailsIInv,
   FilesGiveUpIInv, FilesExecuteIInv, FilesChangeIInv, FilesStillIInv DEF Files!Next

LEMMA FilesAlwaysIInv == Files!Init /\ [][Files!Next]_(Files!vars) => []FilesIInv
BY FilesInitIInv, FilesNextIInv, PTL

\* The panes keep their types (FilePanel.tsx).
THEOREM FilesTypeCorrect == Files!Init /\ [][Files!Next]_(Files!vars) => []Files!TypeOK
<1>1. FilesIInv => Files!TypeOK
  BY DEF FilesIInv
<1> QED
  BY <1>1, FilesAlwaysIInv, PTL

\* A change goes to the directory the user sees, whichever listing answers last, and
\* the entries are as the directory is when nothing is under way (FilePanel.tsx
\* loadLocal, loadRemote, refreshAll).
THEOREM FilesPanesAreCurrent == Files!Init /\ [][Files!Next]_(Files!vars) => []Files!PaneIsCurrent
<1>1. FilesIInv => Files!PaneIsCurrent
  <2>1. SUFFICES ASSUME FilesIInv, NEW p \in Panes
                 PROVE  /\ listed[p].of = dir[p] /\ sel[p] \in {Files!NoDir, dir[p]}
                        /\ \A s \in Files!Busy(p) : work[s].kind = "change" => work[s].target = work[s].in
                        /\ Files!Busy(p) = {} /\ ~unsure[p] /\ dir[p] # Files!NoDir => listed[p].age = disk[p][dir[p]]
    BY DEF Files!PaneIsCurrent
  <2>2. listed[p].of = dir[p] /\ sel[p] \in {Files!NoDir, dir[p]}
    BY <2>1 DEF FilesIInv, FilesPanel
  <2>3. \A s \in Files!Busy(p) : work[s].kind = "change" => work[s].target = work[s].in
    BY <2>1 DEF FilesIInv, FilesCalled, Files!Busy
  <2>4. Files!Busy(p) = {} => \A s \in Slots : work[s].kind = "idle" \/ work[s].pane # p
    BY DEF Files!Busy
  <2>5. Files!Busy(p) = {} /\ ~unsure[p] /\ dir[p] # Files!NoDir => listed[p].age = disk[p][dir[p]]
    BY <2>1, <2>4 DEF FilesIInv, FilesFresh, FilesChanging
  <2> QED
    BY <2>2, <2>3, <2>5
<1> QED
  BY <1>1, FilesAlwaysIInv, PTL

HIDE FilesAssumption

-----------------------------------------------------------------------------
(* The list of transfers *)

USE TransfersAssumption

TransfersEvents == Uploads \X {"running", "ended"}
TransfersFlags == {"none", "running", "ended"}

TransfersTypes ==
    /\ status \in [Uploads -> TransfersFlags] /\ progress \in Seq(TransfersEvents)
    /\ attached \subseteq panels /\ panels \subseteq Hosts /\ drop \subseteq Transfers!Handlers
    /\ rdir \in [Hosts -> Places] /\ policy \in [Hosts -> Transfers!Policies]
    /\ queue \in [Hosts -> [Uploads -> TransfersFlags]] /\ timers \subseteq Hosts \X Uploads

\* A panel that is not there shows nothing, and removes nothing.
TransfersGone == \A h \in Hosts \ panels : queue[h] = Transfers!NoEntries

\* The events of a transfer come after it began, and the last one is its end.
TransfersTold ==
    \A i \in 1..Len(progress) :
        /\ status[progress[i][1]] # "none"
        /\ progress[i][2] = "running" /\ status[progress[i][1]] = "ended" =>
              \E j \in 1..Len(progress) : j > i /\ progress[j] = <<progress[i][1], "ended">>

\* A transfer that is shown as running runs, or its end is still to be told.
TransfersEnding(t) == \E i \in 1..Len(progress) : progress[i] = <<t, "ended">>
TransfersShows ==
    \A h \in attached, t \in Uploads :
        /\ queue[h][t] = "running" => status[t] = "running" \/ TransfersEnding(t)
        /\ queue[h][t] = "ended" => <<h, t>> \in timers

TransfersIInv == TransfersTypes /\ TransfersGone /\ TransfersTold /\ TransfersShows /\ Transfers!DropIsForShown

LEMMA TransfersFreshIsPlace == Transfers!Fresh \in Places
BY DEF Transfers!Fresh

LEMMA TransfersHandlerIs ==
    ASSUME NEW h \in Hosts, NEW d \in Places, NEW c \in Transfers!Policies
    PROVE  /\ Transfers!Handler(h, d, c) \in Transfers!Handlers /\ Transfers!Handler(h, d, c).host = h
           /\ Transfers!Handler(h, d, c).at = d /\ Transfers!Handler(h, d, c).policy = c
BY DEF Transfers!Handler, Transfers!Handlers

LEMMA TransfersInitIInv == Transfers!Init => TransfersIInv
<1> SUFFICES ASSUME Transfers!Init PROVE TransfersIInv
  OBVIOUS
<1>1. Transfers!NoEntries \in [Uploads -> TransfersFlags]
  BY DEF Transfers!NoEntries, TransfersFlags
<1>2. <<>> \in Seq(TransfersEvents) /\ Len(<<>>) = 0
  BY EmptySeq
<1>3. TransfersTypes
  BY <1>1, <1>2, TransfersFreshIsPlace DEF Transfers!Init, TransfersTypes, Transfers!Policies,
                                           TransfersFlags
<1> QED
  BY <1>2, <1>3 DEF Transfers!Init, TransfersIInv, TransfersGone, TransfersTold, TransfersShows,
                    Transfers!DropIsForShown

\* The effects of the panels.
LEMMA TransfersPanelIInv ==
    ASSUME TransfersIInv, UNCHANGED Transfers!serverVars, NEW h \in Hosts,
           panels' \subseteq Hosts, attached' \subseteq panels', drop' \subseteq Transfers!Handlers,
           rdir' \in [Hosts -> Places], policy' \in [Hosts -> Transfers!Policies],
           \/ UNCHANGED <<queue, timers>> /\ panels \subseteq panels' /\ attached' \subseteq attached \cup {h}
              /\ (h \in attached' \ attached => h \notin panels)
           \/ attached' = {} /\ panels' = panels \ {h} /\ timers' \subseteq timers
              /\ queue' = [queue EXCEPT ![h] = Transfers!NoEntries],
           Transfers!DropIsForShown'
    PROVE  TransfersIInv'
<1>1. UNCHANGED <<status, progress>>
  BY DEF Transfers!serverVars
<1>2. Transfers!NoEntries \in [Uploads -> TransfersFlags] /\ \A t \in Uploads : Transfers!NoEntries[t] = "none"
  BY DEF Transfers!NoEntries, TransfersFlags
<1>3. TransfersTypes'
  BY <1>1, <1>2 DEF TransfersIInv, TransfersTypes
<1>4. TransfersGone'
  BY DEF TransfersIInv, TransfersTypes, TransfersGone
<1>5. TransfersTold'
  BY <1>1 DEF TransfersIInv, TransfersTold
<1>6. TransfersShows'
  <2>1. CASE attached' = {}
    BY <2>1 DEF TransfersShows
  <2>2. CASE /\ UNCHANGED <<queue, timers>> /\ panels \subseteq panels' /\ attached' \subseteq attached \cup {h}
             /\ (h \in attached' \ attached => h \notin panels)
    <3>1. SUFFICES ASSUME NEW g \in attached', NEW t \in Uploads
                   PROVE  /\ queue[g][t] = "running" => status[t] = "running" \/ TransfersEnding(t)
                          /\ queue[g][t] = "ended" => <<g, t>> \in timers
      BY <1>1, <2>2 DEF TransfersShows, TransfersEnding
    <3>2. CASE g \in attached
      BY <3>2 DEF TransfersIInv, TransfersShows
    <3>3. CASE g \notin attached
      <4>1. queue[g] = Transfers!NoEntries
        BY <2>2, <3>3 DEF TransfersIInv, TransfersGone
      <4> QED
        BY <1>2, <4>1
    <3> QED
      BY <3>2, <3>3
  <2> QED
    BY <2>1, <2>2
<1> QED
  BY <1>3, <1>4, <1>5, <1>6 DEF TransfersIInv

LEMMA TransfersEffectsIInv ==
    ASSUME TransfersIInv, NEW h \in Hosts,
           \/ Transfers!Mount(h) \/ Transfers!Unmount(h) \/ (\E d \in Places : Transfers!ShowDir(h, d)) \/ (\E c \in Transfers!Policies : Transfers!SetConflict(h, c))
    PROVE  TransfersIInv'
<1>0. /\ attached \subseteq panels /\ panels \subseteq Hosts /\ drop \subseteq Transfers!Handlers
      /\ rdir \in [Hosts -> Places] /\ policy \in [Hosts -> Transfers!Policies]
      /\ Transfers!DropIsForShown
  BY DEF TransfersIInv, TransfersTypes
<1>1. CASE Transfers!Mount(h)
  <2>0. Transfers!Handler(h, rdir[h], policy[h]) \in Transfers!Handlers
    BY <1>0, TransfersHandlerIs
  <2>1. drop' \subseteq Transfers!Handlers
    BY <1>0, <1>1, <2>0 DEF Transfers!Mount
  <2>2. Transfers!DropIsForShown'
    BY <1>0, <1>1, TransfersHandlerIs DEF Transfers!Mount, Transfers!DropIsForShown
  <2> QED
    BY <1>0, <1>1, <2>1, <2>2, TransfersPanelIInv DEF Transfers!Mount
<1>2. CASE Transfers!Unmount(h)
  <2>1. Transfers!DropIsForShown'
    BY <1>2 DEF Transfers!Unmount, Transfers!DropIsForShown
  <2>2. /\ panels' = panels \ {h} /\ attached' = {} /\ drop' = {} /\ timers' \subseteq timers
        /\ queue' = [queue EXCEPT ![h] = Transfers!NoEntries] /\ UNCHANGED Transfers!serverVars
        /\ rdir' \in [Hosts -> Places] /\ policy' \in [Hosts -> Transfers!Policies]
    BY <1>0, <1>2, TransfersFreshIsPlace DEF Transfers!Unmount, Transfers!Policies
  <2> QED
    BY <1>0, <2>1, <2>2, TransfersPanelIInv
<1>3. ASSUME NEW d \in Places, Transfers!ShowDir(h, d) PROVE TransfersIInv'
  <2>1. drop' \subseteq Transfers!Handlers /\ rdir' \in [Hosts -> Places] /\ rdir'[h] = d
    BY <1>0, <1>3, TransfersHandlerIs DEF Transfers!ShowDir
  <2>2. Transfers!DropIsForShown'
    BY <1>0, <1>3, <2>1, TransfersHandlerIs DEF Transfers!ShowDir, Transfers!DropIsForShown
  <2> QED
    BY <1>0, <1>3, <2>1, <2>2, TransfersPanelIInv DEF Transfers!ShowDir
<1>4. ASSUME NEW c \in Transfers!Policies, Transfers!SetConflict(h, c) PROVE TransfersIInv'
  <2>1. /\ drop' \subseteq Transfers!Handlers /\ policy' \in [Hosts -> Transfers!Policies]
        /\ policy'[h] = c
    BY <1>0, <1>4, TransfersHandlerIs DEF Transfers!SetConflict
  <2>2. Transfers!DropIsForShown'
    BY <1>0, <1>4, <2>1, TransfersHandlerIs DEF Transfers!SetConflict, Transfers!DropIsForShown
  <2> QED
    BY <1>0, <1>4, <2>1, <2>2, TransfersPanelIInv DEF Transfers!SetConflict
<1> QED
  BY <1>1, <1>2, <1>3, <1>4

\* A transfer begins or ends, and an event says so.
LEMMA TransfersEventIInv ==
    ASSUME TransfersIInv, NEW t \in Uploads, NEW s \in {"running", "ended"},
           status[t] = IF s = "running" THEN "none" ELSE "running",
           status' = [status EXCEPT ![t] = s], progress' = Append(progress, <<t, s>>),
           UNCHANGED <<attached, drop, panels, rdir, policy, queue, timers>>
    PROVE  TransfersIInv'
<1> DEFINE n == Len(progress)
<1>0. /\ progress \in Seq(TransfersEvents) /\ status \in [Uploads -> TransfersFlags] /\ n \in Nat
      /\ <<t, s>> \in TransfersEvents
      /\ n = Len(progress)
  BY DEF TransfersIInv, TransfersTypes, TransfersEvents
<1>1. /\ progress' \in Seq(TransfersEvents) /\ Len(progress') = n + 1 /\ progress'[n + 1] = <<t, s>>
      /\ \A i \in 1..n : progress'[i] = progress[i] /\ progress[i] \in TransfersEvents
  BY <1>0, AppendProperties, ElementOfSeq
<1> HIDE DEF n
<1>2. TransfersTypes'
  BY <1>0, <1>1 DEF TransfersIInv, TransfersTypes, TransfersFlags
<1>3. TransfersGone'
  BY DEF TransfersIInv, TransfersGone
<1>4. Transfers!DropIsForShown'
  BY DEF TransfersIInv, Transfers!DropIsForShown
<1>5. \A u \in Uploads : status'[u] = IF u = t THEN s ELSE status[u]
  BY <1>0
<1>6. TransfersTold'
  <2>1. SUFFICES ASSUME NEW i \in 1..(n + 1)
                 PROVE  /\ status'[progress'[i][1]] # "none"
                        /\ progress'[i][2] = "running" /\ status'[progress'[i][1]] = "ended" =>
                             \E j \in 1..(n + 1) : j > i /\ progress'[j] = <<progress'[i][1], "ended">>
    BY <1>1 DEF TransfersTold
  <2>2. CASE i = n + 1
    <3>1. progress'[i][1] = t /\ progress'[i][2] = s /\ status'[t] = s
      BY <1>1, <1>5, <2>2
    <3> QED
      BY <3>1
  <2>3. CASE i # n + 1
    <3>1. i \in 1..n /\ i < n + 1 /\ n + 1 \in 1..(n + 1) /\ \A j \in 1..n : j \in 1..(n + 1)
      BY <1>0, <2>3
    <3>2. /\ progress'[i] = progress[i] /\ progress[i][1] \in Uploads
          /\ status[progress[i][1]] # "none"
          /\ progress[i][2] = "running" /\ status[progress[i][1]] = "ended" =>
                \E j \in 1..n : j > i /\ progress[j] = <<progress[i][1], "ended">>
      BY <1>0, <1>1, <3>1 DEF TransfersIInv, TransfersTold, TransfersEvents
    <3>3. CASE progress[i][1] = t
      <4>1. status'[t] = s
        BY <1>5
      <4> QED
        BY <1>1, <3>1, <3>2, <3>3, <4>1
    <3>4. CASE progress[i][1] # t
      BY <1>1, <1>5, <3>1, <3>2, <3>4
    <3> QED
      BY <3>3, <3>4
  <2> QED
    BY <2>2, <2>3
<1>7. TransfersShows'
  <2>1. \A u \in Uploads : TransfersEnding(u) => TransfersEnding(u)'
    BY <1>0, <1>1 DEF TransfersEnding
  <2>2. s = "ended" => TransfersEnding(t)'
    BY <1>0, <1>1 DEF TransfersEnding
  <2> QED
    BY <1>5, <2>1, <2>2 DEF TransfersIInv, TransfersShows
<1> QED
  BY <1>2, <1>3, <1>4, <1>6, <1>7 DEF TransfersIInv

LEMMA TransfersTransferIInv ==
    ASSUME TransfersIInv, NEW t \in Uploads, Transfers!Begins(t) \/ Transfers!Ends(t)
    PROVE  TransfersIInv'
<1>1. CASE Transfers!Begins(t)
  BY <1>1, TransfersEventIInv DEF Transfers!Begins
<1>2. CASE Transfers!Ends(t)
  BY <1>2, TransfersEventIInv DEF Transfers!Ends
<1> QED
  BY <1>1, <1>2

LEMMA TransfersOnProgressIInv == ASSUME TransfersIInv, Transfers!OnProgress PROVE TransfersIInv'
<1> DEFINE n == Len(progress)
<1>0. /\ progress \in Seq(TransfersEvents) /\ progress # <<>> /\ progress' = Tail(progress)
      /\ status \in [Uploads -> TransfersFlags] /\ n \in Nat /\ n = Len(progress)
      /\ UNCHANGED <<status, attached, drop, panels, rdir, policy>>
      /\ attached \subseteq Hosts /\ queue \in [Hosts -> [Uploads -> TransfersFlags]]
  BY DEF Transfers!OnProgress, TransfersIInv, TransfersTypes
<1>1. /\ Head(progress) = progress[1] /\ Head(progress) \in TransfersEvents /\ n > 0
      /\ progress' \in Seq(TransfersEvents) /\ Len(progress') = n - 1
      /\ \A i \in 1..(n - 1) : progress'[i] = progress[i + 1]
      /\ \A i \in 1..n : progress[i] \in TransfersEvents
  BY <1>0, HeadTailProperties, ElementOfSeq, EmptySeq
<1> HIDE DEF n
<1>2. PICK t \in Uploads, s \in {"running", "ended"} : Head(progress) = <<t, s>>
  BY <1>1 DEF TransfersEvents
<1>3. /\ queue' = [h \in Hosts |-> IF h \in attached THEN [queue[h] EXCEPT ![t] = s] ELSE queue[h]]
      /\ timers' = IF s = "ended" THEN timers \cup (attached \X {t}) ELSE timers
  <2>1. Head(progress)[1] = t /\ Head(progress)[2] = s
    BY <1>2
  <2>2. /\ queue' = [h \in Hosts |-> IF h \in attached THEN [queue[h] EXCEPT ![Head(progress)[1]] = Head(progress)[2]]
                                     ELSE queue[h]]
        /\ timers' = IF Head(progress)[2] = "ended" THEN timers \cup (attached \X {Head(progress)[1]}) ELSE timers
    BY DEF Transfers!OnProgress
  <2> QED
    BY <2>1, <2>2
<1>4. TransfersTypes'
  <2>1. queue' \in [Hosts -> [Uploads -> TransfersFlags]]
    BY <1>0, <1>3 DEF TransfersFlags
  <2>2. timers' \subseteq Hosts \X Uploads
    BY <1>0, <1>3 DEF TransfersIInv, TransfersTypes
  <2> QED
    BY <1>0, <1>1, <2>1, <2>2 DEF TransfersIInv, TransfersTypes
<1>5. TransfersGone'
  BY <1>0, <1>3 DEF TransfersIInv, TransfersTypes, TransfersGone
<1>6. Transfers!DropIsForShown'
  BY <1>0 DEF TransfersIInv, Transfers!DropIsForShown
<1>7. TransfersTold'
  <2>1. SUFFICES ASSUME NEW i \in 1..(n - 1)
                 PROVE  /\ status[progress'[i][1]] # "none"
                        /\ progress'[i][2] = "running" /\ status[progress'[i][1]] = "ended" =>
                             \E j \in 1..(n - 1) : j > i /\ progress'[j] = <<progress'[i][1], "ended">>
    <3>1. status' = status /\ Len(progress') = n - 1
      BY <1>0, <1>1
    <3> QED
      BY <3>1, Zenon DEF TransfersTold
  <2>2. i + 1 \in 1..n /\ \A j \in 1..n : j > i + 1 => j - 1 \in 1..(n - 1) /\ j - 1 > i /\ (j - 1) + 1 = j
    BY <1>0
  <2>3. /\ status[progress[i + 1][1]] # "none"
        /\ progress[i + 1][2] = "running" /\ status[progress[i + 1][1]] = "ended" =>
              \E j \in 1..n : j > i + 1 /\ progress[j] = <<progress[i + 1][1], "ended">>
    BY <1>0, <2>2 DEF TransfersIInv, TransfersTold
  <2>4. CASE progress[i + 1][2] = "running" /\ status[progress[i + 1][1]] = "ended"
    <3>1. PICK j \in 1..n : j > i + 1 /\ progress[j] = <<progress[i + 1][1], "ended">>
      BY <2>3, <2>4
    <3>2. progress'[j - 1] = <<progress'[i][1], "ended">>
      BY <1>1, <2>2, <3>1
    <3> QED
      BY <1>1, <2>2, <2>3, <3>1, <3>2
  <2> QED
    BY <1>1, <2>3, <2>4
<1>8. TransfersShows'
  <2>1. SUFFICES ASSUME NEW h \in attached, NEW u \in Uploads
                 PROVE  /\ queue'[h][u] = "running" => status[u] = "running" \/ TransfersEnding(u)'
                        /\ queue'[h][u] = "ended" => <<h, u>> \in timers'
    BY <1>0 DEF TransfersShows
  <2>2. /\ h \in Hosts /\ queue'[h] = [queue[h] EXCEPT ![t] = s]
        /\ queue[h] \in [Uploads -> TransfersFlags]
    BY <1>0, <1>3
  <2>3. CASE u = t
    <3>1. queue'[h][u] = s
      BY <2>2, <2>3
    <3>2. CASE s = "running"
      <4>1. /\ status[t] # "none"
            /\ status[t] = "ended" => \E j \in 1..n : j > 1 /\ progress[j] = <<t, "ended">>
        <5>1. 1 \in 1..n /\ progress[1][1] = t /\ progress[1][2] = "running"
          BY <1>0, <1>1, <1>2, <3>2
        <5> QED
          BY <1>0, <5>1 DEF TransfersIInv, TransfersTold
      <4>2. status[t] = "ended" => TransfersEnding(t)'
        <5>1. \A j \in 1..n : j > 1 => j - 1 \in 1..(n - 1) /\ (j - 1) + 1 = j
          BY <1>0
        <5> QED
          BY <1>1, <4>1, <5>1 DEF TransfersEnding
      <4> QED
        BY <1>0, <2>3, <3>1, <3>2, <4>1, <4>2 DEF TransfersFlags
    <3>3. CASE s = "ended"
      BY <1>3, <2>3, <3>1, <3>3
    <3> QED
      BY <3>2, <3>3
  <2>4. CASE u # t
    <3>1. queue'[h][u] = queue[h][u] /\ timers \subseteq timers'
      BY <1>3, <2>2, <2>4
    <3>2. TransfersEnding(u) => TransfersEnding(u)'
      <4>1. ASSUME NEW i \in 1..n, progress[i] = <<u, "ended">> PROVE TransfersEnding(u)'
        <5>1. i # 1
          BY <1>1, <1>2, <2>4, <4>1
        <5>2. i - 1 \in 1..(n - 1) /\ (i - 1) + 1 = i
          BY <1>0, <5>1
        <5> QED
          BY <1>1, <4>1, <5>2 DEF TransfersEnding
      <4> QED
        BY <1>0, <4>1 DEF TransfersEnding
    <3> QED
      BY <3>1, <3>2 DEF TransfersIInv, TransfersShows
  <2> QED
    BY <2>3, <2>4
<1> QED
  BY <1>4, <1>5, <1>6, <1>7, <1>8 DEF TransfersIInv

\* Entries are taken from the list.
LEMMA TransfersRemoveIInv ==
    ASSUME TransfersIInv, UNCHANGED <<Transfers!serverVars, attached, drop, panels, rdir, policy>>,
           queue' \in [Hosts -> [Uploads -> TransfersFlags]], timers' \subseteq timers,
           \A h \in Hosts, t \in Uploads : queue'[h][t] \in {queue[h][t], "none"},
           \A h \in Hosts, t \in Uploads : <<h, t>> \notin timers' => <<h, t>> \notin timers \/ queue'[h][t] = "none"
    PROVE  TransfersIInv'
<1>1. UNCHANGED <<status, progress, attached, drop, panels, rdir, policy>>
  BY DEF Transfers!serverVars
<1>2. TransfersTypes'
  BY <1>1 DEF TransfersIInv, TransfersTypes
<1>3. TransfersGone'
  <2>1. SUFFICES ASSUME NEW h \in Hosts \ panels PROVE queue'[h] = Transfers!NoEntries
    BY <1>1 DEF TransfersGone
  <2>2. queue[h] = Transfers!NoEntries /\ \A t \in Uploads : Transfers!NoEntries[t] = "none"
    BY DEF TransfersIInv, TransfersGone, Transfers!NoEntries
  <2>3. queue'[h] \in [Uploads -> TransfersFlags] /\ \A t \in Uploads : queue'[h][t] = "none"
    BY <2>2
  <2> QED
    BY <2>3 DEF Transfers!NoEntries
<1>4. TransfersTold'
  BY <1>1 DEF TransfersIInv, TransfersTold
<1>5. TransfersShows'
  <2>1. SUFFICES ASSUME NEW h \in attached, NEW t \in Uploads
                 PROVE  /\ queue'[h][t] = "running" => status[t] = "running" \/ TransfersEnding(t)
                        /\ queue'[h][t] = "ended" => <<h, t>> \in timers'
    BY <1>1 DEF TransfersShows, TransfersEnding
  <2>2. h \in Hosts
    BY DEF TransfersIInv, TransfersTypes
  <2> QED
    BY <2>2 DEF TransfersIInv, TransfersShows
<1>6. Transfers!DropIsForShown'
  BY <1>1 DEF TransfersIInv, Transfers!DropIsForShown
<1> QED
  BY <1>2, <1>3, <1>4, <1>5, <1>6 DEF TransfersIInv

LEMMA TransfersListIInv ==
    ASSUME TransfersIInv, NEW h \in Hosts,
           Transfers!ClearFinished(h) \/ \E t \in Uploads : Transfers!RemoveTask(h, t) \/ Transfers!AutoRemove(h, t)
    PROVE  TransfersIInv'
<1>0. queue \in [Hosts -> [Uploads -> TransfersFlags]]
  BY DEF TransfersIInv, TransfersTypes
<1>1. CASE Transfers!ClearFinished(h)
  <2>1. queue' = [queue EXCEPT ![h] = [t \in Uploads |-> IF queue[h][t] = "running" THEN queue[h][t] ELSE "none"]]
    BY <1>1 DEF Transfers!ClearFinished
  <2>2. /\ queue' \in [Hosts -> [Uploads -> TransfersFlags]]
        /\ \A g \in Hosts, t \in Uploads : queue'[g][t] \in {queue[g][t], "none"}
    BY <1>0, <2>1 DEF TransfersFlags
  <2> QED
    BY <1>1, <2>2, TransfersRemoveIInv DEF Transfers!ClearFinished
<1>2. ASSUME NEW t \in Uploads, Transfers!RemoveTask(h, t) \/ Transfers!AutoRemove(h, t)
      PROVE  TransfersIInv'
  <2>1. queue' = [queue EXCEPT ![h] = [queue[h] EXCEPT ![t] = "none"]]
    BY <1>0, <1>2 DEF Transfers!RemoveTask, Transfers!AutoRemove
  <2>2. /\ queue' \in [Hosts -> [Uploads -> TransfersFlags]] /\ queue'[h][t] = "none"
        /\ \A g \in Hosts, u \in Uploads : queue'[g][u] \in {queue[g][u], "none"}
    BY <1>0, <2>1 DEF TransfersFlags
  <2>3. /\ timers' \in {timers, timers \ {<<h, t>>}}
        /\ UNCHANGED <<Transfers!serverVars, attached, drop, panels, rdir, policy>>
    BY <1>2 DEF Transfers!RemoveTask, Transfers!AutoRemove
  <2> QED
    BY <2>2, <2>3, TransfersRemoveIInv
<1> QED
  BY <1>1, <1>2

LEMMA TransfersStillIInv == ASSUME TransfersIInv, UNCHANGED Transfers!vars PROVE TransfersIInv'
<1>1. UNCHANGED <<Transfers!serverVars, attached, drop, panels, rdir, policy, queue, timers>>
  BY DEF Transfers!vars
<1> QED
  BY <1>1, TransfersRemoveIInv DEF TransfersIInv, TransfersTypes

LEMMA TransfersNextIInv == TransfersIInv /\ [Transfers!Next]_(Transfers!vars) => TransfersIInv'
<1>1. ASSUME TransfersIInv, NEW h \in Hosts, NEW t \in Uploads, Transfers!Upload(h,
             t) \/ Transfers!Download(h, t) \/ Transfers!CancelTask(h, t)
      PROVE  TransfersIInv'
  BY <1>1, TransfersTransferIInv DEF Transfers!Upload, Transfers!Download, Transfers!CancelTask
<1>2. ASSUME TransfersIInv, NEW t \in Uploads, Transfers!Drop(t) PROVE TransfersIInv'
  BY <1>2, TransfersTransferIInv DEF Transfers!Drop
<1> QED
  BY <1>1, <1>2, TransfersEffectsIInv, TransfersTransferIInv, TransfersOnProgressIInv,
     TransfersListIInv, TransfersStillIInv DEF Transfers!Next

LEMMA TransfersAlwaysIInv == Transfers!Init /\ [][Transfers!Next]_(Transfers!vars) => []TransfersIInv
BY TransfersInitIInv, TransfersNextIInv, PTL

\* The list keeps its types (FilePanel.tsx).
THEOREM TransfersTypeCorrect == Transfers!Init /\ [][Transfers!Next]_(Transfers!vars) => []Transfers!TypeOK
<1>1. TransfersIInv => Transfers!TypeOK
  <2> SUFFICES ASSUME TransfersIInv PROVE Transfers!TypeOK
    OBVIOUS
  <2>2. Transfers!Range(progress) \subseteq TransfersEvents
    <3>1. progress \in Seq(TransfersEvents)
      BY DEF TransfersIInv, TransfersTypes
    <3>2. DOMAIN progress = 1..Len(progress) /\ \A i \in 1..Len(progress) : progress[i] \in TransfersEvents
      BY <3>1, ElementOfSeq
    <3> QED
      BY <3>2 DEF Transfers!Range
  <2>3. TransfersTypes
    BY DEF TransfersIInv
  <2> QED
    BY <2>2, <2>3 DEF TransfersTypes, Transfers!TypeOK, TransfersEvents, TransfersFlags
<1> QED
  BY <1>1, TransfersAlwaysIInv, PTL

\* The handler of dropped files is the one of a panel that is there, for the directory
\* and policy it shows (FilePanel.tsx, the effect of OnFileDrop).
THEOREM TransfersDropsAreForShown == Transfers!Init /\ [][Transfers!Next]_(Transfers!vars) => []Transfers!DropIsForShown
<1>1. TransfersIInv => Transfers!DropIsForShown
  BY DEF TransfersIInv
<1> QED
  BY <1>1, TransfersAlwaysIInv, PTL

\* A panel with its listener shows no ended transfer as running once the events are
\* through, and removes what it shows as ended (FilePanel.tsx, sftp-progress).
THEOREM TransfersQueuesAreCurrent == Transfers!Init /\ [][Transfers!Next]_(Transfers!vars) => []Transfers!QueueIsCurrent
<1>1. TransfersIInv => Transfers!QueueIsCurrent
  <2>1. progress = <<>> => 1..Len(progress) = {}
    OBVIOUS
  <2> QED
    BY <2>1 DEF TransfersIInv, TransfersShows, TransfersEnding, Transfers!QueueIsCurrent
<1> QED
  BY <1>1, TransfersAlwaysIInv, PTL

HIDE TransfersAssumption

-----------------------------------------------------------------------------
(* Connections *)

USE ConnectAssumption

ConnectStages == {"idle", "loading", "dialing", "accepting", "retrying", "saving", "over"}
ConnectAttempted == [stage : ConnectStages, cfg : Connect!AnyConfig, keep : BOOLEAN, from : {"form", "gone"} \cup Saves]

\* A quick connection loads a stored session.  What an attempt that dials goes on
\* with is a configuration; what it saves has
\* connected; and the key it accepts is the one the user confirmed.
ConnectMeant(x, reachedBefore, grantedBefore) ==
    /\ x.stage = "loading" => x.from \in Saves
    /\ x.stage \in {"dialing", "accepting", "retrying", "saving"} => x.cfg \in Connect!Configs
    /\ x.stage = "saving" => x.cfg \in reachedBefore
    /\ x.stage = "accepting" => x.cfg.host \in grantedBefore
ConnectKept == \A a \in Attempts : ConnectMeant(attempt[a], reached, granted)

\* The session a form was filled from is stored.
ConnectFilling == filledFrom # Connect!NoSave => library[filledFrom] # Connect!NoConfig /\ form = library[filledFrom]

ConnectIInv == Connect!TypeOK /\ ConnectKept /\ ConnectFilling /\ Connect!SavedIsConnected /\ Connect!TrustIsGiven

LEMMA ConnectBlankIsConfig == Connect!Blank \in Connect!Configs
<1> DEFINE q == CHOOSE h \in Servers : TRUE
<1>1. q \in Servers
  OBVIOUS
<1>2. Connect!Blank = [host |-> q, opts |-> {}]
  BY DEF Connect!Blank
<1> HIDE DEF q
<1> QED
  BY <1>1, <1>2 DEF Connect!Configs

LEMMA ConnectIdleIsAttempt == Connect!Idle \in ConnectAttempted /\ Connect!Idle.stage = "idle" /\ Connect!Idle.cfg = Connect!NoConfig
BY DEF Connect!Idle, ConnectAttempted, ConnectStages, Connect!AnyConfig

LEMMA ConnectInitIInv == Connect!Init => ConnectIInv
<1> SUFFICES ASSUME Connect!Init PROVE ConnectIInv
  OBVIOUS
<1>1. \A a \in Attempts : attempt[a] \in ConnectAttempted /\ attempt[a].stage = "idle"
  BY ConnectIdleIsAttempt DEF Connect!Init
<1>2. Connect!TypeOK
  <2>1. attempt \in [Attempts -> ConnectAttempted]
    BY <1>1 DEF Connect!Init
  <2> QED
    BY <2>1, ConnectBlankIsConfig DEF Connect!Init, Connect!TypeOK, Connect!AnyConfig,
                                      ConnectAttempted, ConnectStages
<1>3. ConnectKept
  BY <1>1 DEF ConnectKept, ConnectMeant
<1>4. ConnectFilling /\ Connect!SavedIsConnected /\ Connect!TrustIsGiven
  BY DEF Connect!Init, ConnectFilling, Connect!SavedIsConnected, Connect!TrustIsGiven
<1> QED
  BY <1>2, <1>3, <1>4 DEF ConnectIInv

\* The form is typed in, filled, opened or closed; stored sessions may go.
LEMMA ConnectFormIInv ==
    ASSUME ConnectIInv, UNCHANGED <<trusted, pendingKeys, reached, granted>>,
           formOpen' \in BOOLEAN, form' \in Connect!Configs, keep' \in BOOLEAN,
           connecting' \in BOOLEAN,
           quick' \in Saves \cup {Connect!NoSave}, filledFrom' \in Saves \cup {Connect!NoSave},
           loading' \subseteq Saves,
           opened' \subseteq Attempts, attempt' \in [Attempts -> ConnectAttempted],
           library' \in [Saves -> Connect!AnyConfig],
           \A s \in Saves : library'[s] \in {library[s], Connect!NoConfig},
           ConnectFilling',
           \A a \in Attempts : \/ /\ attempt'[a].stage = attempt[a].stage /\ attempt'[a].cfg = attempt[a].cfg
                                  /\ attempt'[a].from = attempt[a].from \/ attempt[a].from = "form"
                               \/ attempt'[a].stage \in {"idle", "over"}
                               \/ attempt'[a].stage = "loading" /\ attempt'[a].from \in Saves
                               \/ attempt'[a].stage = "dialing" /\ attempt'[a].cfg \in Connect!Configs
                               \/ /\ attempt[a].stage = "accepting"
                                  /\ attempt'[a].stage = "retrying"
                                  /\ attempt'[a].cfg = attempt[a].cfg
    PROVE  ConnectIInv'
<1>1. Connect!TypeOK'
  BY DEF ConnectIInv, Connect!TypeOK, ConnectAttempted, ConnectStages
<1>2. ConnectKept'
  <2>1. SUFFICES ASSUME NEW a \in Attempts PROVE ConnectMeant(attempt'[a], reached, granted)
    BY DEF ConnectKept, ConnectMeant
  <2>2. ConnectMeant(attempt[a], reached, granted)
    BY DEF ConnectIInv, ConnectKept
  <2> QED
    BY <2>2 DEF ConnectMeant
<1>3. Connect!SavedIsConnected' /\ Connect!TrustIsGiven'
  BY DEF ConnectIInv, Connect!SavedIsConnected, Connect!TrustIsGiven
<1> QED
  BY <1>1, <1>2, <1>3 DEF ConnectIInv

LEMMA ConnectTyped ==
    ASSUME ConnectIInv
    PROVE  /\ formOpen \in BOOLEAN /\ form \in Connect!Configs /\ keep \in BOOLEAN /\ connecting \in BOOLEAN
           /\ quick \in Saves \cup {Connect!NoSave} /\ filledFrom \in Saves \cup {Connect!NoSave}
           /\ loading \subseteq Saves
           /\ opened \subseteq Attempts /\ attempt \in [Attempts -> ConnectAttempted]
           /\ library \in [Saves -> Connect!AnyConfig]
           /\ ConnectFilling
BY DEF ConnectIInv, Connect!TypeOK, ConnectAttempted, ConnectStages

LEMMA ConnectOrphanedIs ==
    ASSUME ConnectIInv
    PROVE  /\ Connect!Orphaned \in [Attempts -> ConnectAttempted]
           /\ \A a \in Attempts : /\ Connect!Orphaned[a].stage = attempt[a].stage /\ Connect!Orphaned[a].cfg = attempt[a].cfg
                                  /\ Connect!Orphaned[a].keep = attempt[a].keep
                                  /\ Connect!Orphaned[a].from = attempt[a].from \/ attempt[a].from = "form"
<1>1. \A x \in ConnectAttempted : /\ [x EXCEPT !.from = "gone"] \in ConnectAttempted
                                  /\ [x EXCEPT !.from = "gone"].stage = x.stage
                                  /\ [x EXCEPT !.from = "gone"].cfg = x.cfg
                                  /\ [x EXCEPT !.from = "gone"].keep = x.keep
  BY DEF ConnectAttempted
<1>2. \A a \in Attempts : /\ attempt[a] \in ConnectAttempted
                          /\ \/ Connect!Orphaned[a] = attempt[a]
                             \/ Connect!Orphaned[a] = [attempt[a] EXCEPT !.from = "gone"] /\ attempt[a].from = "form"
  BY ConnectTyped DEF Connect!Orphaned

<1>4. \A a \in Attempts : /\ Connect!Orphaned[a] \in ConnectAttempted
                          /\ Connect!Orphaned[a].stage = attempt[a].stage
                          /\ Connect!Orphaned[a].cfg = attempt[a].cfg
                          /\ Connect!Orphaned[a].keep = attempt[a].keep
                          /\ Connect!Orphaned[a].from = attempt[a].from \/ attempt[a].from = "form"
  <2>1. SUFFICES ASSUME NEW a \in Attempts
                 PROVE  /\ Connect!Orphaned[a] \in ConnectAttempted
                        /\ Connect!Orphaned[a].stage = attempt[a].stage
                        /\ Connect!Orphaned[a].cfg = attempt[a].cfg
                        /\ Connect!Orphaned[a].keep = attempt[a].keep
                        /\ Connect!Orphaned[a].from = attempt[a].from \/ attempt[a].from = "form"
    OBVIOUS
  <2>2. CASE Connect!Orphaned[a] = attempt[a]
    BY <1>2, <2>2
  <2>3. CASE Connect!Orphaned[a] = [attempt[a] EXCEPT !.from = "gone"] /\ attempt[a].from = "form"
    BY <1>1, <1>2, <2>3
  <2> QED
    BY <1>2, <2>2, <2>3
<1>5. Connect!Orphaned \in [Attempts -> ConnectAttempted]
  <2>1. \A a \in Attempts : (IF attempt[a] # Connect!Idle /\ attempt[a].from = "form"
                             THEN [attempt[a] EXCEPT !.from = "gone"] ELSE attempt[a]) \in ConnectAttempted
    BY <1>1, ConnectTyped
  <2> QED
    BY <2>1 DEF Connect!Orphaned
<1> QED
  BY <1>4, <1>5

LEMMA ConnectTypingIInv ==
    ASSUME ConnectIInv,
           \/ Connect!OpenForm \/ Connect!CancelForm \/ Connect!SetKeep \/ (\E f \in Connect!Configs : Connect!Edit(f))
           \/ \E s \in Saves : Connect!LoadSelected(s) \/ Connect!Filled(s) \/ Connect!DeleteSelected(s)
    PROVE  ConnectIInv'
<1>1. CASE Connect!OpenForm
  <2>1. ConnectFilling' /\ UNCHANGED <<trusted, pendingKeys, reached, granted, library>>
    BY <1>1, ConnectTyped DEF Connect!OpenForm, ConnectFilling, Connect!backEnd, Connect!observed
  <2> QED
    BY <1>1, <2>1, ConnectTyped, ConnectFormIInv DEF Connect!OpenForm, Connect!backEnd,
           Connect!observed
<1>2. CASE Connect!CancelForm
  <2>1. /\ ConnectFilling'
        /\ UNCHANGED <<trusted, pendingKeys, reached, granted, library, quick, opened>>
        /\ formOpen' = FALSE /\ connecting' = FALSE /\ loading' = {} /\ form' \in Connect!Configs
        /\ keep' = FALSE
        /\ filledFrom' = Connect!NoSave /\ attempt' = Connect!Orphaned
    BY <1>2, ConnectBlankIsConfig DEF Connect!CancelForm, Connect!Unmounted, ConnectFilling,
                                      Connect!backEnd
  <2> QED
    BY <2>1, ConnectTyped, ConnectOrphanedIs, ConnectFormIInv
<1>3. CASE Connect!SetKeep
  <2>1. /\ ConnectFilling' /\ UNCHANGED <<trusted, pendingKeys, reached, granted, library>>
        /\ keep' \in BOOLEAN
    BY <1>3, ConnectTyped DEF Connect!SetKeep, ConnectFilling, Connect!backEnd, Connect!observed
  <2> QED
    BY <1>3, <2>1, ConnectTyped, ConnectFormIInv DEF Connect!SetKeep, Connect!backEnd,
           Connect!observed
<1>4. ASSUME NEW f \in Connect!Configs, Connect!Edit(f) PROVE ConnectIInv'
  <2>1. ConnectFilling' /\ UNCHANGED <<trusted, pendingKeys, reached, granted, library>>
    BY <1>4 DEF Connect!Edit, ConnectFilling, Connect!backEnd
  <2> QED
    BY <1>4, <2>1, ConnectTyped, ConnectFormIInv DEF Connect!Edit, Connect!backEnd
<1>5. ASSUME NEW s \in Saves, Connect!LoadSelected(s) PROVE ConnectIInv'
  <2>1. /\ ConnectFilling' /\ UNCHANGED <<trusted, pendingKeys, reached, granted, library>>
        /\ loading' \subseteq Saves
    BY <1>5, ConnectTyped DEF Connect!LoadSelected, ConnectFilling, Connect!backEnd,
                              Connect!observed
  <2> QED
    BY <1>5, <2>1, ConnectTyped, ConnectFormIInv DEF Connect!LoadSelected, Connect!backEnd,
           Connect!observed
<1>6. ASSUME NEW s \in Saves, Connect!Filled(s) PROVE ConnectIInv'
  <2>1. UNCHANGED <<trusted, pendingKeys, library, formOpen, keep, connecting, quick, attempt, opened, reached, granted>>
    BY <1>6 DEF Connect!Filled, Connect!backEnd
  <2>2. ConnectFilling' /\ form' \in Connect!Configs /\ filledFrom' \in Saves \cup {Connect!NoSave}
    <3>1. CASE library[s] = Connect!NoConfig
      BY <1>6, <2>1, <3>1, ConnectTyped DEF Connect!Filled, ConnectFilling
    <3>2. CASE library[s] # Connect!NoConfig
      <4>1. form' = library[s] /\ filledFrom' = s /\ library[s] \in Connect!Configs
        BY <1>6, <3>2, ConnectTyped DEF Connect!Filled, Connect!AnyConfig
      <4> QED
        BY <2>1, <3>2, <4>1 DEF ConnectFilling
    <3> QED
      BY <3>1, <3>2
  <2>3. loading' \subseteq Saves
    BY <1>6, ConnectTyped DEF Connect!Filled
  <2> QED
    BY <2>1, <2>2, <2>3, ConnectTyped, ConnectFormIInv
<1>7. ASSUME NEW s \in Saves, Connect!DeleteSelected(s) PROVE ConnectIInv'
  <2>1. /\ library' = [library EXCEPT ![s] = Connect!NoConfig]
        /\ filledFrom' = IF filledFrom = s THEN Connect!NoSave ELSE filledFrom
        /\ UNCHANGED <<trusted, pendingKeys, formOpen, form, keep, connecting, quick, loading, attempt, opened,
                       reached, granted>>
    BY <1>7 DEF Connect!DeleteSelected
  <2>2. /\ library' \in [Saves -> Connect!AnyConfig] /\ \A r \in Saves : library'[r] \in {library[r], Connect!NoConfig}
        /\ \A r \in Saves \ {s} : library'[r] = library[r]
    BY <2>1, ConnectTyped DEF Connect!AnyConfig
  <2>3. ConnectFilling' /\ filledFrom' \in Saves \cup {Connect!NoSave}
    BY <2>1, <2>2, ConnectTyped DEF ConnectFilling
  <2> QED
    BY <2>1, <2>2, <2>3, ConnectTyped, ConnectFormIInv
<1> QED
  BY <1>1, <1>2, <1>3, <1>4, <1>5, <1>6, <1>7

LEMMA ConnectStartIInv ==
    ASSUME ConnectIInv, NEW a \in Attempts,
           Connect!Connect(a) \/ Connect!QuickLoaded(a) \/ Connect!ConnectFails(a) \/ Connect!CloseTab(a) \/ \E s \in Saves : Connect!QuickConnect(a, s)
    PROVE  ConnectIInv'
<1>1. CASE Connect!Connect(a)
  <2>1. /\ attempt' = [attempt EXCEPT ![a] = [stage |-> "dialing", cfg |-> form, keep |-> keep, from |-> "form"]]
        /\ connecting' = TRUE
        /\ UNCHANGED <<trusted, pendingKeys, library, formOpen, form, keep, quick, loading, opened, reached, granted,
                       filledFrom>>
    BY <1>1 DEF Connect!Connect, Connect!backEnd, Connect!observed
  <2>2. [stage |-> "dialing", cfg |-> form, keep |-> keep, from |-> "form"] \in ConnectAttempted
    BY ConnectTyped DEF ConnectAttempted, ConnectStages, Connect!AnyConfig
  <2>3. /\ attempt' \in [Attempts -> ConnectAttempted] /\ attempt'[a].stage = "dialing"
        /\ attempt'[a].cfg \in Connect!Configs
        /\ \A b \in Attempts \ {a} : attempt'[b] = attempt[b]
    BY <2>1, <2>2, ConnectTyped
  <2>4. ConnectFilling'
    BY <2>1, ConnectTyped DEF ConnectFilling
  <2> QED
    BY <2>1, <2>3, <2>4, ConnectTyped, ConnectFormIInv
<1>2. CASE Connect!QuickLoaded(a)
  <2> DEFINE cfg == library[attempt[a].from]
             x == [attempt[a] EXCEPT !.cfg = cfg, !.stage = IF cfg = Connect!NoConfig THEN "over" ELSE "dialing"]
  <2>1. /\ attempt' = [attempt EXCEPT ![a] = x]
        /\ quick' = IF cfg = Connect!NoConfig THEN Connect!NoSave ELSE quick
        /\ UNCHANGED <<trusted, pendingKeys, library, formOpen, form, keep, connecting, loading, opened, reached,
                       granted, filledFrom>>
    BY <1>2 DEF Connect!QuickLoaded, Connect!backEnd, Connect!observed
  <2>2. attempt[a].stage = "loading"
    BY <1>2 DEF Connect!QuickLoaded
  <2>3. cfg \in Connect!AnyConfig
    BY <2>2, ConnectTyped DEF ConnectIInv, ConnectKept, ConnectMeant
  <2>4. attempt[a] \in ConnectAttempted
    BY ConnectTyped
  <2>5. /\ x \in ConnectAttempted
        /\ (x.stage = "over" \/ (x.stage = "dialing" /\ x.cfg \in Connect!Configs))
    BY <2>3, <2>4 DEF ConnectAttempted, ConnectStages, Connect!AnyConfig
  <2> HIDE DEF x, cfg
  <2>6. /\ attempt' \in [Attempts -> ConnectAttempted]
        /\ attempt'[a].stage = "over" \/ (attempt'[a].stage = "dialing" /\ attempt'[a].cfg \in Connect!Configs)
        /\ \A b \in Attempts \ {a} : attempt'[b] = attempt[b]
    BY <2>1, <2>5, ConnectTyped
  <2>7. ConnectFilling' /\ quick' \in Saves \cup {Connect!NoSave}
    BY <2>1, ConnectTyped DEF ConnectFilling
  <2> QED
    BY <2>1, <2>6, <2>7, ConnectTyped, ConnectFormIInv
<1>3. CASE Connect!ConnectFails(a)
  <2>1. /\ attempt' = [attempt EXCEPT ![a] = [attempt[a] EXCEPT !.stage = "over"]]
        /\ UNCHANGED <<trusted, pendingKeys, library, formOpen, form, keep, loading, opened, reached, granted,
                       filledFrom>>
    BY <1>3 DEF Connect!ConnectFails, Connect!backEnd, Connect!observed
  <2>2. connecting' \in BOOLEAN /\ quick' \in Saves \cup {Connect!NoSave}
    BY <1>3, ConnectTyped DEF Connect!ConnectFails, Connect!Freed
  <2>3. /\ [attempt[a] EXCEPT !.stage = "over"] \in ConnectAttempted
        /\ [attempt[a] EXCEPT !.stage = "over"].stage = "over"
    BY ConnectTyped DEF ConnectAttempted, ConnectStages
  <2>4. /\ attempt' \in [Attempts -> ConnectAttempted] /\ attempt'[a].stage = "over"
        /\ \A b \in Attempts \ {a} : attempt'[b] = attempt[b]
    BY <2>1, <2>3, ConnectTyped
  <2>5. ConnectFilling'
    BY <2>1, ConnectTyped DEF ConnectFilling
  <2> QED
    BY <2>1, <2>2, <2>4, <2>5, ConnectTyped, ConnectFormIInv
<1>4. CASE Connect!CloseTab(a)
  <2>1. /\ attempt' = [attempt EXCEPT ![a] = Connect!Idle] /\ opened' = opened \ {a}
        /\ UNCHANGED <<trusted, pendingKeys, library, formOpen, form, keep, connecting, quick, loading, reached, granted,
                       filledFrom>>
    BY <1>4 DEF Connect!CloseTab, Connect!backEnd, Connect!observed
  <2>2. /\ attempt' \in [Attempts -> ConnectAttempted] /\ attempt'[a].stage = "idle"
        /\ \A b \in Attempts \ {a} : attempt'[b] = attempt[b]
    BY <2>1, ConnectIdleIsAttempt, ConnectTyped
  <2>3. ConnectFilling' /\ opened' \subseteq Attempts
    BY <2>1, ConnectTyped DEF ConnectFilling
  <2> QED
    BY <2>1, <2>2, <2>3, ConnectTyped, ConnectFormIInv
<1>5. ASSUME NEW s \in Saves, Connect!QuickConnect(a, s) PROVE ConnectIInv'
  <2>1. /\ attempt' = [attempt EXCEPT ![a] = [Connect!Idle EXCEPT !.stage = "loading", !.from = s]]
        /\ quick' = s
        /\ UNCHANGED <<trusted, pendingKeys, library, formOpen, form, keep, connecting, loading, opened, reached, granted,
                       filledFrom>>
    BY <1>5 DEF Connect!QuickConnect, Connect!backEnd, Connect!observed
  <2>2. [Connect!Idle EXCEPT !.stage = "loading", !.from = s] \in ConnectAttempted
        /\ [Connect!Idle EXCEPT !.stage = "loading", !.from = s].stage = "loading"
        /\ [Connect!Idle EXCEPT !.stage = "loading", !.from = s].from = s
    BY ConnectIdleIsAttempt DEF ConnectAttempted, ConnectStages
  <2>3. /\ attempt' \in [Attempts -> ConnectAttempted] /\ attempt'[a].stage = "loading"
        /\ attempt'[a].from \in Saves
        /\ \A b \in Attempts \ {a} : attempt'[b] = attempt[b]
    BY <2>1, <2>2, ConnectTyped
  <2>4. ConnectFilling'
    BY <2>1, ConnectTyped DEF ConnectFilling
  <2> QED
    BY <2>1, <2>3, <2>4, ConnectTyped, ConnectFormIInv
<1> QED
  BY <1>1, <1>2, <1>3, <1>4, <1>5

\* An attempt goes on: hosts are confirmed or reached, and sessions stored.
LEMMA ConnectGoesOnIInv ==
    ASSUME ConnectIInv, NEW a \in Attempts,
           UNCHANGED <<formOpen, form, keep, loading, opened, filledFrom>>,
           trusted' \subseteq Servers, pendingKeys' \subseteq Servers, granted \subseteq granted',
           granted' \subseteq Servers, reached' = reached, Connect!TrustIsGiven',
           connecting' \in BOOLEAN, quick' \in Saves \cup {Connect!NoSave},
           library' \in [Saves -> Connect!AnyConfig],
           \A s \in Saves : library'[s] = library[s] \/ (library[s] = Connect!NoConfig /\ library'[s] \in reached),
           NEW x \in ConnectStages, attempt' = [attempt EXCEPT ![a].stage = x],
           \/ x = "over"
           \/ attempt[a].stage = "dialing" /\ x = "accepting" /\ attempt[a].cfg.host \in granted'
           \/ attempt[a].stage = "accepting" /\ x = "retrying"
    PROVE  ConnectIInv'
<1>0. /\ attempt' = [attempt EXCEPT ![a] = [attempt[a] EXCEPT !.stage = x]]
      /\ attempt[a] \in ConnectAttempted
  BY ConnectTyped
<1>1. /\ [attempt[a] EXCEPT !.stage = x] \in ConnectAttempted
      /\ [attempt[a] EXCEPT !.stage = x].stage = x
      /\ [attempt[a] EXCEPT !.stage = x].cfg = attempt[a].cfg
      /\ [attempt[a] EXCEPT !.stage = x].from = attempt[a].from
  BY <1>0 DEF ConnectAttempted
<1>2. /\ attempt' \in [Attempts -> ConnectAttempted] /\ \A b \in Attempts \ {a} : attempt'[b] = attempt[b]
      /\ attempt'[a].stage = x /\ attempt'[a].cfg = attempt[a].cfg
  BY <1>0, <1>1, ConnectTyped
<1>3. Connect!TypeOK'
  BY <1>2 DEF ConnectIInv, Connect!TypeOK, ConnectAttempted, ConnectStages
<1>4. ConnectKept'
  <2>1. SUFFICES ASSUME NEW b \in Attempts PROVE ConnectMeant(attempt'[b], reached, granted')
    BY DEF ConnectKept, ConnectMeant
  <2>2. ConnectMeant(attempt[b], reached, granted)
    BY DEF ConnectIInv, ConnectKept
  <2> QED
    BY <1>2, <2>2 DEF ConnectMeant
<1>5. ConnectFilling'
  <2>1. filledFrom \in Saves \cup {Connect!NoSave} /\ form \in Connect!Configs /\ ConnectFilling
    BY ConnectTyped
  <2>2. CASE filledFrom # Connect!NoSave
    BY <2>1, <2>2 DEF ConnectFilling
  <2> QED
    BY <2>2 DEF ConnectFilling
<1>6. Connect!SavedIsConnected'
  BY DEF ConnectIInv, Connect!SavedIsConnected
<1> QED
  BY <1>3, <1>4, <1>5, <1>6 DEF ConnectIInv

LEMMA ConnectUnverifiedIInv == ASSUME ConnectIInv, NEW a \in Attempts, Connect!Unverified(a)
                               PROVE  ConnectIInv'
<1> DEFINE h == attempt[a].cfg.host
<1>0. /\ UNCHANGED <<trusted, library, formOpen, form, keep, loading, opened, reached, filledFrom>>
      /\ pendingKeys' = pendingKeys \cup {h}
  BY DEF Connect!Unverified
<1>1. /\ h \in Servers /\ trusted \subseteq Servers /\ pendingKeys \subseteq Servers
      /\ granted \subseteq Servers
  BY DEF Connect!Unverified, Connect!Dialing, ConnectIInv, ConnectKept, ConnectMeant,
         Connect!Configs, Connect!TypeOK
<1>2. Connect!TrustIsGiven /\ library \in [Saves -> Connect!AnyConfig]
  BY ConnectTyped DEF ConnectIInv
<1>3. CASE /\ attempt[a].stage = "dialing" /\ granted' = granted \cup {h}
           /\ attempt' = [attempt EXCEPT ![a].stage = "accepting"]
           /\ UNCHANGED <<connecting, quick>>
  <2>1. Connect!TrustIsGiven'
    BY <1>0, <1>2, <1>3 DEF Connect!TrustIsGiven
  <2> QED
    BY <1>0, <1>1, <1>2, <1>3, <2>1, ConnectTyped, ConnectGoesOnIInv DEF ConnectStages
<1>4. CASE attempt' = [attempt EXCEPT ![a].stage = "over"] /\ Connect!Freed(a) /\ UNCHANGED granted
  <2>1. Connect!TrustIsGiven'
    BY <1>0, <1>2, <1>4 DEF Connect!TrustIsGiven
  <2>2. connecting' \in BOOLEAN /\ quick' \in Saves \cup {Connect!NoSave}
    BY <1>4, ConnectTyped DEF Connect!Freed
  <2> QED
    BY <1>0, <1>1, <1>2, <1>4, <2>1, <2>2, ConnectGoesOnIInv DEF ConnectStages
<1> QED
  BY <1>3, <1>4 DEF Connect!Unverified

LEMMA ConnectAcceptIInv == ASSUME ConnectIInv, NEW a \in Attempts, Connect!AcceptHostKey(a)
                           PROVE  ConnectIInv'
<1> DEFINE h == attempt[a].cfg.host
<1>0. /\ UNCHANGED <<library, formOpen, form, keep, loading, opened, reached, granted, filledFrom>>
      /\ pendingKeys' = pendingKeys \ {h} /\ attempt[a].stage = "accepting"
  BY DEF Connect!AcceptHostKey, Connect!observed
<1>1. /\ h \in granted /\ trusted \subseteq Servers /\ pendingKeys \subseteq Servers
      /\ granted \subseteq Servers
  BY <1>0 DEF ConnectIInv, ConnectKept, ConnectMeant, Connect!TypeOK
<1>2. Connect!TrustIsGiven /\ library \in [Saves -> Connect!AnyConfig]
  BY ConnectTyped DEF ConnectIInv
<1>3. CASE /\ trusted' = trusted \cup {h} /\ UNCHANGED <<connecting, quick>>
           /\ attempt' = [attempt EXCEPT ![a].stage = "retrying"]
  <2>1. Connect!TrustIsGiven'
    BY <1>0, <1>1, <1>2, <1>3 DEF Connect!TrustIsGiven
  <2> QED
    BY <1>0, <1>1, <1>2, <1>3, <2>1, ConnectTyped, ConnectGoesOnIInv DEF ConnectStages
<1>4. CASE attempt' = [attempt EXCEPT ![a].stage = "over"] /\ Connect!Freed(a) /\ UNCHANGED trusted
  <2>1. Connect!TrustIsGiven'
    BY <1>0, <1>2, <1>4 DEF Connect!TrustIsGiven
  <2>2. connecting' \in BOOLEAN /\ quick' \in Saves \cup {Connect!NoSave}
    BY <1>4, ConnectTyped DEF Connect!Freed
  <2> QED
    BY <1>0, <1>1, <1>2, <1>4, <2>1, <2>2, ConnectGoesOnIInv DEF ConnectStages
<1> QED
  BY <1>3, <1>4 DEF Connect!AcceptHostKey

LEMMA ConnectSaveIInv == ASSUME ConnectIInv, NEW a \in Attempts, NEW s \in Saves,
                                Connect!SaveSession(a, s)
                         PROVE  ConnectIInv'
<1>0. /\ attempt[a].stage = "saving" /\ library[s] = Connect!NoConfig
      /\ library' = [library EXCEPT ![s] = attempt[a].cfg]
      /\ attempt' = [attempt EXCEPT ![a].stage = "over"]
      /\ UNCHANGED <<trusted, pendingKeys, formOpen, form, keep, connecting, quick, loading, opened, reached,
                     granted, filledFrom>>
  BY DEF Connect!SaveSession, Connect!observed
<1>1. attempt[a].cfg \in reached /\ reached \subseteq Connect!Configs
  BY <1>0 DEF ConnectIInv, ConnectKept, ConnectMeant, Connect!TypeOK
<1>2. /\ library' \in [Saves -> Connect!AnyConfig]
      /\ \A r \in Saves : library'[r] = library[r] \/ (library[r] = Connect!NoConfig /\ library'[r] \in reached)
  BY <1>0, <1>1, ConnectTyped DEF Connect!AnyConfig
<1>3. Connect!TrustIsGiven'
  BY <1>0 DEF ConnectIInv, Connect!TrustIsGiven
<1>4. trusted \subseteq Servers /\ pendingKeys \subseteq Servers /\ granted \subseteq Servers
  BY DEF ConnectIInv, Connect!TypeOK
<1> QED
  BY <1>0, <1>2, <1>3, <1>4, ConnectTyped, ConnectGoesOnIInv DEF ConnectStages

LEMMA ConnectedIInv == ASSUME ConnectIInv, NEW a \in Attempts, Connect!Connected(a)
                       PROVE  ConnectIInv'
<1> DEFINE c == attempt[a].cfg
           x == IF attempt[a].keep THEN "saving" ELSE "over"
<1>0. /\ trusted' = IF "telnet" \in c.opts THEN trusted ELSE trusted \cup {c.host}
      /\ reached' = reached \cup {c}
      /\ granted' = IF "strict" \in c.opts THEN granted ELSE granted \cup {c.host}
      /\ opened' = opened \cup {a} /\ quick' = Connect!NoSave
      /\ formOpen' = FALSE /\ connecting' = FALSE /\ loading' = {} /\ form' = Connect!Blank
      /\ keep' = FALSE
      /\ filledFrom' = Connect!NoSave /\ attempt' = [Connect!Orphaned EXCEPT ![a].stage = x]
      /\ UNCHANGED <<pendingKeys, library>>
  BY DEF Connect!Connected, Connect!Unmounted
<1>1. attempt[a].stage \in {"dialing", "retrying"} /\ c \in Connect!Configs /\ c.host \in Servers
  BY DEF Connect!Connected, Connect!Dialing, ConnectIInv, ConnectKept, ConnectMeant, Connect!Configs
<1>2. "strict" \in c.opts /\ "telnet" \notin c.opts => c.host \in trusted
  BY DEF Connect!Connected, Connect!NeedsKey
<1>3. x \in {"saving", "over"}
  OBVIOUS
<1>4. /\ Connect!Orphaned \in [Attempts -> ConnectAttempted]
      /\ attempt' = [Connect!Orphaned EXCEPT ![a] = [Connect!Orphaned[a] EXCEPT !.stage = x]]
  BY <1>0, ConnectOrphanedIs
<1> HIDE DEF x
<1>5. /\ attempt' \in [Attempts -> ConnectAttempted] /\ attempt'[a].stage \in {"saving", "over"}
      /\ attempt'[a].cfg = c
      /\ \A b \in Attempts \ {a} : attempt'[b] = Connect!Orphaned[b]
  <2>1. /\ [Connect!Orphaned[a] EXCEPT !.stage = x] \in ConnectAttempted
        /\ [Connect!Orphaned[a] EXCEPT !.stage = x].stage = x
        /\ [Connect!Orphaned[a] EXCEPT !.stage = x].cfg = Connect!Orphaned[a].cfg
    BY <1>3, <1>4 DEF ConnectAttempted, ConnectStages
  <2> QED
    BY <1>3, <1>4, <2>1, ConnectOrphanedIs
<1> HIDE DEF c
<1>6. /\ trusted \subseteq Servers /\ pendingKeys \subseteq Servers /\ granted \subseteq Servers
      /\ reached \subseteq Connect!Configs
  BY DEF ConnectIInv, Connect!TypeOK
<1>7. Connect!TypeOK'
  <2>1. /\ trusted' \subseteq Servers /\ granted' \subseteq Servers
        /\ reached' \subseteq Connect!Configs
    BY <1>0, <1>1, <1>6
  <2> QED
    BY <1>0, <1>5, <1>6, <2>1, ConnectTyped, ConnectBlankIsConfig DEF Connect!TypeOK,
           ConnectAttempted, ConnectStages
<1>8. ConnectKept'
  <2>1. reached \subseteq reached' /\ c \in reached' /\ granted \subseteq granted'
    BY <1>0
  <2>2. SUFFICES ASSUME NEW b \in Attempts PROVE ConnectMeant(attempt'[b], reached', granted')
    BY DEF ConnectKept, ConnectMeant
  <2>3. CASE b = a
    BY <1>1, <1>5, <2>1, <2>3 DEF ConnectMeant
  <2>4. CASE b # a
    <3>1. ConnectMeant(attempt[b], reached, granted)
      BY DEF ConnectIInv, ConnectKept
    <3> QED
      BY <1>5, <2>1, <2>4, <3>1, ConnectOrphanedIs DEF ConnectMeant
  <2> QED
    BY <2>3, <2>4
<1>9. ConnectFilling'
  BY <1>0 DEF ConnectFilling
<1>10. Connect!SavedIsConnected' /\ Connect!TrustIsGiven'
  BY <1>0, <1>2 DEF ConnectIInv, Connect!SavedIsConnected, Connect!TrustIsGiven
<1> QED
  BY <1>7, <1>8, <1>9, <1>10 DEF ConnectIInv

LEMMA ConnectStillIInv == ASSUME ConnectIInv, UNCHANGED Connect!vars PROVE ConnectIInv'
<1>1. UNCHANGED <<trusted, pendingKeys, library, formOpen, form, keep, connecting, quick, loading, attempt, opened,
                  reached, granted, filledFrom>>
  BY DEF Connect!vars, Connect!backEnd, Connect!observed
<1>2. ConnectFilling'
  BY <1>1, ConnectTyped DEF ConnectFilling
<1> QED
  BY <1>1, <1>2, ConnectTyped, ConnectFormIInv

LEMMA ConnectNextIInv == ConnectIInv /\ [Connect!Next]_(Connect!vars) => ConnectIInv'
BY ConnectTypingIInv, ConnectStartIInv, ConnectUnverifiedIInv, ConnectAcceptIInv, ConnectSaveIInv,
   ConnectedIInv, ConnectStillIInv DEF Connect!Next

LEMMA ConnectAlwaysIInv == Connect!Init /\ [][Connect!Next]_(Connect!vars) => []ConnectIInv
BY ConnectInitIInv, ConnectNextIInv, PTL

\* The form and the attempts keep their types (ConnectForm.tsx, HomeView.tsx).
THEOREM ConnectTypeCorrect == Connect!Init /\ [][Connect!Next]_(Connect!vars) => []Connect!TypeOK
<1>1. ConnectIInv => Connect!TypeOK
  BY DEF ConnectIInv
<1> QED
  BY <1>1, ConnectAlwaysIInv, PTL

\* What is stored has connected, whatever was typed meanwhile (ConnectForm.tsx connect,
\* app.go SaveSession).
THEOREM ConnectSavesAreConnected == Connect!Init /\ [][Connect!Next]_(Connect!vars) => []Connect!SavedIsConnected
<1>1. ConnectIInv => Connect!SavedIsConnected
  BY DEF ConnectIInv
<1> QED
  BY <1>1, ConnectAlwaysIInv, PTL

\* A form that was filled from a stored session connects with what is stored
\* (ConnectForm.tsx loadSelected).
THEOREM ConnectFilledAreStored == Connect!Init /\ [][Connect!Next]_(Connect!vars) => []Connect!FilledIsStored
<1>1. ConnectIInv => Connect!FilledIsStored
  BY DEF ConnectIInv, ConnectFilling, Connect!FilledIsStored
<1> QED
  BY <1>1, ConnectAlwaysIInv, PTL

\* A host is trusted because the user confirmed its key, or reached it without
\* "strict" (app.go AcceptHostKey).
THEOREM ConnectTrustsAreGiven == Connect!Init /\ [][Connect!Next]_(Connect!vars) => []Connect!TrustIsGiven
<1>1. ConnectIInv => Connect!TrustIsGiven
  BY DEF ConnectIInv
<1> QED
  BY <1>1, ConnectAlwaysIInv, PTL

HIDE ConnectAssumption

-----------------------------------------------------------------------------
(* Lists *)

USE ListsAssumption

ListsTypes ==
    /\ kind \in Lists!AllKinds \cap ListKinds
    /\ content \in [Items -> Lists!Content] /\ used \subseteq Items
    /\ rows \in [Items -> Lists!Content]
    /\ chosen \subseteq Items /\ (\A i, j \in chosen : i = j) /\ clashed \in BOOLEAN
    /\ calls \in [Calls -> Lists!Call]
    /\ outdated \in BOOLEAN /\ revived \in BOOLEAN

\* What the panels ask for.
ListsAsked ==
    /\ \A c \in Calls : /\ calls[c].op = "put" => calls[c].value # 0 /\ kind # "audit"
                        /\ calls[c].op = "clear" => kind = "audit" /\ calls[c].list = Lists!Nothing
    /\ chosen # {} => kind # "audit"

\* A list that nothing overtook is the one that is stored.
ListsAnswered ==
    \A c \in Calls :
        calls[c].op \in {"list", "clear"} /\ calls[c].stage = "done" /\ ~calls[c].late
            => calls[c].list = content

\* What is shown is what is stored, or the list will be read again.
ListsRemoving(i) == \E c \in Calls : calls[c].op = "remove" /\ calls[c].item = i
ListsRemoved(i) == \E c \in Calls : calls[c].op = "remove" /\ calls[c].item = i /\ calls[c].stage = "done"
ListsSettles ==
    ~outdated =>
        \/ rows = content
        \/ \E c \in Calls : \/ calls[c].op = "list"
                            \/ calls[c].op \in {"put", "remove", "clear"} /\ calls[c].stage = "done"

\* A row that is shown and is not stored any more was deleted.
ListsRowsAreStored ==
    \A i \in Items :
        ~outdated /\ content[i] = 0 /\ rows[i] # 0 =>
            \/ \E c \in Calls : calls[c].op = "list" \/ (calls[c].op = "clear" /\ calls[c].stage = "done")
            \/ ListsRemoved(i)

\* A form that was opened in peace is closed by the deletion of its entry.
ListsChosenIsStored ==
    \A i \in chosen :
        ~clashed => /\ content[i] # 0 \/ ListsRemoved(i)
                    /\ \A c \in Calls : calls[c].op = "remove" /\ calls[c].item = i => calls[c].own

\* A save that was begun in peace finds its entry.
ListsPutsAreStored ==
    \A c \in Calls :
        calls[c].op = "put" /\ calls[c].value = 2 /\ calls[c].peace /\ kind # "tunnels"
            => content[calls[c].item] # 0 /\ ~ListsRemoving(calls[c].item)

ListsIInv ==
    /\ ListsTypes /\ ListsAsked /\ ListsAnswered /\ ListsSettles /\ ListsRowsAreStored
    /\ ListsChosenIsStored /\ ListsPutsAreStored
    /\ Lists!DeletedStaysDeleted

LEMMA ListsBlankIsCall ==
    /\ Lists!Blank \in Lists!Call /\ Lists!Blank.op = "none" /\ Lists!Blank.stage = "called"
    /\ Lists!Blank.value = 0 /\ Lists!Blank.list = Lists!Nothing
    /\ Lists!Blank.late = FALSE /\ Lists!Blank.own = FALSE /\ Lists!Blank.peace = FALSE
    /\ Lists!Reading \in Lists!Call /\ Lists!Reading.op = "list" /\ Lists!Reading.stage = "called"
<1> DEFINE q == CHOOSE i \in Items : TRUE
<1>1. q \in Items
  OBVIOUS
<1>2. Lists!Blank = [op |-> "none", stage |-> "called", item |-> q, value |-> 0,
               list |-> Lists!Nothing, late |-> FALSE, own |-> FALSE, peace |-> FALSE]
  BY DEF Lists!Blank
<1>3. Lists!Nothing \in [Items -> Lists!Content]
  BY DEF Lists!Nothing, Lists!Content
<1> HIDE DEF q
<1>4. Lists!Blank \in Lists!Call
  BY <1>1, <1>2, <1>3 DEF Lists!Call, Lists!Ops, Lists!Content
<1>5. Lists!Reading \in Lists!Call /\ Lists!Reading.op = "list" /\ Lists!Reading.stage = "called"
  BY <1>2, <1>4 DEF Lists!Reading, Lists!Call, Lists!Ops
<1> QED
  BY <1>2, <1>4, <1>5

LEMMA ListsInitIInv == Lists!Init => ListsIInv
<1> SUFFICES ASSUME Lists!Init PROVE ListsIInv
  OBVIOUS
<1>1. calls \in [Calls -> Lists!Call] /\ \A c \in Calls : calls[c].op \in {"none", "list"} /\ calls[c].stage = "called"
  BY ListsBlankIsCall DEF Lists!Init
<1>2. /\ content \in [Items -> Lists!Content] /\ used \subseteq Items
      /\ rows \in [Items -> Lists!Content]
  BY DEF Lists!Init, Lists!Nothing, Lists!Content
<1>3. ListsTypes
  BY <1>1, <1>2 DEF Lists!Init, ListsTypes, Lists!AllKinds
<1>4. /\ ListsAsked /\ ListsAnswered /\ ListsSettles /\ ListsRowsAreStored /\ ListsChosenIsStored
      /\ ListsPutsAreStored
  BY <1>1 DEF Lists!Init, ListsAsked, ListsAnswered, ListsSettles, ListsRowsAreStored,
              ListsChosenIsStored, ListsPutsAreStored
<1>5. Lists!DeletedStaysDeleted
  BY DEF Lists!Init, Lists!DeletedStaysDeleted
<1> QED
  BY <1>3, <1>4, <1>5 DEF ListsIInv

\* A call begins that deletes nothing.
LEMMA ListsBeginIInv ==
    ASSUME ListsIInv, NEW c \in Calls, calls[c].op = "none", NEW x \in Lists!Call,
           x.op \in {"put", "clear", "list"},
           x.stage = "called", calls' = [calls EXCEPT ![c] = x],
           UNCHANGED <<kind, content, rows, outdated, revived, chosen, clashed>>,
           used' \subseteq Items,
           x.op = "put" => x.value # 0 /\ kind # "audit",
           x.op = "clear" => kind = "audit" /\ x.list = Lists!Nothing,
           x.op = "put" /\ x.value = 2 /\ x.peace /\ kind # "tunnels" => content[x.item] # 0 /\ ~ListsRemoving(x.item)
    PROVE  ListsIInv'
<1>1. calls \in [Calls -> Lists!Call]
  BY DEF ListsIInv, ListsTypes
<1>2. calls' \in [Calls -> Lists!Call] /\ calls'[c] = x /\ \A k \in Calls \ {c} : calls'[k] = calls[k]
  BY <1>1
<1>3. ListsTypes'
  BY <1>2 DEF ListsIInv, ListsTypes
<1>4. ListsAsked'
  BY <1>2 DEF ListsIInv, ListsAsked
<1>5. \A i : (ListsRemoving(i)' <=> ListsRemoving(i)) /\ (ListsRemoved(i) => ListsRemoved(i)')
  BY <1>2 DEF ListsRemoving, ListsRemoved
<1>6. ListsAnswered'
  BY <1>2 DEF ListsIInv, ListsAnswered
<1>7. ListsSettles'
  BY <1>2 DEF ListsIInv, ListsSettles
<1>8. ListsRowsAreStored'
  <2>1. (\E k \in Calls : calls[k].op = "list" \/ (calls[k].op = "clear" /\ calls[k].stage = "done"))
        => \E k \in Calls : calls'[k].op = "list" \/ (calls'[k].op = "clear" /\ calls'[k].stage = "done")
    BY <1>2
  <2> QED
    BY <1>5, <2>1 DEF ListsIInv, ListsRowsAreStored
<1>9. ListsChosenIsStored'
  BY <1>2, <1>5 DEF ListsIInv, ListsChosenIsStored
<1>10. ListsPutsAreStored'
  <2>1. SUFFICES ASSUME NEW k \in Calls, calls'[k].op = "put", calls'[k].value = 2, calls'[k].peace,
                        kind # "tunnels"
                 PROVE  content[calls'[k].item] # 0 /\ ~(\E m \in Calls : calls'[m].op = "remove"
                                                                         /\ calls'[m].item = calls'[k].item)
    BY DEF ListsPutsAreStored, ListsRemoving
  <2>2. \A i : ListsRemoving(i) <=> \E m \in Calls : calls'[m].op = "remove" /\ calls'[m].item = i
    BY <1>2 DEF ListsRemoving
  <2>3. CASE k = c
    BY <1>2, <2>1, <2>2, <2>3
  <2>4. CASE k # c
    BY <1>2, <2>1, <2>2, <2>4 DEF ListsIInv, ListsPutsAreStored
  <2> QED
    BY <2>3, <2>4
<1>11. Lists!DeletedStaysDeleted'
  BY DEF ListsIInv, Lists!DeletedStaysDeleted
<1> QED
  BY <1>3, <1>4, <1>6, <1>7, <1>8, <1>9, <1>10, <1>11 DEF ListsIInv

\* The parts of a call that puts an entry.
LEMMA ListsPutIs ==
    ASSUME NEW i \in Items, NEW v \in Lists!Content, NEW p \in BOOLEAN
    PROVE  /\ Lists!Put(i, v, p) \in Lists!Call /\ Lists!Put(i, v, p).op = "put" /\ Lists!Put(i, v, p).stage = "called"
           /\ Lists!Put(i, v, p).item = i /\ Lists!Put(i, v, p).value = v
           /\ Lists!Put(i, v, p).peace = p
BY ListsBlankIsCall DEF Lists!Put, Lists!Call, Lists!Ops

LEMMA ListsPutIInv ==
    ASSUME ListsIInv, NEW c \in Calls, NEW i \in Items, NEW v \in Lists!Content, NEW p \in BOOLEAN,
           Lists!Begin(c, Lists!Put(i, v, p)), UNCHANGED <<chosen, clashed>>, used' \subseteq Items,
           v # 0, kind # "audit",
           v = 2 /\ p /\ kind # "tunnels" => content[i] # 0 /\ ~ListsRemoving(i)
    PROVE  ListsIInv'
<1>1. /\ Lists!Put(i, v, p) \in Lists!Call /\ Lists!Put(i, v, p).op = "put"
      /\ Lists!Put(i, v, p).stage = "called"
      /\ Lists!Put(i, v, p).item = i /\ Lists!Put(i, v, p).value = v /\ Lists!Put(i, v, p).peace = p
  BY ListsPutIs
<1>2. /\ calls[c].op = "none" /\ calls' = [calls EXCEPT ![c] = Lists!Put(i, v, p)]
      /\ UNCHANGED <<kind, content, rows, outdated, revived>>
  BY DEF Lists!Begin
<1> QED
  BY <1>1, <1>2, ListsBeginIInv

\* What is shown is stored when nothing contests it.
LEMMA ListsUncontestedIsStored ==
    ASSUME ListsIInv, NEW i \in Items, ~Lists!Contested(i), kind # "audit"
    PROVE  ~ListsRemoving(i) /\ (rows[i] # 0 => content[i] # 0)
<1>1. ~outdated /\ \A c \in Calls : calls[c].op # "list" /\ ~(calls[c].op = "remove" /\ calls[c].item = i)
  BY DEF Lists!Contested, Lists!Pending
<1> QED
  BY <1>1 DEF ListsIInv, ListsRowsAreStored, ListsRemoving, ListsRemoved, ListsAsked

LEMMA ListsPutsIInv ==
    ASSUME ListsIInv, NEW c \in Calls, NEW i \in Items,
           \/ Lists!SaveSnippet(c, i) \/ Lists!ImportSnippets(c, i) \/ Lists!StartTunnel(c, i) \/ Lists!StopTunnel(c, i)
           \/ Lists!SaveTask(c, i) \/ Lists!ToggleTask(c, i) \/ Lists!SaveCredential(c, i) \/ Lists!MoveSelected(c)
    PROVE  ListsIInv'
<1>0. /\ used \subseteq Items /\ clashed \in BOOLEAN /\ rows \in [Items -> Lists!Content]
      /\ chosen \subseteq Items
      /\ Lists!Content = {0, 1, 2}
  BY DEF ListsIInv, ListsTypes, Lists!Content
<1>1. ASSUME kind # "audit", Lists!Create(c, i) PROVE ListsIInv'
  <2>1. /\ Lists!Begin(c, Lists!Put(i, 1, TRUE)) /\ UNCHANGED <<chosen, clashed>>
        /\ used' \subseteq Items
    BY <1>0, <1>1 DEF Lists!Create
  <2>2. PICK p \in BOOLEAN : Lists!Begin(c, Lists!Put(i, 1, p))
    BY <2>1, Zenon
  <2> QED
    BY <1>0, <1>1, <2>1, <2>2, ListsPutIInv
<1>2. ASSUME kind = "snippets", i \in chosen, NEW v \in 1..2,
             Lists!Begin(c, Lists!Put(i, v, ~clashed /\ ~Lists!Contested(i))),
             UNCHANGED <<used, chosen, clashed>>
      PROVE  ListsIInv'
  <2> DEFINE p == ~clashed /\ ~Lists!Contested(i)
  <2>1. p \in BOOLEAN /\ v \in Lists!Content /\ v # 0 /\ used' \subseteq Items
    BY <1>0, <1>2
  <2>2. p => content[i] # 0 /\ ~ListsRemoving(i)
    <3>1. SUFFICES ASSUME p PROVE content[i] # 0 /\ ~ListsRemoving(i)
      OBVIOUS
    <3>2. ~ListsRemoving(i)
      BY <1>2, <3>1, ListsUncontestedIsStored
    <3> QED
      BY <1>2, <3>1, <3>2 DEF ListsIInv, ListsChosenIsStored, ListsRemoving, ListsRemoved
  <2>3. Lists!Begin(c, Lists!Put(i, v, p))
    BY <1>2
  <2> HIDE DEF p
  <2> QED
    BY <1>2, <2>1, <2>2, <2>3, ListsPutIInv
<1>3. CASE Lists!SaveSnippet(c, i)
  BY <1>1, <1>2, <1>3 DEF Lists!SaveSnippet
<1>4. CASE Lists!ImportSnippets(c, i)
  <2>1. /\ kind # "audit" /\ Lists!Begin(c, Lists!Put(i, 1, FALSE))
        /\ UNCHANGED <<chosen, clashed>> /\ used' \subseteq Items
    BY <1>0, <1>4 DEF Lists!ImportSnippets
  <2>2. PICK p \in BOOLEAN : Lists!Begin(c, Lists!Put(i, 1, p))
    BY <2>1, Zenon
  <2> QED
    BY <1>0, <2>1, <2>2, ListsPutIInv
<1>5. CASE Lists!StartTunnel(c, i) \/ Lists!SaveTask(c, i) \/ Lists!SaveCredential(c, i)
  BY <1>1, <1>5 DEF Lists!StartTunnel, Lists!SaveTask, Lists!SaveCredential
<1>6. CASE Lists!StopTunnel(c, i)
  <2>1. /\ kind = "tunnels" /\ Lists!Begin(c, Lists!Put(i, 2, TRUE))
        /\ UNCHANGED <<chosen, clashed>> /\ used' \subseteq Items
    BY <1>0, <1>6 DEF Lists!StopTunnel, Lists!TunnelRow
  <2>2. PICK p \in BOOLEAN : Lists!Begin(c, Lists!Put(i, 2, p))
    BY <2>1, Zenon
  <2> QED
    BY <1>0, <2>1, <2>2, ListsPutIInv
<1>7. CASE Lists!ToggleTask(c, i)
  <2> DEFINE p == ~Lists!Contested(i)
             v == 3 - rows[i]
  <2>1. /\ kind = "tasks" /\ rows[i] # 0 /\ Lists!Begin(c, Lists!Put(i, v, p))
        /\ UNCHANGED <<used, chosen, clashed>>
    BY <1>7 DEF Lists!ToggleTask, Lists!TaskRow, Lists!Rows
  <2>2. rows[i] \in {1, 2}
    BY <1>0, <2>1
  <2>3. p \in BOOLEAN /\ v \in Lists!Content /\ v # 0
    BY <1>0, <2>2
  <2>4. p => content[i] # 0 /\ ~ListsRemoving(i)
    BY <2>1, ListsUncontestedIsStored
  <2> HIDE DEF p, v
  <2> QED
    BY <1>0, <2>1, <2>3, <2>4, ListsPutIInv
<1>8. CASE Lists!MoveSelected(c)
  <2>1. PICK j \in chosen : Lists!Begin(c, Lists!Put(j, 2, FALSE))
    BY <1>8 DEF Lists!MoveSelected
  <2>2. kind # "audit" /\ UNCHANGED <<used, chosen, clashed>>
    BY <1>8 DEF Lists!MoveSelected
  <2>3. PICK p \in BOOLEAN : ~p /\ Lists!Begin(c, Lists!Put(j, 2, p))
    BY <2>1, Zenon
  <2>4. j \in Items /\ 2 \in Lists!Content /\ used' \subseteq Items
    BY <1>0, <2>2
  <2> QED
    BY <2>2, <2>3, <2>4, ListsPutIInv
<1> QED
  BY <1>3, <1>4, <1>5, <1>6, <1>7, <1>8

LEMMA ListsAuditIInv == ASSUME ListsIInv, NEW c \in Calls,
                               Lists!RefreshAudit(c) \/ Lists!ClearAudit(c)
                        PROVE  ListsIInv'
<1>0. used \subseteq Items
  BY DEF ListsIInv, ListsTypes
<1>1. CASE Lists!RefreshAudit(c)
  BY <1>0, <1>1, ListsBlankIsCall, ListsBeginIInv DEF Lists!RefreshAudit, Lists!Begin
<1>2. CASE Lists!ClearAudit(c)
  <2>1. /\ [Lists!Blank EXCEPT !.op = "clear"] \in Lists!Call
        /\ [Lists!Blank EXCEPT !.op = "clear"].op = "clear"
        /\ [Lists!Blank EXCEPT !.op = "clear"].stage = "called"
        /\ [Lists!Blank EXCEPT !.op = "clear"].list = Lists!Nothing
    BY ListsBlankIsCall DEF Lists!Call, Lists!Ops
  <2> QED
    BY <1>0, <1>2, <2>1, ListsBeginIInv DEF Lists!ClearAudit, Lists!AuditRows, Lists!Begin
<1> QED
  BY <1>1, <1>2

LEMMA ListsDeleteIInv == ASSUME ListsIInv, NEW c \in Calls, NEW i \in Items, Lists!Delete(c, i)
                         PROVE  ListsIInv'
<1> DEFINE b == i \in chosen
           x == [Lists!Blank EXCEPT !.op = "remove", !.item = i, !.own = b]
<1>0. calls \in [Calls -> Lists!Call] /\ calls[c].op = "none"
  BY DEF ListsIInv, ListsTypes, Lists!Delete
<1>1. UNCHANGED <<kind, content, used, rows, chosen, clashed, outdated, revived>>
  BY DEF Lists!Delete
<1>2. calls' = [k \in Calls |->
                  IF k = c THEN x
                  ELSE IF calls[k].op = "put" /\ calls[k].item = i THEN [calls[k] EXCEPT !.peace = FALSE]
                  ELSE calls[k]]
  BY DEF Lists!Delete
<1>3. x \in Lists!Call /\ x.op = "remove" /\ x.item = i /\ x.own = b /\ x.stage = "called"
  <2>1. b \in BOOLEAN
    OBVIOUS
  <2> HIDE DEF b
  <2> QED
    BY <2>1, ListsBlankIsCall DEF Lists!Call, Lists!Ops
<1>4. \A y \in Lists!Call : /\ [y EXCEPT !.peace = FALSE] \in Lists!Call /\ [y EXCEPT !.peace = FALSE].op = y.op
                            /\ [y EXCEPT !.peace = FALSE].stage = y.stage
                            /\ [y EXCEPT !.peace = FALSE].item = y.item
                            /\ [y EXCEPT !.peace = FALSE].value = y.value
                            /\ [y EXCEPT !.peace = FALSE].list = y.list
                            /\ [y EXCEPT !.peace = FALSE].late = y.late
                            /\ [y EXCEPT !.peace = FALSE].own = y.own
                            /\ [y EXCEPT !.peace = FALSE].peace = FALSE
  BY DEF Lists!Call
<1> HIDE DEF x
<1>5. /\ calls' \in [Calls -> Lists!Call] /\ calls'[c] = x
      /\ \A k \in Calls \ {c} :
           /\ calls'[k].op = calls[k].op /\ calls'[k].stage = calls[k].stage
           /\ calls'[k].item = calls[k].item
           /\ calls'[k].value = calls[k].value /\ calls'[k].list = calls[k].list
           /\ calls'[k].late = calls[k].late
           /\ calls'[k].own = calls[k].own
           /\ calls'[k] = calls[k] \/ (calls'[k].peace = FALSE)
           /\ calls[k].op = "put" /\ calls[k].item = i => calls'[k].peace = FALSE
  BY <1>0, <1>2, <1>3, <1>4
<1>6. ListsTypes'
  BY <1>1, <1>5 DEF ListsIInv, ListsTypes
<1>7. ListsAsked'
  BY <1>1, <1>3, <1>5 DEF ListsIInv, ListsAsked
<1>8. \A j : ListsRemoved(j) => ListsRemoved(j)'
  BY <1>0, <1>5 DEF ListsRemoved
<1>9. ListsAnswered'
  BY <1>1, <1>3, <1>5 DEF ListsIInv, ListsAnswered
<1>10. ListsSettles'
  BY <1>0, <1>1, <1>5 DEF ListsIInv, ListsSettles
<1>11. ListsRowsAreStored'
  <2>1. (\E k \in Calls : calls[k].op = "list" \/ (calls[k].op = "clear" /\ calls[k].stage = "done"))
        => \E k \in Calls : calls'[k].op = "list" \/ (calls'[k].op = "clear" /\ calls'[k].stage = "done")
    BY <1>0, <1>5
  <2> QED
    BY <1>1, <1>8, <2>1 DEF ListsIInv, ListsRowsAreStored
<1>12. ListsChosenIsStored'
  <2>1. SUFFICES ASSUME NEW j \in chosen, ~clashed
                 PROVE  /\ content[j] # 0 \/ ListsRemoved(j)'
                        /\ \A k \in Calls : calls'[k].op = "remove" /\ calls'[k].item = j => calls'[k].own
    BY <1>1 DEF ListsChosenIsStored
  <2>2. /\ content[j] # 0 \/ ListsRemoved(j)
        /\ \A k \in Calls : calls[k].op = "remove" /\ calls[k].item = j => calls[k].own
    BY <2>1 DEF ListsIInv, ListsChosenIsStored
  <2>3. x.item = j => x.own
    BY <1>3, <2>1
  <2> QED
    BY <1>5, <1>8, <2>2, <2>3
<1>13. ListsPutsAreStored'
  <2>1. SUFFICES ASSUME NEW k \in Calls, calls'[k].op = "put", calls'[k].value = 2, calls'[k].peace,
                        kind # "tunnels"
                 PROVE  content[calls'[k].item] # 0 /\ ~(\E m \in Calls : calls'[m].op = "remove"
                                                                         /\ calls'[m].item = calls'[k].item)
    BY <1>1 DEF ListsPutsAreStored, ListsRemoving
  <2>2. \A j : ListsRemoving(j)' <=> \E m \in Calls : calls'[m].op = "remove" /\ calls'[m].item = j
    BY DEF ListsRemoving
  <2>3. k # c /\ calls'[k] = calls[k] /\ calls[k].item # i
    BY <1>3, <1>5, <2>1
  <2>4. content[calls[k].item] # 0 /\ ~ListsRemoving(calls[k].item)
    BY <2>1, <2>3 DEF ListsIInv, ListsPutsAreStored
  <2>5. ~(\E m \in Calls : calls'[m].op = "remove" /\ calls'[m].item = calls[k].item)
    BY <1>3, <1>5, <2>3, <2>4 DEF ListsRemoving
  <2> QED
    BY <2>3, <2>4, <2>5
<1>14. Lists!DeletedStaysDeleted'
  BY <1>1 DEF ListsIInv, Lists!DeletedStaysDeleted
<1> QED
  BY <1>6, <1>7, <1>9, <1>10, <1>11, <1>12, <1>13, <1>14 DEF ListsIInv

LEMMA ListsDeletesIInv ==
    ASSUME ListsIInv, NEW c \in Calls,
           Lists!DeleteSelected(c) \/ \E i \in Items : Lists!DeleteSnippet(c, i) \/ Lists!DeleteTask(c, i) \/ Lists!DeleteCredential(c, i)
    PROVE  ListsIInv'
<1>1. chosen \subseteq Items
  BY DEF ListsIInv, ListsTypes
<1> QED
  BY <1>1, ListsDeleteIInv DEF Lists!DeleteSelected, Lists!DeleteSnippet, Lists!DeleteTask,
                               Lists!DeleteCredential

\* The form is opened or closed.
LEMMA ListsChoiceIInv ==
    ASSUME ListsIInv,
           Lists!CancelEdit \/ (\E i \in Items : Lists!StartEdit(i) \/ Lists!SelectSession(i)) \/ UNCHANGED Lists!vars
    PROVE  ListsIInv'
<1>1. UNCHANGED <<kind, content, used, rows, calls, outdated, revived>>
  BY DEF Lists!CancelEdit, Lists!StartEdit, Lists!SelectSession, Lists!Choose, Lists!vars
<1>2. /\ chosen' = chosen \/ chosen' = {} \/ \E i \in Items : chosen' = {i}
      /\ clashed' \in BOOLEAN /\ (chosen' # {} => kind # "audit")
      /\ \A i \in chosen' : ~clashed' => \/ i \in chosen /\ ~clashed
                                         \/ content[i] # 0 /\ ~ListsRemoving(i)
  <2>1. CASE Lists!CancelEdit
    BY <2>1 DEF Lists!CancelEdit
  <2>2. ASSUME NEW i \in Items, Lists!StartEdit(i) \/ Lists!SelectSession(i)
        PROVE  /\ chosen' = {i} /\ clashed' = Lists!Contested(i) /\ kind # "audit" /\ rows[i] # 0
    BY <2>2 DEF Lists!StartEdit, Lists!SelectSession, Lists!SnippetRow, Lists!SessionOption,
                Lists!Rows, Lists!Choose
  <2>3. ASSUME NEW i \in Items, Lists!StartEdit(i) \/ Lists!SelectSession(i)
        PROVE  /\ clashed' \in BOOLEAN
               /\ ~clashed' => content[i] # 0 /\ ~ListsRemoving(i)
    <3>1. Lists!Contested(i) \in BOOLEAN
      BY DEF Lists!Contested, ListsIInv, ListsTypes
    <3> QED
      BY <2>2, <2>3, <3>1, ListsUncontestedIsStored
  <2>4. CASE UNCHANGED Lists!vars
    BY <2>4 DEF Lists!vars, ListsIInv, ListsTypes, ListsAsked
  <2> QED
    BY <2>1, <2>2, <2>3, <2>4
<1>3. ListsTypes'
  BY <1>1, <1>2 DEF ListsIInv, ListsTypes
<1>4. ListsAsked' /\ ListsAnswered' /\ ListsSettles'
  BY <1>1, <1>2 DEF ListsIInv, ListsAsked, ListsAnswered, ListsSettles
<1>5. ListsRowsAreStored' /\ ListsPutsAreStored' /\ (\A i : ListsRemoved(i)' <=> ListsRemoved(i))
  BY <1>1 DEF ListsIInv, ListsRowsAreStored, ListsPutsAreStored, ListsRemoving, ListsRemoved
<1>6. ListsChosenIsStored'
  <2>1. SUFFICES ASSUME NEW i \in chosen', ~clashed'
                 PROVE  /\ content[i] # 0 \/ ListsRemoved(i)
                        /\ \A c \in Calls : calls[c].op = "remove" /\ calls[c].item = i => calls[c].own
    BY <1>1, <1>5 DEF ListsChosenIsStored
  <2> QED
    BY <1>2, <2>1 DEF ListsIInv, ListsChosenIsStored, ListsRemoving
<1>7. Lists!DeletedStaysDeleted'
  BY <1>1 DEF ListsIInv, Lists!DeletedStaysDeleted
<1> QED
  BY <1>3, <1>4, <1>5, <1>6, <1>7 DEF ListsIInv

\* Two calls that differ in what came after their answers, and when they are
\* done, only.
ListsAlike(x, y) ==
    /\ x.op = y.op /\ x.item = y.item /\ x.value = y.value /\ x.own = y.own /\ x.peace = y.peace
ListsSameAnswer(x, y) == ListsAlike(x, y) /\ x.stage = y.stage /\ x.list = y.list

LEMMA ListsLateIs ==
    ASSUME NEW y \in Lists!Call
    PROVE  [y EXCEPT !.late = TRUE] \in Lists!Call /\ ListsSameAnswer([y EXCEPT !.late = TRUE], y) /\ [y EXCEPT !.late = TRUE].late
BY DEF Lists!Call, ListsSameAnswer, ListsAlike

LEMMA ListsOvertakeIs ==
    ASSUME NEW f \in [Calls -> Lists!Call], NEW c \in Calls
    PROVE  /\ Lists!Overtake(f, c) \in [Calls -> Lists!Call] /\ Lists!Overtake(f, c)[c] = f[c]
           /\ \A k \in Calls : ListsSameAnswer(Lists!Overtake(f, c)[k], f[k])
           /\ \A k \in Calls \ {c} : f[k].stage = "done" /\ f[k].op \in {"list", "clear"} => Lists!Overtake(f, c)[k].late
<1> DEFINE w == Lists!Overtake(f, c)
<1>1. w = [k \in Calls |-> IF k # c /\ f[k].stage = "done" /\ f[k].op \in {"list", "clear"}
                           THEN [f[k] EXCEPT !.late = TRUE] ELSE f[k]]
  BY DEF Lists!Overtake
<1> HIDE DEF w
<1>2. \A k \in Calls : \/ w[k] = [f[k] EXCEPT !.late = TRUE]
                       \/ w[k] = f[k] /\ ~(k # c /\ f[k].stage = "done" /\ f[k].op \in {"list", "clear"})
  BY <1>1
<1>3. \A k \in Calls : w[k] \in Lists!Call /\ ListsSameAnswer(w[k], f[k])
                       /\ (w[k].late \/ ~(k # c /\ f[k].stage = "done" /\ f[k].op \in {"list", "clear"}))
  <2>1. SUFFICES ASSUME NEW k \in Calls
                 PROVE  w[k] \in Lists!Call /\ ListsSameAnswer(w[k], f[k])
                        /\ (w[k].late \/ ~(k # c /\ f[k].stage = "done" /\ f[k].op \in {"list", "clear"}))
    OBVIOUS
  <2>2. CASE w[k] = [f[k] EXCEPT !.late = TRUE]
    BY <2>2, ListsLateIs
  <2>3. CASE w[k] = f[k] /\ ~(k # c /\ f[k].stage = "done" /\ f[k].op \in {"list", "clear"})
    BY <2>3 DEF ListsSameAnswer, ListsAlike
  <2> QED
    BY <1>2, <2>2, <2>3
<1>4. w \in [Calls -> Lists!Call] /\ w[c] = f[c]
  BY <1>1, <1>3
<1> QED
  BY <1>3, <1>4 DEF w

\* A call fails: nothing is changed.
LEMMA ListsFailedIInv ==
    ASSUME ListsIInv, NEW c \in Calls, calls[c].stage = "called",
           calls' = [calls EXCEPT ![c].stage = "failed"],
           UNCHANGED <<kind, content, used, rows, chosen, clashed, outdated, revived>>
    PROVE  ListsIInv'
<1>1. /\ calls \in [Calls -> Lists!Call]
      /\ calls' = [calls EXCEPT ![c] = [calls[c] EXCEPT !.stage = "failed"]]
  BY DEF ListsIInv, ListsTypes
<1>2. /\ [calls[c] EXCEPT !.stage = "failed"] \in Lists!Call
      /\ ListsAlike([calls[c] EXCEPT !.stage = "failed"], calls[c])
      /\ [calls[c] EXCEPT !.stage = "failed"].stage = "failed"
      /\ [calls[c] EXCEPT !.stage = "failed"].list = calls[c].list
  BY <1>1 DEF Lists!Call, ListsAlike
<1>3. /\ calls' \in [Calls -> Lists!Call] /\ \A k \in Calls \ {c} : calls'[k] = calls[k]
      /\ ListsAlike(calls'[c], calls[c]) /\ calls'[c].stage = "failed"
      /\ calls'[c].list = calls[c].list
  BY <1>1, <1>2
<1>4. ListsTypes'
  BY <1>3 DEF ListsIInv, ListsTypes
<1>5. \A k \in Calls : ListsAlike(calls'[k], calls[k]) /\ calls'[k].list = calls[k].list
                       /\ (calls[k].stage = "done" => calls'[k] = calls[k])
                       /\ (calls'[k].stage = "done" => calls'[k] = calls[k])
  BY <1>3 DEF ListsAlike
<1>6. ListsAsked'
  BY <1>5 DEF ListsIInv, ListsAsked, ListsAlike
<1>7. ListsAnswered' /\ ListsSettles'
  BY <1>5 DEF ListsIInv, ListsAnswered, ListsSettles, ListsAlike
<1>8. \A i : ListsRemoved(i) => ListsRemoved(i)'
  BY <1>5 DEF ListsRemoved
<1>9. ListsRowsAreStored'
  <2>1. (\E k \in Calls : calls[k].op = "list" \/ (calls[k].op = "clear" /\ calls[k].stage = "done"))
        => \E k \in Calls : calls'[k].op = "list" \/ (calls'[k].op = "clear" /\ calls'[k].stage = "done")
    BY <1>5 DEF ListsAlike
  <2> QED
    BY <1>8, <2>1 DEF ListsIInv, ListsRowsAreStored
<1>10. ListsChosenIsStored'
  BY <1>5, <1>8 DEF ListsIInv, ListsChosenIsStored, ListsAlike
<1>11. ListsPutsAreStored'
  BY <1>5 DEF ListsIInv, ListsPutsAreStored, ListsRemoving, ListsAlike
<1>12. Lists!DeletedStaysDeleted'
  BY DEF ListsIInv, Lists!DeletedStaysDeleted
<1> QED
  BY <1>4, <1>6, <1>7, <1>9, <1>10, <1>11, <1>12 DEF ListsIInv

\* A call is carried out.
LEMMA ListsMadeIInv ==
    ASSUME ListsIInv, NEW c \in Calls, calls[c].stage = "called",
           UNCHANGED <<kind, used, rows, chosen, clashed, outdated>>,
           calls' \in [Calls -> Lists!Call], calls'[c].stage = "done",
           ListsAlike(calls'[c], calls[c]),
           calls[c].op # "list" => calls'[c].list = calls[c].list,
           \A k \in Calls \ {c} : /\ ListsSameAnswer(calls'[k], calls[k])
                                  /\ calls[k].stage = "done" /\ calls[k].op \in {"list", "clear"} => calls'[k].late,
           \/ /\ calls[c].op = "put"
              /\ content' = [content EXCEPT ![calls[c].item] = calls[c].value]
              /\ ~(content[calls[c].item] = 0 /\ kind \in {"sessions", "tunnels"} /\ calls[c].value = 2)
              /\ revived' = (revived \/ (content[calls[c].item] = 0 /\ calls[c].value = 2 /\ calls[c].peace))
           \/ /\ calls[c].op = "remove" /\ content' = [content EXCEPT ![calls[c].item] = 0]
              /\ revived' = revived
           \/ /\ calls[c].op = "clear" /\ content' = Lists!Nothing /\ revived' = revived
           \/ /\ calls[c].op = "list" /\ content' = content /\ calls'[c].list = content
              /\ revived' = revived
    PROVE  ListsIInv'
<1> DEFINE i == calls[c].item
           v == calls[c].value
<1>0. /\ calls \in [Calls -> Lists!Call] /\ i \in Items /\ v \in Lists!Content
      /\ content \in [Items -> Lists!Content]
      /\ calls[c].peace \in BOOLEAN /\ revived = FALSE
  <2>1. calls \in [Calls -> Lists!Call] /\ content \in [Items -> Lists!Content]
    BY DEF ListsIInv, ListsTypes
  <2>2. revived = FALSE
    BY DEF ListsIInv, ListsTypes, Lists!DeletedStaysDeleted
  <2> QED
    BY <2>1, <2>2 DEF Lists!Call
<1>1. \A k \in Calls : ListsAlike(calls'[k], calls[k]) /\ (calls[k].stage = "done" => calls'[k].stage = "done")
  BY DEF ListsSameAnswer
<1>2. \A j : ListsRemoved(j) => ListsRemoved(j)'
  BY <1>1 DEF ListsRemoved, ListsAlike
<1>3. /\ calls[c].op = "put" => v # 0 /\ kind # "audit"
      /\ calls[c].op = "clear" => kind = "audit" /\ chosen = {} /\ calls[c].list = Lists!Nothing
      /\ \A k \in Calls : calls[k].op = "put" => kind # "audit"
  BY DEF ListsIInv, ListsAsked
<1>4. \/ calls[c].op = "put" /\ v # 0 /\ content' = [content EXCEPT ![i] = v]
      \/ calls[c].op = "remove" /\ content' = [content EXCEPT ![i] = 0]
      \/ calls[c].op = "clear" /\ content' = Lists!Nothing /\ kind = "audit" /\ chosen = {}
      \/ calls[c].op = "list" /\ content' = content
  BY <1>3
<1>5. content' \in [Items -> Lists!Content]
  BY <1>0, <1>4 DEF Lists!Nothing, Lists!Content
<1>6. \A j \in Items : \/ content'[j] = content[j] \/ content'[j] # 0
                       \/ calls[c].op = "remove" /\ j = i
                       \/ calls[c].op = "clear" /\ kind = "audit" /\ chosen = {}
  BY <1>0, <1>4
<1>7. revived' = FALSE
  <2>1. CASE calls[c].op = "put"
    <3>1. ~(content[i] = 0 /\ v = 2 /\ calls[c].peace)
      <4>1. SUFFICES ASSUME content[i] = 0, v = 2, calls[c].peace PROVE FALSE
        OBVIOUS
      <4>2. kind # "tunnels"
        BY <2>1, <4>1
      <4> QED
        BY <2>1, <4>1, <4>2 DEF ListsIInv, ListsPutsAreStored
    <3>2. revived' = (revived \/ (content[i] = 0 /\ v = 2 /\ calls[c].peace))
      BY <2>1
    <3> QED
      BY <1>0, <3>1, <3>2
  <2> QED
    BY <1>0, <2>1
<1> HIDE DEF i, v
<1>8. ListsTypes'
  BY <1>5, <1>7 DEF ListsIInv, ListsTypes
<1>9. ListsAsked'
  <2>1. \A k \in Calls : /\ calls'[k].op = "put" => calls'[k].value # 0 /\ kind # "audit"
                         /\ calls'[k].op = "clear" => kind = "audit" /\ calls'[k].list = Lists!Nothing
    BY <1>1 DEF ListsIInv, ListsAsked, ListsAlike, ListsSameAnswer
  <2> QED
    BY <2>1 DEF ListsIInv, ListsAsked
<1>10. ListsAnswered'
  <2>1. SUFFICES ASSUME NEW k \in Calls, calls'[k].op \in {"list", "clear"},
                        calls'[k].stage = "done", ~calls'[k].late
                 PROVE  calls'[k].list = content'
    BY DEF ListsAnswered
  <2>2. k = c
    BY <2>1 DEF ListsSameAnswer, ListsAlike
  <2>3. calls[c].op \in {"list", "clear"}
    BY <1>1, <2>1, <2>2 DEF ListsAlike
  <2> QED
    BY <1>3, <2>2, <2>3
<1>11. ListsSettles'
  <2>1. calls'[c].op \in {"put", "remove", "clear", "list"} /\ calls'[c].stage = "done"
    BY <1>1, <1>4 DEF ListsAlike
  <2> QED
    BY <2>1 DEF ListsSettles
<1>12. ListsRowsAreStored'
  <2>1. SUFFICES ASSUME NEW j \in Items, ~outdated, content'[j] = 0, rows[j] # 0
                 PROVE  \/ \E k \in Calls : calls'[k].op = "list" \/ (calls'[k].op = "clear" /\ calls'[k].stage = "done")
                        \/ ListsRemoved(j)'
    BY DEF ListsRowsAreStored
  <2>2. CASE calls[c].op = "remove" /\ j = i
    BY <1>1, <2>2 DEF ListsRemoved, ListsAlike, i
  <2>3. CASE calls[c].op = "clear"
    BY <1>1, <2>3 DEF ListsAlike
  <2>4. CASE content[j] = 0
    <3>1. \/ \E k \in Calls : calls[k].op = "list" \/ (calls[k].op = "clear" /\ calls[k].stage = "done")
          \/ ListsRemoved(j)
      BY <2>1, <2>4 DEF ListsIInv, ListsRowsAreStored
    <3> QED
      BY <1>1, <1>2, <3>1 DEF ListsAlike
  <2> QED
    BY <1>6, <2>1, <2>2, <2>3, <2>4
<1>13. ListsChosenIsStored'
  <2>1. SUFFICES ASSUME NEW j \in chosen, ~clashed
                 PROVE  /\ content'[j] # 0 \/ ListsRemoved(j)'
                        /\ \A k \in Calls : calls'[k].op = "remove" /\ calls'[k].item = j => calls'[k].own
    BY DEF ListsChosenIsStored
  <2>2. /\ content[j] # 0 \/ ListsRemoved(j)
        /\ \A k \in Calls : calls[k].op = "remove" /\ calls[k].item = j => calls[k].own
    BY <2>1 DEF ListsIInv, ListsChosenIsStored
  <2>3. j \in Items
    BY DEF ListsIInv, ListsTypes
  <2>4. calls[c].op = "remove" /\ j = i => ListsRemoved(j)'
    BY <1>1 DEF ListsRemoved, ListsAlike, i
  <2>5. content'[j] # 0 \/ ListsRemoved(j)'
    BY <1>2, <1>6, <2>2, <2>3, <2>4
  <2>6. \A k \in Calls : calls'[k].op = "remove" /\ calls'[k].item = j => calls'[k].own
    BY <1>1, <2>2 DEF ListsAlike
  <2> QED
    BY <2>5, <2>6
<1>14. ListsPutsAreStored'
  <2>1. SUFFICES ASSUME NEW k \in Calls, calls'[k].op = "put", calls'[k].value = 2, calls'[k].peace,
                        kind # "tunnels"
                 PROVE  content'[calls'[k].item] # 0 /\ ~(\E m \in Calls : calls'[m].op = "remove"
                                                                          /\ calls'[m].item = calls'[k].item)
    BY DEF ListsPutsAreStored, ListsRemoving
  <2>2. /\ calls[k].op = "put" /\ calls[k].value = 2 /\ calls[k].peace
        /\ calls'[k].item = calls[k].item
    BY <1>1, <2>1 DEF ListsAlike
  <2>3. /\ content[calls[k].item] # 0 /\ ~ListsRemoving(calls[k].item) /\ kind # "audit"
        /\ calls[k].item \in Items
    BY <1>0, <1>3, <2>1, <2>2 DEF ListsIInv, ListsPutsAreStored, Lists!Call
  <2>4. ~(calls[c].op = "remove" /\ calls[k].item = i)
    BY <2>3 DEF ListsRemoving, i
  <2>5. content'[calls[k].item] # 0
    BY <1>6, <2>3, <2>4
  <2>6. ~(\E m \in Calls : calls'[m].op = "remove" /\ calls'[m].item = calls[k].item)
    BY <1>1, <2>3 DEF ListsRemoving, ListsAlike
  <2> QED
    BY <2>2, <2>5, <2>6
<1>15. Lists!DeletedStaysDeleted'
  BY <1>7 DEF Lists!DeletedStaysDeleted
<1> QED
  BY <1>8, <1>9, <1>10, <1>11, <1>12, <1>13, <1>14, <1>15 DEF ListsIInv

LEMMA ListsExecuteIInv == ASSUME ListsIInv, NEW c \in Calls, Lists!Execute(c) PROVE ListsIInv'
<1> DEFINE f == [calls EXCEPT ![c].stage = "done"]
           w == Lists!Overtake(f, c)
<1>0. /\ calls \in [Calls -> Lists!Call] /\ calls[c].stage = "called"
      /\ content \in [Items -> Lists!Content]
      /\ UNCHANGED <<kind, used, rows, chosen, clashed, outdated>>
  BY DEF Lists!Execute, ListsIInv, ListsTypes
<1>1. /\ f \in [Calls -> Lists!Call] /\ f[c].stage = "done" /\ ListsAlike(f[c], calls[c])
      /\ f[c].list = calls[c].list
      /\ \A k \in Calls \ {c} : f[k] = calls[k]
  <2>1. /\ [calls[c] EXCEPT !.stage = "done"] \in Lists!Call
        /\ ListsAlike([calls[c] EXCEPT !.stage = "done"], calls[c])
        /\ [calls[c] EXCEPT !.stage = "done"].stage = "done"
        /\ [calls[c] EXCEPT !.stage = "done"].list = calls[c].list
    BY <1>0 DEF Lists!Call, ListsAlike
  <2>2. f = [calls EXCEPT ![c] = [calls[c] EXCEPT !.stage = "done"]]
    BY <1>0
  <2> QED
    BY <1>0, <2>1, <2>2
<1> HIDE DEF f
<1>2. /\ w \in [Calls -> Lists!Call] /\ w[c] = f[c]
      /\ \A k \in Calls : ListsSameAnswer(w[k], f[k])
      /\ \A k \in Calls \ {c} : f[k].stage = "done" /\ f[k].op \in {"list", "clear"} => w[k].late
  BY <1>1, ListsOvertakeIs
<1> HIDE DEF w
<1>3. CASE calls' = w /\ calls[c].op # "list"
           /\ \/ /\ calls[c].op = "put" /\ content' = [content EXCEPT ![calls[c].item] = calls[c].value]
                 /\ ~(content[calls[c].item] = 0 /\ kind \in {"sessions", "tunnels"} /\ calls[c].value = 2)
                 /\ revived' = (revived \/ (content[calls[c].item] = 0 /\ calls[c].value = 2 /\ calls[c].peace))
              \/ /\ calls[c].op = "remove" /\ content' = [content EXCEPT ![calls[c].item] = 0]
                 /\ revived' = revived
              \/ /\ calls[c].op = "clear" /\ content' = Lists!Nothing /\ revived' = revived
  BY <1>0, <1>1, <1>2, <1>3, ListsMadeIInv
<1>4. CASE calls' = [w EXCEPT ![c].list = content] /\ UNCHANGED <<content, revived>> /\ calls[c].op = "list"
  <2>1. calls' = [w EXCEPT ![c] = [w[c] EXCEPT !.list = content]] /\ w[c] \in Lists!Call
    BY <1>2, <1>4
  <2>2. /\ [w[c] EXCEPT !.list = content] \in Lists!Call
        /\ ListsAlike([w[c] EXCEPT !.list = content], w[c])
        /\ [w[c] EXCEPT !.list = content].stage = w[c].stage
        /\ [w[c] EXCEPT !.list = content].list = content
    BY <1>0, <2>1 DEF Lists!Call, ListsAlike
  <2>3. /\ calls' \in [Calls -> Lists!Call] /\ ListsAlike(calls'[c], w[c])
        /\ calls'[c].stage = w[c].stage
        /\ calls'[c].list = content /\ \A k \in Calls \ {c} : calls'[k] = w[k]
    BY <1>2, <2>1, <2>2
  <2>4. ListsAlike(calls'[c], calls[c]) /\ calls'[c].stage = "done"
    BY <1>1, <1>2, <2>3 DEF ListsAlike
  <2> QED
    BY <1>0, <1>1, <1>2, <1>4, <2>3, <2>4, ListsMadeIInv
<1>5. CASE calls' = [calls EXCEPT ![c].stage = "failed"] /\ UNCHANGED <<content, revived>>
  BY <1>0, <1>5, ListsFailedIInv
<1> QED
  <2>1. \/ /\ calls' = w
           /\ \/ /\ calls[c].op = "put" /\ content' = [content EXCEPT ![calls[c].item] = calls[c].value]
                 /\ ~(content[calls[c].item] = 0 /\ kind \in {"sessions", "tunnels"} /\ calls[c].value = 2)
                 /\ revived' = (revived \/ (content[calls[c].item] = 0 /\ calls[c].value = 2 /\ calls[c].peace))
              \/ /\ calls[c].op = "remove" /\ content' = [content EXCEPT ![calls[c].item] = 0]
                 /\ revived' = revived
              \/ /\ calls[c].op = "clear" /\ content' = Lists!Nothing /\ revived' = revived
        \/ calls' = [w EXCEPT ![c].list = content] /\ UNCHANGED <<content, revived>> /\ calls[c].op = "list"
        \/ calls' = [calls EXCEPT ![c].stage = "failed"] /\ UNCHANGED <<content, revived>>
    BY DEF Lists!Execute, f, w
  <2> QED
    BY <1>3, <1>4, <1>5, <2>1

\* A session ends and the log of the audit has an entry more.
LEMMA ListsRecordedIInv == ASSUME ListsIInv, NEW i \in Items, Lists!Recorded(i) PROVE ListsIInv'
<1>0. /\ kind = "audit" /\ outdated' = TRUE /\ content' = [content EXCEPT ![i] = 1]
      /\ used' = used \cup {i}
      /\ UNCHANGED <<kind, rows, chosen, clashed, revived>> /\ calls \in [Calls -> Lists!Call]
      /\ content \in [Items -> Lists!Content]
  BY DEF Lists!Recorded, ListsIInv, ListsTypes
<1>1. calls' = [k \in Calls |-> IF calls[k].stage = "done" THEN [calls[k] EXCEPT !.late = TRUE] ELSE calls[k]]
  BY DEF Lists!Recorded
<1>2. \A k \in Calls : /\ calls'[k] \in Lists!Call /\ ListsSameAnswer(calls'[k], calls[k])
                       /\ calls[k].stage = "done" => calls'[k].late
  <2>1. SUFFICES ASSUME NEW k \in Calls
                 PROVE  /\ calls'[k] \in Lists!Call /\ ListsSameAnswer(calls'[k], calls[k])
                        /\ calls[k].stage = "done" => calls'[k].late
    OBVIOUS
  <2>2. CASE calls[k].stage = "done"
    BY <1>0, <1>1, <2>2, ListsLateIs
  <2>3. CASE calls[k].stage # "done"
    BY <1>0, <1>1, <2>3 DEF ListsSameAnswer, ListsAlike
  <2> QED
    BY <2>2, <2>3
<1>3. calls' \in [Calls -> Lists!Call]
  BY <1>1, <1>2
<1>4. ListsTypes'
  BY <1>0, <1>3 DEF ListsIInv, ListsTypes, Lists!Content
<1>5. ListsAsked'
  BY <1>0, <1>2 DEF ListsIInv, ListsAsked, ListsSameAnswer, ListsAlike
<1>6. ListsAnswered' /\ ListsSettles' /\ ListsRowsAreStored'
  BY <1>0, <1>2 DEF ListsAnswered, ListsSettles, ListsRowsAreStored, ListsSameAnswer, ListsAlike
<1>7. ListsChosenIsStored' /\ ListsPutsAreStored'
  <2>1. chosen' = {} /\ \A k \in Calls : calls'[k].op # "put"
    BY <1>0, <1>2 DEF ListsIInv, ListsAsked, ListsSameAnswer, ListsAlike
  <2> QED
    BY <2>1 DEF ListsChosenIsStored, ListsPutsAreStored
<1>8. Lists!DeletedStaysDeleted'
  BY <1>0 DEF ListsIInv, Lists!DeletedStaysDeleted
<1> QED
  BY <1>4, <1>5, <1>6, <1>7, <1>8 DEF ListsIInv

\* An answer to a change: the list is read again.
LEMMA ListsDoneIInv == ASSUME ListsIInv, NEW c \in Calls, Lists!Done(c) PROVE ListsIInv'
<1>0. /\ calls \in [Calls -> Lists!Call] /\ calls[c].stage = "done"
      /\ calls[c].op \in {"put", "remove"}
      /\ calls' = [calls EXCEPT ![c] = Lists!Reading]
      /\ UNCHANGED <<kind, content, used, rows, outdated, revived>>
  BY DEF Lists!Done, ListsIInv, ListsTypes
<1>1. /\ calls' \in [Calls -> Lists!Call] /\ calls'[c].op = "list" /\ calls'[c].stage = "called"
      /\ \A k \in Calls \ {c} : calls'[k] = calls[k]
  BY <1>0, ListsBlankIsCall
<1>2. /\ chosen' \in {chosen, {}} /\ clashed' \in BOOLEAN /\ (chosen' # {} => clashed' = clashed)
      /\ calls[c].op = "remove" /\ calls[c].own => chosen' = {}
  <2>1. clashed \in BOOLEAN
    BY DEF ListsIInv, ListsTypes
  <2>2. clashed' = (clashed /\ chosen' # {})
    BY DEF Lists!Done
  <2>3. chosen' \in {chosen, {}} /\ (calls[c].op = "remove" /\ calls[c].own => chosen' = {})
    BY DEF Lists!Done
  <2> QED
    BY <2>1, <2>2, <2>3
<1>3. ListsTypes'
  BY <1>0, <1>1, <1>2 DEF ListsIInv, ListsTypes
<1>4. ListsAsked' /\ ListsAnswered'
  BY <1>0, <1>1, <1>2 DEF ListsIInv, ListsAsked, ListsAnswered
<1>5. ListsSettles' /\ ListsRowsAreStored'
  BY <1>1 DEF ListsSettles, ListsRowsAreStored
<1>6. \A j : /\ ListsRemoving(j)' => ListsRemoving(j)
             /\ ListsRemoved(j) => ListsRemoved(j)' \/ (calls[c].op = "remove" /\ calls[c].item = j)
  BY <1>1 DEF ListsRemoving, ListsRemoved
<1>7. ListsChosenIsStored'
  <2>1. SUFFICES ASSUME NEW j \in chosen', ~clashed'
                 PROVE  /\ content[j] # 0 \/ ListsRemoved(j)'
                        /\ \A k \in Calls : calls'[k].op = "remove" /\ calls'[k].item = j => calls'[k].own
    BY <1>0 DEF ListsChosenIsStored
  <2>2. j \in chosen /\ ~clashed
    BY <1>2, <2>1
  <2>3. /\ content[j] # 0 \/ ListsRemoved(j)
        /\ \A k \in Calls : calls[k].op = "remove" /\ calls[k].item = j => calls[k].own
    BY <2>2 DEF ListsIInv, ListsChosenIsStored
  <2>4. ~(calls[c].op = "remove" /\ calls[c].item = j)
    BY <1>2, <2>1, <2>3
  <2> QED
    BY <1>1, <1>6, <2>3, <2>4
<1>8. ListsPutsAreStored'
  <2>1. SUFFICES ASSUME NEW k \in Calls, calls'[k].op = "put", calls'[k].value = 2, calls'[k].peace,
                        kind # "tunnels"
                 PROVE  content[calls'[k].item] # 0 /\ ~(\E m \in Calls : calls'[m].op = "remove"
                                                                         /\ calls'[m].item = calls'[k].item)
    BY <1>0 DEF ListsPutsAreStored, ListsRemoving
  <2>2. k # c /\ calls'[k] = calls[k]
    BY <1>1, <2>1
  <2>3. content[calls[k].item] # 0 /\ ~ListsRemoving(calls[k].item)
    BY <2>1, <2>2 DEF ListsIInv, ListsPutsAreStored
  <2> QED
    BY <1>1, <2>2, <2>3 DEF ListsRemoving
<1>9. Lists!DeletedStaysDeleted'
  BY <1>0 DEF ListsIInv, Lists!DeletedStaysDeleted
<1> QED
  BY <1>3, <1>4, <1>5, <1>7, <1>8, <1>9 DEF ListsIInv

\* A list is shown, or an error.
LEMMA ListsListedIInv == ASSUME ListsIInv, NEW c \in Calls, Lists!Listed(c) \/ Lists!Fails(c)
                         PROVE  ListsIInv'
<1>0. /\ calls \in [Calls -> Lists!Call] /\ calls' = [calls EXCEPT ![c] = Lists!Blank]
      /\ UNCHANGED <<kind, content, used, chosen, clashed, revived>>
  BY DEF Lists!Listed, Lists!Fails, ListsIInv, ListsTypes
<1>1. /\ calls' \in [Calls -> Lists!Call] /\ calls'[c].op = "none" /\ \A k \in Calls \ {c} : calls'[k] = calls[k]
  BY <1>0, ListsBlankIsCall
<1>2. /\ rows' \in [Items -> Lists!Content] /\ outdated' \in BOOLEAN
      /\ \/ calls[c].stage = "done" /\ calls[c].op \in {"list", "clear"} /\ (~outdated' => rows' = content)
         \/ calls[c].stage = "failed" /\ UNCHANGED rows /\ (~outdated' => ~outdated /\ calls[c].op # "list")
  <2>1. CASE Lists!Listed(c)
    <3>1. /\ rows' = calls[c].list /\ outdated' = calls[c].late /\ calls[c].stage = "done"
          /\ calls[c].op \in {"list", "clear"} /\ calls[c] \in Lists!Call
      BY <1>0, <2>1 DEF Lists!Listed
    <3>2. rows' \in [Items -> Lists!Content] /\ outdated' \in BOOLEAN
      BY <3>1 DEF Lists!Call
    <3> QED
      BY <3>1, <3>2 DEF ListsIInv, ListsAnswered
  <2>2. CASE Lists!Fails(c)
    <3>1. /\ rows' = rows /\ calls[c].stage = "failed"
          /\ outdated' = (outdated \/ calls[c].op = "list")
      BY <2>2 DEF Lists!Fails
    <3>2. rows \in [Items -> Lists!Content] /\ outdated \in BOOLEAN
      BY DEF ListsIInv, ListsTypes
    <3> QED
      BY <3>1, <3>2
  <2> QED
    BY <2>1, <2>2
<1>3. ListsTypes'
  BY <1>0, <1>1, <1>2 DEF ListsIInv, ListsTypes
<1>4. ListsAsked' /\ ListsAnswered'
  BY <1>0, <1>1 DEF ListsIInv, ListsAsked, ListsAnswered
<1>5. ListsSettles'
  <2>1. SUFFICES ASSUME ~outdated', rows' # content
                 PROVE  \E k \in Calls : \/ calls'[k].op = "list"
                                         \/ calls'[k].op \in {"put", "remove", "clear"} /\ calls'[k].stage = "done"
    BY <1>0 DEF ListsSettles
  <2>2. calls[c].stage = "failed" /\ rows' = rows /\ ~outdated /\ calls[c].op # "list"
    BY <1>2, <2>1
  <2>3. PICK k \in Calls : \/ calls[k].op = "list"
                           \/ calls[k].op \in {"put", "remove", "clear"} /\ calls[k].stage = "done"
    BY <2>1, <2>2 DEF ListsIInv, ListsSettles
  <2> QED
    BY <1>1, <2>2, <2>3
<1>6. \A j : ListsRemoving(j)' => ListsRemoving(j)
  BY <1>1 DEF ListsRemoving
<1>7. ListsRowsAreStored'
  <2>1. SUFFICES ASSUME NEW j \in Items, ~outdated', content[j] = 0, rows'[j] # 0
                 PROVE  \/ \E k \in Calls : calls'[k].op = "list" \/ (calls'[k].op = "clear" /\ calls'[k].stage = "done")
                        \/ ListsRemoved(j)'
    BY <1>0 DEF ListsRowsAreStored
  <2>2. calls[c].stage = "failed" /\ rows' = rows /\ ~outdated /\ calls[c].op # "list"
    BY <1>2, <2>1
  <2>3. \/ \E k \in Calls : calls[k].op = "list" \/ (calls[k].op = "clear" /\ calls[k].stage = "done")
        \/ ListsRemoved(j)
    BY <2>1, <2>2 DEF ListsIInv, ListsRowsAreStored
  <2>4. CASE \E k \in Calls : calls[k].op = "list" \/ (calls[k].op = "clear" /\ calls[k].stage = "done")
    BY <1>1, <2>2, <2>4
  <2>5. CASE ListsRemoved(j)
    BY <1>1, <2>2, <2>5 DEF ListsRemoved
  <2> QED
    BY <2>3, <2>4, <2>5
<1>8. ListsChosenIsStored'
  <2>1. SUFFICES ASSUME NEW j \in chosen, ~clashed
                 PROVE  /\ content[j] # 0 \/ ListsRemoved(j)'
                        /\ \A k \in Calls : calls'[k].op = "remove" /\ calls'[k].item = j => calls'[k].own
    BY <1>0 DEF ListsChosenIsStored
  <2>2. /\ content[j] # 0 \/ ListsRemoved(j)
        /\ \A k \in Calls : calls[k].op = "remove" /\ calls[k].item = j => calls[k].own
    BY <2>1 DEF ListsIInv, ListsChosenIsStored
  <2>3. ListsRemoved(j) => ListsRemoved(j)'
    BY <1>1, <1>2 DEF ListsRemoved
  <2> QED
    BY <1>1, <2>2, <2>3
<1>9. ListsPutsAreStored'
  <2>1. SUFFICES ASSUME NEW k \in Calls, calls'[k].op = "put", calls'[k].value = 2, calls'[k].peace,
                        kind # "tunnels"
                 PROVE  content[calls'[k].item] # 0 /\ ~(\E m \in Calls : calls'[m].op = "remove"
                                                                         /\ calls'[m].item = calls'[k].item)
    BY <1>0 DEF ListsPutsAreStored, ListsRemoving
  <2>2. k # c /\ calls'[k] = calls[k]
    BY <1>1, <2>1
  <2>3. content[calls[k].item] # 0 /\ ~ListsRemoving(calls[k].item)
    BY <2>1, <2>2 DEF ListsIInv, ListsPutsAreStored
  <2> QED
    BY <1>1, <2>2, <2>3 DEF ListsRemoving
<1>10. Lists!DeletedStaysDeleted'
  BY <1>0 DEF ListsIInv, Lists!DeletedStaysDeleted
<1> QED
  BY <1>3, <1>4, <1>5, <1>7, <1>8, <1>9, <1>10 DEF ListsIInv

LEMMA ListsAnswersIInv == ASSUME ListsIInv, NEW c \in Calls, Lists!Answers(c) PROVE ListsIInv'
BY ListsDoneIInv, ListsListedIInv DEF Lists!Answers, Lists!RefreshSnippets, Lists!RefreshTunnels,
                                      Lists!RefreshTasks, Lists!RefreshCredentials,
   Lists!RefreshSessions, Lists!AuditAnswers

LEMMA ListsNextIInv == ListsIInv /\ [Lists!Next]_(Lists!vars) => ListsIInv'
BY ListsPutsIInv, ListsAuditIInv, ListsDeletesIInv, ListsChoiceIInv, ListsExecuteIInv,
   ListsRecordedIInv, ListsAnswersIInv DEF Lists!Next

LEMMA ListsAlwaysIInv == Lists!Init /\ [][Lists!Next]_(Lists!vars) => []ListsIInv
BY ListsInitIInv, ListsNextIInv, PTL

\* The lists keep their types, and one entry is chosen at most (SnippetPanel.tsx).
THEOREM ListsTypeCorrect == Lists!Init /\ [][Lists!Next]_(Lists!vars) => []Lists!TypeOK
<1>1. ListsIInv => Lists!TypeOK
  <2> SUFFICES ASSUME ListsIInv PROVE Lists!TypeOK
    OBVIOUS
  <2>1. ListsTypes
    BY DEF ListsIInv
  <2>2. Lists!Cardinality(chosen) <= 1
    BY <2>1, AtMostOne DEF ListsTypes
  <2> QED
    BY <2>1, <2>2 DEF ListsTypes, Lists!TypeOK, Lists!AllKinds
<1> QED
  BY <1>1, ListsAlwaysIInv, PTL

\* When nothing is under way the list shown is the one that is stored (SnippetPanel.tsx
\* refresh, and the like of TunnelPanel.tsx, SettingsPage.tsx, ConnectForm.tsx).
THEOREM ListsAreSettled == Lists!Init /\ [][Lists!Next]_(Lists!vars) => []Lists!ListsSettle
<1>1. ListsIInv => Lists!ListsSettle
  BY DEF ListsIInv, ListsSettles, Lists!ListsSettle, Lists!Pending
<1> QED
  BY <1>1, ListsAlwaysIInv, PTL

\* What was deleted is not brought back by a save that was begun in peace
\* (SnippetPanel.tsx doSave, doDelete; SettingsPage.tsx toggle).
THEOREM ListsNothingIsRevived == Lists!Init /\ [][Lists!Next]_(Lists!vars) => []Lists!DeletedStaysDeleted
<1>1. ListsIInv => Lists!DeletedStaysDeleted
  BY DEF ListsIInv
<1> QED
  BY <1>1, ListsAlwaysIInv, PTL

HIDE ListsAssumption

-----------------------------------------------------------------------------
(* Settings *)

SettingsTypes ==
    /\ section \in Sections
    /\ field \in [Settings!Forms -> Settings!Values]
    /\ saved \in [Settings!Forms -> Settings!Values] /\ settled \in [Settings!Forms -> BOOLEAN]
    /\ running \in BOOLEAN /\ crossing \in BOOLEAN
    /\ latest \in 1..Versions /\ update \in 0..Versions /\ localPath \in 0..Versions
    /\ checking \in BOOLEAN /\ downloading \in BOOLEAN
    /\ jobs \in [Calls -> Settings!Job]
    /\ \A c \in Calls : /\ jobs[c].op \in {"load", "save"} => jobs[c].value \in Settings!Values
                        /\ jobs[c].op \in {"check", "download"} => jobs[c].value \in 0..Versions

\* A call that was made in peace is the only one of its form, and what it read
\* or stored is what is stored.
SettingsPeaceful ==
    \A c \in Calls : jobs[c].op \in {"load", "save"} /\ jobs[c].peace = TRUE =>
        /\ \A k \in Calls : jobs[k].op \in {"load", "save"} /\ jobs[k].form = jobs[c].form => k = c
        /\ jobs[c].stage = "done" => jobs[c].value = saved[jobs[c].form]
        /\ jobs[c].op = "save" => jobs[c].value = field[jobs[c].form]

\* No call of a settled form is under way.
SettingsSettles ==
    \A f \in Settings!Forms : settled[f] = TRUE =>
        /\ \A c \in Calls : ~(jobs[c].op \in {"load", "save"} /\ jobs[c].form = f)
        /\ saved[f] = field[f] \/ saved[f] = 0

\* The section asks for one thing at a time, and for the download of what it offers.
SettingsAbout ==
    /\ localPath # 0 => localPath = update
    /\ \A c \in Calls : jobs[c].mine = TRUE =>
         /\ jobs[c].op = "check" => checking /\ update = 0 /\ localPath = 0
         /\ jobs[c].op = "download" => downloading /\ update # 0 /\ jobs[c].value = update
         /\ jobs[c].op \in {"check", "download"} =>
              \A k \in Calls : jobs[k].mine = TRUE /\ jobs[k].op \in {"check", "download"} => k = c

\* The busy flag is that of the one call that runs.
SettingsSharing == Settings!BusyOps \cup {"revoke"}
SettingsBusy ==
    ~crossing => \A c \in Calls : jobs[c].mine = TRUE /\ jobs[c].op \in SettingsSharing =>
        /\ running
        /\ \A k \in Calls : jobs[k].mine = TRUE /\ jobs[k].op \in SettingsSharing => k = c

SettingsIInv == SettingsTypes /\ SettingsPeaceful /\ SettingsSettles /\ SettingsAbout /\ SettingsBusy

LEMMA SettingsFreeIsJob == Settings!Free \in Settings!Job /\ Settings!Free.op = "none"
BY DEF Settings!Free, Settings!Job, Settings!Ops, Settings!Forms, Settings!Values, Settings!BusyOps

LEMMA SettingsInitIInv == Settings!Init => SettingsIInv
<1> SUFFICES ASSUME Settings!Init PROVE SettingsIInv
  OBVIOUS
<1>1. jobs \in [Calls -> Settings!Job] /\ \A c \in Calls : jobs[c].op = "none"
  BY SettingsFreeIsJob DEF Settings!Init
<1>2. SettingsTypes
  <2>1. /\ field \in [Settings!Forms -> Settings!Values]
        /\ saved \in [Settings!Forms -> Settings!Values] /\ settled \in [Settings!Forms -> BOOLEAN]
    BY DEF Settings!Init, Settings!Forms, Settings!Values, Settings!Default
  <2>2. latest \in 1..Versions /\ update \in 0..Versions /\ localPath \in 0..Versions
    BY SettingsAssumption DEF Settings!Init
  <2> QED
    BY <1>1, <2>1, <2>2, SettingsAssumption DEF Settings!Init, SettingsTypes
<1>3. SettingsPeaceful /\ SettingsSettles /\ SettingsBusy
  BY <1>1 DEF Settings!Init, SettingsPeaceful, SettingsSettles, SettingsBusy, SettingsSharing,
              Settings!BusyOps
<1>4. SettingsAbout
  BY <1>1 DEF Settings!Init, SettingsAbout
<1> QED
  BY <1>2, <1>3, <1>4 DEF SettingsIInv

\* What nothing touches stays as it was.
LEMMA SettingsPeaceKept ==
    ASSUME SettingsIInv, UNCHANGED <<field, saved, settled>>,
           \A k \in Calls : jobs'[k].op \in {"load", "save"} =>
               /\ jobs'[k].op = jobs[k].op /\ jobs'[k].form = jobs[k].form
               /\ jobs'[k].stage = jobs[k].stage /\ jobs'[k].value = jobs[k].value
               /\ jobs'[k].peace = TRUE => jobs[k].peace = TRUE
    PROVE  SettingsPeaceful' /\ SettingsSettles'
<1>1. SettingsPeaceful'
  BY DEF SettingsIInv, SettingsPeaceful
<1>2. SettingsSettles'
  BY DEF SettingsIInv, SettingsSettles
<1> QED
  BY <1>1, <1>2

LEMMA SettingsAboutKept ==
    ASSUME SettingsIInv, UNCHANGED Settings!aboutVars,
           \A k \in Calls : jobs'[k].op \in {"check", "download"} /\ jobs'[k].mine = TRUE =>
               /\ jobs'[k].op = jobs[k].op /\ jobs[k].mine = TRUE
               /\ jobs'[k].op = "download" => jobs'[k].value = jobs[k].value
    PROVE  SettingsAbout'
BY DEF SettingsIInv, SettingsAbout, Settings!aboutVars

LEMMA SettingsBusyKept ==
    ASSUME SettingsIInv, running' = running, crossing' = FALSE => crossing = FALSE,
           crossing' \in BOOLEAN,
           \A k \in Calls : jobs'[k].op \in SettingsSharing /\ jobs'[k].mine = TRUE => jobs'[k].op = jobs[k].op /\ jobs[k].mine = TRUE
    PROVE  SettingsBusy'
<1>1. crossing \in BOOLEAN
  BY DEF SettingsIInv, SettingsTypes
<1> QED
  BY <1>1 DEF SettingsIInv, SettingsBusy, SettingsSharing, Settings!BusyOps

\* A call that is asked for.
SettingsBegins(js, c, op, f, v) ==
    /\ jobs' \in [Calls -> Settings!Job]
    /\ jobs'[c].op = op /\ jobs'[c].form = f /\ jobs'[c].stage = "called" /\ jobs'[c].value = v
    /\ jobs'[c].mine = TRUE
    /\ jobs'[c].peace = (Settings!OfForm(f) = {})
    /\ \A k \in Calls \ {c} :
         /\ jobs'[k].op = js[k].op /\ jobs'[k].form = js[k].form /\ jobs'[k].stage = js[k].stage
         /\ jobs'[k].value = js[k].value /\ jobs'[k].mine = js[k].mine
         /\ jobs'[k].peace = TRUE => js[k].peace = TRUE /\ ~(op \in {"load", "save"} /\ k \in Settings!OfForm(f))

LEMMA SettingsWithIs ==
    ASSUME NEW js \in [Calls -> Settings!Job], NEW c \in Calls, NEW op \in Settings!Ops,
           NEW f \in Settings!Forms,
           NEW v \in Settings!Values \cup 0..Versions, jobs' = Settings!With(js, c, op, f, v)
    PROVE  SettingsBegins(js, c, op, f, v)
<1> DEFINE p == Settings!OfForm(f) = {}
<1> DEFINE x == [op |-> op, form |-> f, stage |-> "called", value |-> v, mine |-> TRUE, peace |-> p]
<1>1. p \in BOOLEAN
  OBVIOUS
<1>2. jobs' = [k \in Calls |-> IF k = c THEN x
                           ELSE IF op \in {"load", "save"} /\ k \in Settings!OfForm(f) THEN [js[k] EXCEPT !.peace = FALSE]
                           ELSE js[k]]
  BY DEF Settings!With
<1>3. p = (Settings!OfForm(f) = {})
  OBVIOUS
<1> HIDE DEF p
<1>4. /\ x \in Settings!Job /\ x.op = op /\ x.form = f /\ x.stage = "called" /\ x.value = v
      /\ x.mine = TRUE /\ x.peace = p
  BY <1>1 DEF Settings!Job
<1> HIDE DEF x
<1>5. jobs'[c] = x
  BY <1>2
<1>6. \A k \in Calls : js[k] \in Settings!Job /\ [js[k] EXCEPT !.peace = FALSE] \in Settings!Job
  BY DEF Settings!Job
<1>7. jobs' \in [Calls -> Settings!Job]
  BY <1>2, <1>4, <1>6
<1>8. ASSUME NEW k \in Calls \ {c}
      PROVE  /\ jobs'[k].op = js[k].op /\ jobs'[k].form = js[k].form /\ jobs'[k].stage = js[k].stage
             /\ jobs'[k].value = js[k].value /\ jobs'[k].mine = js[k].mine
             /\ jobs'[k].peace = TRUE => js[k].peace = TRUE /\ ~(op \in {"load", "save"} /\ k \in Settings!OfForm(f))
  <2>1. CASE op \in {"load", "save"} /\ k \in Settings!OfForm(f)
    <3>1. jobs'[k] = [js[k] EXCEPT !.peace = FALSE]
      BY <1>2, <1>8, <2>1
    <3> QED
      BY <1>6, <1>8, <3>1 DEF Settings!Job
  <2>2. CASE ~(op \in {"load", "save"} /\ k \in Settings!OfForm(f))
    <3>1. jobs'[k] = js[k]
      BY <1>2, <1>8, <2>2
    <3> QED
      BY <2>2, <3>1
  <2> QED
    BY <2>1, <2>2
<1> QED
  BY <1>3, <1>4, <1>5, <1>7, <1>8 DEF SettingsBegins

\* A form is read, or saved as it is shown.
LEMMA SettingsFormAsked ==
    ASSUME SettingsIInv, NEW c \in Calls, jobs[c].op = "none", NEW f \in Settings!Forms,
           NEW op \in {"load", "save"}, NEW v \in Settings!Values,
           NEW js \in [Calls -> Settings!Job], jobs' = Settings!With(js, c, op, f, v),
           \A k \in Calls : /\ js[k].op = jobs[k].op /\ js[k].form = jobs[k].form /\ js[k].stage = jobs[k].stage
                            /\ js[k].value = jobs[k].value /\ js[k].peace = jobs[k].peace,
           field' \in [Settings!Forms -> Settings!Values], settled' \in [Settings!Forms -> BOOLEAN],
           saved' = saved,
           settled'[f] = FALSE, op = "save" => v = field'[f],
           \A g \in Settings!Forms \ {f} : field'[g] = field[g] /\ (settled'[g] = TRUE => settled[g] = TRUE)
    PROVE  SettingsPeaceful' /\ SettingsSettles'
<1>1. /\ jobs' \in [Calls -> Settings!Job]
      /\ jobs'[c].op = op /\ jobs'[c].form = f /\ jobs'[c].stage = "called" /\ jobs'[c].value = v
      /\ jobs'[c].peace = (Settings!OfForm(f) = {})
      /\ \A k \in Calls \ {c} :
           /\ jobs'[k].op = js[k].op /\ jobs'[k].form = js[k].form /\ jobs'[k].stage = js[k].stage
           /\ jobs'[k].value = js[k].value
           /\ jobs'[k].peace = TRUE => js[k].peace = TRUE /\ ~(op \in {"load", "save"} /\ k \in Settings!OfForm(f))
  <2>1. /\ op \in Settings!Ops /\ v \in Settings!Values \cup 0..Versions
        /\ js \in [Calls -> Settings!Job] /\ f \in Settings!Forms
    BY DEF Settings!Ops
  <2>2. jobs' = Settings!With(js, c, op, f, v)
    OBVIOUS
  <2>3. SettingsBegins(js, c, op, f, v)
    BY <2>1, <2>2, SettingsWithIs
  <2> QED
    BY <2>3 DEF SettingsBegins
<1>2. \A k \in Calls : jobs[k].op \in {"load", "save"} /\ jobs[k].form = f => k \in Settings!OfForm(f)
  BY DEF Settings!OfForm, Settings!Pending
<1>3. /\ jobs'[c].peace = TRUE => Settings!OfForm(f) = {}
      /\ \A k \in Calls \ {c} : jobs'[k].peace = TRUE => jobs[k].peace = TRUE /\ k \notin Settings!OfForm(f)
      /\ \A k \in Calls \ {c} : /\ jobs'[k].op = jobs[k].op /\ jobs'[k].form = jobs[k].form
                                /\ jobs'[k].stage = jobs[k].stage /\ jobs'[k].value = jobs[k].value
  BY <1>1
<1>4. SettingsPeaceful'
  <2> SUFFICES ASSUME NEW k \in Calls, jobs'[k].op \in {"load", "save"}, jobs'[k].peace = TRUE
               PROVE  /\ \A m \in Calls : jobs'[m].op \in {"load", "save"} /\ jobs'[m].form = jobs'[k].form => m = k
                      /\ jobs'[k].stage = "done" => jobs'[k].value = saved[jobs'[k].form]
                      /\ jobs'[k].op = "save" => jobs'[k].value = field'[jobs'[k].form]
    BY DEF SettingsPeaceful
  <2>1. CASE k = c
    BY <1>1, <1>2, <1>3, <2>1
  <2>2. CASE k # c
    <3>1. jobs[k].peace = TRUE /\ jobs[k].op \in {"load", "save"} /\ k \notin Settings!OfForm(f)
      BY <1>3, <2>2
    <3>2. jobs[k].form \in Settings!Forms \ {f}
      BY <1>2, <3>1 DEF SettingsIInv, SettingsTypes, Settings!Job
    <3>3. /\ \A m \in Calls : jobs[m].op \in {"load", "save"} /\ jobs[m].form = jobs[k].form => m = k
          /\ jobs[k].stage = "done" => jobs[k].value = saved[jobs[k].form]
          /\ jobs[k].op = "save" => jobs[k].value = field[jobs[k].form]
      BY <3>1 DEF SettingsIInv, SettingsPeaceful
    <3> QED
      BY <1>1, <1>3, <2>2, <3>2, <3>3
  <2> QED
    BY <2>1, <2>2
<1>5. SettingsSettles'
  BY <1>1, <1>3 DEF SettingsIInv, SettingsTypes, SettingsSettles
<1> QED
  BY <1>4, <1>5

\* A call ends.
LEMMA SettingsFreedIs ==
    ASSUME SettingsIInv, NEW c \in Calls, jobs' = [jobs EXCEPT ![c] = Settings!Free]
    PROVE  /\ jobs' \in [Calls -> Settings!Job] /\ jobs'[c].op = "none"
           /\ \A k \in Calls \ {c} : jobs'[k] = jobs[k]
BY SettingsFreeIsJob DEF SettingsIInv, SettingsTypes

LEMMA SettingsOpenPageIInv == ASSUME SettingsIInv, NEW c \in Calls, Settings!OpenPage(c)
                              PROVE  SettingsIInv'
<1>1. /\ section' = "appearance" /\ field' = [field EXCEPT !["ai"] = Settings!Default]
      /\ settled' = [settled EXCEPT !["ai"] = FALSE] /\ jobs[c].op = "none"
      /\ jobs' = Settings!With(jobs, c, "load", "ai", 0)
      /\ UNCHANGED <<saved, running, crossing, latest, Settings!aboutVars>>
  BY DEF Settings!OpenPage, Settings!Asks
<1>2. /\ jobs \in [Calls -> Settings!Job] /\ field \in [Settings!Forms -> Settings!Values]
      /\ settled \in [Settings!Forms -> BOOLEAN]
      /\ "ai" \in Settings!Forms /\ 0 \in Settings!Values /\ Settings!Default \in Settings!Values
  BY DEF SettingsIInv, SettingsTypes, Settings!Forms, Settings!Values, Settings!Default
<1>3. field' \in [Settings!Forms -> Settings!Values] /\ settled' \in [Settings!Forms -> BOOLEAN]
  BY <1>1, <1>2
<1>4. "load" \in Settings!Ops /\ 0 \in Settings!Values \cup 0..Versions
  BY <1>2 DEF Settings!Ops
<1>5. /\ jobs' \in [Calls -> Settings!Job]
      /\ jobs'[c].op = "load" /\ jobs'[c].value = 0
      /\ \A k \in Calls \ {c} : jobs'[k].op = jobs[k].op /\ jobs'[k].value = jobs[k].value /\ jobs'[k].mine = jobs[k].mine
  <2>1. /\ jobs \in [Calls -> Settings!Job] /\ "load" \in Settings!Ops /\ "ai" \in Settings!Forms
        /\ 0 \in Settings!Values \cup 0..Versions
    BY <1>2, <1>4
  <2>2. jobs' = Settings!With(jobs, c, "load", "ai", 0)
    BY <1>1
  <2>3. SettingsBegins(jobs, c, "load", "ai", 0)
    BY <2>1, <2>2, SettingsWithIs
  <2> QED
    BY <2>3 DEF SettingsBegins
<1>6. SettingsTypes'
  BY <1>1, <1>2, <1>3, <1>5, SettingsAssumption DEF SettingsIInv, SettingsTypes, Settings!aboutVars
<1>7. SettingsPeaceful' /\ SettingsSettles'
  <2>1. /\ settled'["ai"] = FALSE
        /\ \A g \in Settings!Forms \ {"ai"} : field'[g] = field[g] /\ (settled'[g] = TRUE => settled[g] = TRUE)
    BY <1>1, <1>2
  <2> QED
    BY <1>1, <1>2, <1>3, <2>1, SettingsFormAsked
<1>8. SettingsAbout'
  BY <1>1, <1>5, SettingsAboutKept
<1>9. SettingsBusy'
  <2>1. crossing' \in BOOLEAN
    BY <1>1 DEF SettingsIInv, SettingsTypes
  <2> QED
    BY <1>1, <1>5, <2>1, SettingsBusyKept DEF SettingsSharing, Settings!BusyOps
<1> QED
  BY <1>6, <1>7, <1>8, <1>9 DEF SettingsIInv

LEMMA SettingsGotoIInv == ASSUME SettingsIInv, NEW c \in Calls, NEW s \in Sections,
                                 Settings!Goto(c, s)
                          PROVE  SettingsIInv'
<1> DEFINE own(k) == jobs[k].mine /\ jobs[k].form = "ai" /\ jobs[k].op \in {"load", "save"} /\ s # "closed"
<1> DEFINE left == [k \in Calls |-> [jobs[k] EXCEPT !.mine = own(k)]]
<1>0. left = [k \in Calls |-> [jobs[k] EXCEPT !.mine = @ /\ jobs[k].form = "ai" /\ jobs[k].op \in {"load", "save"} /\ s # "closed"]]
  OBVIOUS
<1>1. /\ section' = s /\ running' = FALSE /\ crossing' = (Settings!Pending # {})
      /\ update' = 0 /\ localPath' = 0 /\ checking' = FALSE /\ downloading' = FALSE
      /\ UNCHANGED <<saved, latest>>
      /\ \/ /\ s = "alerts" /\ jobs[c].op = "none" /\ jobs' = Settings!With(left, c, "load", "alerts", 0)
            /\ field' = [field EXCEPT !["alerts"] = Settings!Default]
            /\ settled' = [settled EXCEPT !["alerts"] = FALSE]
         \/ /\ jobs' = left /\ UNCHANGED field
            /\ settled' = [f \in Settings!Forms |-> settled[f] /\ f = "ai" /\ s # "closed"]
  BY <1>0, Zenon DEF Settings!Goto
<1>2. /\ jobs \in [Calls -> Settings!Job] /\ field \in [Settings!Forms -> Settings!Values]
      /\ settled \in [Settings!Forms -> BOOLEAN]
      /\ "alerts" \in Settings!Forms /\ 0 \in Settings!Values
      /\ Settings!Default \in Settings!Values
  BY DEF SettingsIInv, SettingsTypes, Settings!Forms, Settings!Values, Settings!Default
<1>3. \A k \in Calls : own(k) \in BOOLEAN
  OBVIOUS
<1>4. \A k \in Calls : own(k) => jobs[k].op \in {"load", "save"}
  OBVIOUS
<1>5. left = [k \in Calls |-> [jobs[k] EXCEPT !.mine = own(k)]]
  OBVIOUS
<1> HIDE DEF own, left
<1>6. ASSUME NEW k \in Calls
      PROVE  /\ left[k] \in Settings!Job /\ left[k].op = jobs[k].op /\ left[k].form = jobs[k].form /\ left[k].stage = jobs[k].stage
             /\ left[k].value = jobs[k].value /\ left[k].peace = jobs[k].peace
             /\ left[k].mine = TRUE => jobs[k].op \in {"load", "save"}
  <2>1. left[k] = [jobs[k] EXCEPT !.mine = own(k)] /\ jobs[k] \in Settings!Job
    BY <1>2, <1>5
  <2> QED
    BY <1>3, <1>4, <2>1 DEF Settings!Job
<1>7. left \in [Calls -> Settings!Job]
  BY <1>5, <1>6
<1>8. crossing' \in BOOLEAN
  BY <1>1
<1>11. /\ section' \in Sections /\ running' \in BOOLEAN /\ crossing' \in BOOLEAN
       /\ latest' \in 1..Versions
       /\ update' \in 0..Versions /\ localPath' \in 0..Versions /\ checking' \in BOOLEAN
       /\ downloading' \in BOOLEAN
       /\ saved' \in [Settings!Forms -> Settings!Values]
  <2>1. 0 \in 0..Versions
    BY SettingsAssumption
  <2>2. saved \in [Settings!Forms -> Settings!Values] /\ latest \in 1..Versions
    BY DEF SettingsIInv, SettingsTypes
  <2>3. /\ section' = s /\ running' = FALSE /\ update' = 0 /\ localPath' = 0 /\ checking' = FALSE
        /\ downloading' = FALSE
        /\ saved' = saved /\ latest' = latest
    BY <1>1
  <2> QED
    BY <1>8, <2>1, <2>2, <2>3
<1>9. CASE /\ s = "alerts" /\ jobs[c].op = "none" /\ jobs' = Settings!With(left, c, "load", "alerts", 0)
           /\ field' = [field EXCEPT !["alerts"] = Settings!Default]
           /\ settled' = [settled EXCEPT !["alerts"] = FALSE]
  <2>1. "load" \in Settings!Ops /\ 0 \in Settings!Values \cup 0..Versions
    BY <1>2 DEF Settings!Ops
  <2>2. /\ jobs' \in [Calls -> Settings!Job]
        /\ jobs'[c].op = "load" /\ jobs'[c].value = 0
        /\ \A k \in Calls \ {c} : jobs'[k].op = left[k].op /\ jobs'[k].value = left[k].value /\ jobs'[k].mine = left[k].mine
    <3>1. /\ left \in [Calls -> Settings!Job] /\ "load" \in Settings!Ops
          /\ "alerts" \in Settings!Forms /\ 0 \in Settings!Values \cup 0..Versions
      BY <1>2, <1>7, <2>1
    <3>2. jobs' = Settings!With(left, c, "load", "alerts", 0)
      BY <1>9
    <3>3. SettingsBegins(left, c, "load", "alerts", 0)
      BY <3>1, <3>2, SettingsWithIs
    <3> QED
      BY <3>3 DEF SettingsBegins
  <2>3. field' \in [Settings!Forms -> Settings!Values] /\ settled' \in [Settings!Forms -> BOOLEAN]
    BY <1>2, <1>9
  <2>4. SettingsTypes'
    <3>1. \A k \in Calls : /\ left[k].op \in {"load", "save"} => left[k].value \in Settings!Values
                           /\ left[k].op \in {"check", "download"} => left[k].value \in 0..Versions
      BY <1>6 DEF SettingsIInv, SettingsTypes
    <3>2. \A k \in Calls : /\ jobs'[k].op \in {"load", "save"} => jobs'[k].value \in Settings!Values
                           /\ jobs'[k].op \in {"check", "download"} => jobs'[k].value \in 0..Versions
      BY <1>2, <2>2, <3>1
    <3> QED
      BY <1>11, <2>2, <2>3, <3>2 DEF SettingsTypes
  <2>5. SettingsPeaceful' /\ SettingsSettles'
    <3>1. /\ settled'["alerts"] = FALSE
          /\ \A g \in Settings!Forms \ {"alerts"} : field'[g] = field[g] /\ (settled'[g] = TRUE => settled[g] = TRUE)
      BY <1>2, <1>9
    <3> QED
      <4>1. /\ jobs[c].op = "none" /\ jobs' = Settings!With(left, c, "load", "alerts", 0)
            /\ saved' = saved
            /\ "alerts" \in Settings!Forms /\ 0 \in Settings!Values
            /\ left \in [Calls -> Settings!Job]
        BY <1>1, <1>2, <1>7, <1>9
      <4>2. \A k \in Calls : /\ left[k].op = jobs[k].op /\ left[k].form = jobs[k].form /\ left[k].stage = jobs[k].stage
                             /\ left[k].value = jobs[k].value /\ left[k].peace = jobs[k].peace
        BY <1>6
      <4> QED
        BY <2>3, <3>1, <4>1, <4>2, SettingsFormAsked
  <2>6. \A k \in Calls : jobs'[k].mine = TRUE => jobs'[k].op \in {"load", "save"}
    BY <1>6, <2>2
  <2>7. \A k \in Calls : jobs'[k].mine \in BOOLEAN
    BY <2>2 DEF Settings!Job
  <2>8. SettingsAbout' /\ SettingsBusy'
    BY <1>1, <2>6, <2>7 DEF SettingsAbout, SettingsBusy, SettingsSharing, Settings!BusyOps
  <2> QED
    BY <2>4, <2>5, <2>8 DEF SettingsIInv
<1>10. CASE /\ jobs' = left /\ UNCHANGED field
            /\ settled' = [f \in Settings!Forms |-> settled[f] /\ f = "ai" /\ s # "closed"]
  <2>1. settled' \in [Settings!Forms -> BOOLEAN] /\ \A f \in Settings!Forms : settled'[f] = TRUE => settled[f] = TRUE
    BY <1>2, <1>10
  <2>0. /\ jobs' = left /\ field' = field /\ saved' = saved
        /\ settled' \in [Settings!Forms -> BOOLEAN]
        /\ \A f \in Settings!Forms : settled'[f] = TRUE => settled[f] = TRUE
    BY <1>1, <1>10, <2>1
  <2>2. SettingsTypes'
    BY <1>6, <1>7, <1>11, <2>0 DEF SettingsIInv, SettingsTypes
  <2>7. \A k \in Calls : /\ jobs'[k].op = jobs[k].op /\ jobs'[k].form = jobs[k].form /\ jobs'[k].stage = jobs[k].stage
                         /\ jobs'[k].value = jobs[k].value /\ jobs'[k].peace = jobs[k].peace
    BY <1>6, <2>0
  <2>3. SettingsPeaceful'
    BY <2>7, <2>0 DEF SettingsIInv, SettingsPeaceful
  <2>4. SettingsSettles'
    BY <2>7, <2>0 DEF SettingsIInv, SettingsSettles
  <2>5. \A k \in Calls : jobs'[k].mine \in BOOLEAN /\ (jobs'[k].mine = TRUE => jobs'[k].op \in {"load", "save"})
    BY <1>6, <1>7, <1>10 DEF Settings!Job
  <2>6. SettingsAbout' /\ SettingsBusy'
    BY <1>1, <2>5 DEF SettingsAbout, SettingsBusy, SettingsSharing, Settings!BusyOps
  <2> QED
    BY <2>2, <2>3, <2>4, <2>6 DEF SettingsIInv
<1> QED
  BY <1>1, <1>9, <1>10

LEMMA SettingsEditFieldIInv == ASSUME SettingsIInv, NEW f \in Settings!Forms,
                                      NEW v \in Settings!Values, Settings!EditField(f, v)
                               PROVE  SettingsIInv'
<1>1. /\ field' = [field EXCEPT ![f] = v] /\ settled' = [settled EXCEPT ![f] = FALSE]
      /\ jobs' = [k \in Calls |-> IF k \in Settings!OfForm(f) /\ jobs[k].op = "save"
                                  THEN [jobs[k] EXCEPT !.peace = FALSE] ELSE jobs[k]]
      /\ UNCHANGED <<section, saved, running, crossing, latest, Settings!aboutVars>>
  BY DEF Settings!EditField
<1>2. /\ jobs \in [Calls -> Settings!Job] /\ field \in [Settings!Forms -> Settings!Values]
      /\ settled \in [Settings!Forms -> BOOLEAN]
  BY DEF SettingsIInv, SettingsTypes
<1>3. ASSUME NEW k \in Calls
      PROVE  /\ jobs'[k] \in Settings!Job /\ jobs'[k].op = jobs[k].op /\ jobs'[k].form = jobs[k].form /\ jobs'[k].stage = jobs[k].stage
             /\ jobs'[k].value = jobs[k].value /\ jobs'[k].mine = jobs[k].mine
             /\ jobs'[k].peace = TRUE => jobs[k].peace = TRUE /\ ~(jobs[k].op = "save" /\ jobs[k].form = f)
  <2>1. jobs[k].op = "save" /\ jobs[k].form = f => k \in Settings!OfForm(f)
    BY DEF Settings!OfForm, Settings!Pending
  <2>2. jobs[k] \in Settings!Job
    BY <1>2
  <2>3. CASE k \in Settings!OfForm(f) /\ jobs[k].op = "save"
    <3>1. jobs'[k] = [jobs[k] EXCEPT !.peace = FALSE]
      BY <1>1, <2>3
    <3> QED
      BY <2>2, <3>1 DEF Settings!Job
  <2>4. CASE ~(k \in Settings!OfForm(f) /\ jobs[k].op = "save")
    <3>1. jobs'[k] = jobs[k]
      BY <1>1, <2>4
    <3> QED
      BY <2>1, <2>2, <2>4, <3>1
  <2> QED
    BY <2>3, <2>4
<1>4. jobs' \in [Calls -> Settings!Job]
  BY <1>1, <1>3
<1>5. SettingsTypes'
  BY <1>1, <1>2, <1>3, <1>4 DEF SettingsIInv, SettingsTypes, Settings!aboutVars
<1>6. SettingsPeaceful'
  <2>1. saved' = saved /\ \A g \in Settings!Forms \ {f} : field'[g] = field[g]
    BY <1>1, <1>2
  <2>2. \A k \in Calls : jobs[k].form \in Settings!Forms
    BY <1>2 DEF Settings!Job
  <2>3. SUFFICES ASSUME NEW k \in Calls, jobs'[k].op \in {"load", "save"}, jobs'[k].peace = TRUE
                 PROVE  /\ \A m \in Calls : jobs'[m].op \in {"load", "save"} /\ jobs'[m].form = jobs'[k].form => m = k
                        /\ jobs'[k].stage = "done" => jobs'[k].value = saved'[jobs'[k].form]
                        /\ jobs'[k].op = "save" => jobs'[k].value = field'[jobs'[k].form]
    BY DEF SettingsPeaceful
  <2>4. /\ \A m \in Calls : jobs[m].op \in {"load", "save"} /\ jobs[m].form = jobs[k].form => m = k
        /\ jobs[k].stage = "done" => jobs[k].value = saved[jobs[k].form]
        /\ jobs[k].op = "save" => jobs[k].value = field[jobs[k].form]
    BY <1>3, <2>3 DEF SettingsIInv, SettingsPeaceful
  <2> QED
    BY <1>3, <2>1, <2>2, <2>3, <2>4
<1>7. SettingsSettles'
  BY <1>1, <1>2, <1>3 DEF SettingsIInv, SettingsSettles
<1>8. SettingsAbout'
  BY <1>1, <1>3, SettingsAboutKept
<1>9. SettingsBusy'
  <2>1. crossing' \in BOOLEAN
    BY <1>1 DEF SettingsIInv, SettingsTypes
  <2> QED
    BY <1>1, <1>3, <2>1, SettingsBusyKept
<1> QED
  BY <1>5, <1>6, <1>7, <1>8, <1>9 DEF SettingsIInv

LEMMA SettingsSaveFormIInv == ASSUME SettingsIInv, NEW c \in Calls, NEW f \in Settings!Forms,
                                     Settings!SaveForm(c, f)
                              PROVE  SettingsIInv'
<1>1. /\ jobs[c].op = "none" /\ jobs' = Settings!With(jobs, c, "save", f, field[f])
      /\ settled' = [settled EXCEPT ![f] = FALSE]
      /\ UNCHANGED <<section, field, saved, running, crossing, latest, Settings!aboutVars>>
  BY DEF Settings!SaveForm, Settings!Asks
<1>2. /\ jobs \in [Calls -> Settings!Job] /\ field \in [Settings!Forms -> Settings!Values]
      /\ settled \in [Settings!Forms -> BOOLEAN] /\ field[f] \in Settings!Values
  BY DEF SettingsIInv, SettingsTypes
<1>3. "save" \in Settings!Ops /\ field[f] \in Settings!Values \cup 0..Versions
  BY <1>2 DEF Settings!Ops
<1>4. /\ jobs' \in [Calls -> Settings!Job]
      /\ jobs'[c].op = "save" /\ jobs'[c].value = field[f]
      /\ \A k \in Calls \ {c} : jobs'[k].op = jobs[k].op /\ jobs'[k].value = jobs[k].value /\ jobs'[k].mine = jobs[k].mine
  <2>1. /\ jobs \in [Calls -> Settings!Job] /\ "save" \in Settings!Ops /\ f \in Settings!Forms
        /\ field[f] \in Settings!Values \cup 0..Versions
    BY <1>2, <1>3
  <2>2. jobs' = Settings!With(jobs, c, "save", f, field[f])
    BY <1>1
  <2>3. SettingsBegins(jobs, c, "save", f, field[f])
    BY <2>1, <2>2, SettingsWithIs
  <2> QED
    BY <2>3 DEF SettingsBegins
<1>5. settled' \in [Settings!Forms -> BOOLEAN] /\ field' \in [Settings!Forms -> Settings!Values]
  BY <1>1, <1>2
<1>6. SettingsTypes'
  BY <1>1, <1>2, <1>4, <1>5 DEF SettingsIInv, SettingsTypes, Settings!aboutVars
<1>7. SettingsPeaceful' /\ SettingsSettles'
  <2>1. /\ settled'[f] = FALSE /\ field[f] = field'[f]
        /\ \A g \in Settings!Forms \ {f} : field'[g] = field[g] /\ (settled'[g] = TRUE => settled[g] = TRUE)
    BY <1>1, <1>2
  <2> QED
    BY <1>1, <1>2, <1>5, <2>1, SettingsFormAsked
<1>8. SettingsAbout'
  BY <1>1, <1>4, SettingsAboutKept
<1>9. SettingsBusy'
  <2>1. crossing' \in BOOLEAN
    BY <1>1 DEF SettingsIInv, SettingsTypes
  <2> QED
    BY <1>1, <1>4, <2>1, SettingsBusyKept DEF SettingsSharing, Settings!BusyOps
<1> QED
  BY <1>6, <1>7, <1>8, <1>9 DEF SettingsIInv

LEMMA SettingsLoadAnswersIInv == ASSUME SettingsIInv, NEW c \in Calls, NEW f \in Settings!Forms,
                                        Settings!LoadAnswers(c, f)
                                 PROVE  SettingsIInv'
<1>1. /\ jobs[c].op = "load" /\ jobs[c].form = f /\ jobs[c].stage = "done"
      /\ field' = [field EXCEPT ![f] = Settings!Shows(jobs[c].value)]
      /\ settled' = [settled EXCEPT ![f] = jobs[c].peace]
      /\ jobs' = [jobs EXCEPT ![c] = Settings!Free]
      /\ UNCHANGED <<section, saved, running, crossing, latest, Settings!aboutVars>>
  BY DEF Settings!LoadAnswers
<1>2. /\ jobs \in [Calls -> Settings!Job] /\ field \in [Settings!Forms -> Settings!Values]
      /\ settled \in [Settings!Forms -> BOOLEAN]
      /\ jobs[c].value \in Settings!Values /\ jobs[c].peace \in BOOLEAN
  BY <1>1 DEF SettingsIInv, SettingsTypes, Settings!Job
<1>3. jobs' \in [Calls -> Settings!Job] /\ jobs'[c].op = "none" /\ \A k \in Calls \ {c} : jobs'[k] = jobs[k]
  BY <1>1, SettingsFreedIs
<1>4. Settings!Shows(jobs[c].value) \in Settings!Values
  BY <1>2 DEF Settings!Shows, Settings!Values, Settings!Default
<1>5. /\ field' \in [Settings!Forms -> Settings!Values] /\ settled' \in [Settings!Forms -> BOOLEAN]
      /\ field'[f] = Settings!Shows(jobs[c].value) /\ settled'[f] = jobs[c].peace
      /\ \A g \in Settings!Forms \ {f} : field'[g] = field[g] /\ settled'[g] = settled[g]
  BY <1>1, <1>2, <1>4
<1>6. SettingsTypes'
  BY <1>1, <1>3, <1>5 DEF SettingsIInv, SettingsTypes, Settings!aboutVars
<1>7. \A k \in Calls : jobs'[k].op \in {"load", "save"} =>
        /\ jobs[k].op = jobs'[k].op /\ jobs'[k] = jobs[k] /\ k # c
        /\ jobs[k].peace = TRUE => jobs[k].form \in Settings!Forms \ {f}
  <2> SUFFICES ASSUME NEW k \in Calls, jobs'[k].op \in {"load", "save"}
               PROVE  /\ jobs[k].op = jobs'[k].op /\ jobs'[k] = jobs[k] /\ k # c
                      /\ jobs[k].peace = TRUE => jobs[k].form \in Settings!Forms \ {f}
    OBVIOUS
  <2>1. k # c /\ jobs'[k] = jobs[k]
    BY <1>3
  <2>2. jobs[k].peace = TRUE => jobs[k].form # f
    BY <1>1, <2>1 DEF SettingsIInv, SettingsPeaceful
  <2>3. jobs[k].form \in Settings!Forms
    BY <1>2 DEF Settings!Job
  <2> QED
    BY <2>1, <2>2, <2>3
<1>8. SettingsPeaceful'
  BY <1>1, <1>5, <1>7 DEF SettingsIInv, SettingsPeaceful
<1>9. SettingsSettles'
  <2> SUFFICES ASSUME NEW g \in Settings!Forms, settled'[g] = TRUE
               PROVE  /\ \A k \in Calls : ~(jobs'[k].op \in {"load", "save"} /\ jobs'[k].form = g)
                      /\ saved'[g] = field'[g] \/ saved'[g] = 0
    BY DEF SettingsSettles
  <2>1. CASE g = f
    <3>1. jobs[c].peace = TRUE
      BY <1>5, <2>1
    <3>2. /\ \A k \in Calls : jobs[k].op \in {"load", "save"} /\ jobs[k].form = f => k = c
          /\ jobs[c].value = saved[f]
      BY <1>1, <3>1 DEF SettingsIInv, SettingsPeaceful
    <3>3. field'[f] = saved[f] \/ saved[f] = 0
      BY <1>5, <3>2 DEF Settings!Shows
    <3> QED
      BY <1>1, <1>7, <2>1, <3>2, <3>3
  <2>2. CASE g # f
    <3>1. settled[g] = TRUE /\ field'[g] = field[g] /\ saved' = saved
      BY <1>1, <1>5, <2>2
    <3> QED
      BY <1>7, <3>1 DEF SettingsIInv, SettingsSettles
  <2> QED
    BY <2>1, <2>2
<1>10. SettingsAbout'
  BY <1>1, <1>3, SettingsAboutKept
<1>11. SettingsBusy'
  <2>1. crossing' \in BOOLEAN
    BY <1>1 DEF SettingsIInv, SettingsTypes
  <2>2. \A k \in Calls : jobs'[k].op \in SettingsSharing => jobs'[k] = jobs[k]
    BY <1>3 DEF SettingsSharing, Settings!BusyOps
  <2> QED
    BY <1>1, <2>1, <2>2, SettingsBusyKept
<1> QED
  BY <1>6, <1>8, <1>9, <1>10, <1>11 DEF SettingsIInv

LEMMA SettingsSaveAnswersIInv == ASSUME SettingsIInv, NEW c \in Calls, Settings!SaveAnswers(c)
                                 PROVE  SettingsIInv'
<1> DEFINE f == jobs[c].form
<1>1. /\ jobs[c].op = "save" /\ jobs[c].stage = "done"
      /\ settled' = [settled EXCEPT ![f] = jobs[c].peace]
      /\ jobs' = [jobs EXCEPT ![c] = Settings!Free]
      /\ UNCHANGED <<section, field, saved, running, crossing, latest, Settings!aboutVars>>
  BY DEF Settings!SaveAnswers
<1>2. /\ jobs \in [Calls -> Settings!Job] /\ settled \in [Settings!Forms -> BOOLEAN]
      /\ jobs[c].peace \in BOOLEAN /\ f \in Settings!Forms
  BY <1>1 DEF SettingsIInv, SettingsTypes, Settings!Job
<1>3. jobs' \in [Calls -> Settings!Job] /\ jobs'[c].op = "none" /\ \A k \in Calls \ {c} : jobs'[k] = jobs[k]
  BY <1>1, SettingsFreedIs
<1>4. /\ settled' \in [Settings!Forms -> BOOLEAN] /\ settled'[f] = jobs[c].peace
      /\ \A g \in Settings!Forms \ {f} : settled'[g] = settled[g]
  BY <1>1, <1>2
<1>5. SettingsTypes'
  BY <1>1, <1>3, <1>4 DEF SettingsIInv, SettingsTypes, Settings!aboutVars
<1>6. \A k \in Calls : jobs'[k].op \in {"load", "save"} => jobs'[k] = jobs[k] /\ k # c
  BY <1>3
<1>7. SettingsPeaceful'
  BY <1>1, <1>6 DEF SettingsIInv, SettingsPeaceful
<1>8. SettingsSettles'
  <2> SUFFICES ASSUME NEW g \in Settings!Forms, settled'[g] = TRUE
               PROVE  /\ \A k \in Calls : ~(jobs'[k].op \in {"load", "save"} /\ jobs'[k].form = g)
                      /\ saved[g] = field[g]  \/ saved[g] = 0
    BY <1>1 DEF SettingsSettles
  <2>1. CASE g = f
    <3>1. jobs[c].peace = TRUE
      BY <1>4, <2>1
    <3>2. /\ \A k \in Calls : jobs[k].op \in {"load", "save"} /\ jobs[k].form = f => k = c
          /\ jobs[c].value = saved[f] /\ jobs[c].value = field[f]
      BY <1>1, <3>1 DEF SettingsIInv, SettingsPeaceful
    <3> QED
      BY <1>6, <2>1, <3>2
  <2>2. CASE g # f
    <3>1. settled[g] = TRUE
      BY <1>4, <2>2
    <3> QED
      BY <1>6, <3>1 DEF SettingsIInv, SettingsSettles
  <2> QED
    BY <2>1, <2>2
<1>9. SettingsAbout'
  BY <1>1, <1>3, SettingsAboutKept
<1>10. SettingsBusy'
  <2>1. crossing' \in BOOLEAN
    BY <1>1 DEF SettingsIInv, SettingsTypes
  <2>2. \A k \in Calls : jobs'[k].op \in SettingsSharing => jobs'[k] = jobs[k]
    BY <1>3 DEF SettingsSharing, Settings!BusyOps
  <2> QED
    BY <1>1, <2>1, <2>2, SettingsBusyKept
<1> QED
  BY <1>5, <1>7, <1>8, <1>9, <1>10 DEF SettingsIInv

\* An end that the forms do not see.
LEMMA SettingsEndIInv ==
    ASSUME SettingsIInv, NEW c \in Calls, jobs' = [jobs EXCEPT ![c] = Settings!Free],
           UNCHANGED <<section, field, saved, settled, running, crossing, latest, Settings!aboutVars>>
    PROVE  SettingsIInv'
<1>1. jobs' \in [Calls -> Settings!Job] /\ jobs'[c].op = "none" /\ \A k \in Calls \ {c} : jobs'[k] = jobs[k]
  BY SettingsFreedIs
<1>2. SettingsTypes'
  BY <1>1 DEF SettingsIInv, SettingsTypes, Settings!aboutVars
<1>3. \A k \in Calls : jobs'[k].op # "none" => jobs'[k] = jobs[k]
  BY <1>1
<1>4. SettingsPeaceful' /\ SettingsSettles'
  BY <1>3, SettingsPeaceKept
<1>5. SettingsAbout'
  BY <1>3, SettingsAboutKept
<1>6. SettingsBusy'
  <2>1. crossing' \in BOOLEAN
    BY DEF SettingsIInv, SettingsTypes
  <2>2. \A k \in Calls : jobs'[k].op \in SettingsSharing => jobs'[k] = jobs[k]
    BY <1>1 DEF SettingsSharing, Settings!BusyOps
  <2> QED
    BY <2>1, <2>2, SettingsBusyKept
<1> QED
  BY <1>2, <1>4, <1>5, <1>6 DEF SettingsIInv

LEMMA SettingsRunIInv ==
    ASSUME SettingsIInv, NEW c \in Calls, NEW op \in SettingsSharing, Settings!Run(c, op),
           crossing' \in BOOLEAN,
           crossing' = FALSE => crossing = FALSE /\ (running = FALSE \/ Settings!Pending = {})
    PROVE  SettingsIInv'
<1>1. /\ jobs[c].op = "none" /\ jobs' = Settings!With(jobs, c, op, "ai", 0) /\ running' = TRUE
      /\ UNCHANGED <<section, field, saved, settled, latest, Settings!aboutVars>>
  BY DEF Settings!Run, Settings!Asks
<1>2. /\ jobs \in [Calls -> Settings!Job] /\ "ai" \in Settings!Forms
      /\ 0 \in Settings!Values \cup 0..Versions
      /\ op \in Settings!Ops \ {"load", "save", "check", "download", "none"}
  BY DEF SettingsIInv, SettingsTypes, Settings!Forms, Settings!Values, Settings!Ops,
         SettingsSharing, Settings!BusyOps
<1>3. SettingsBegins(jobs, c, op, "ai", 0)
  <2>1. op \in Settings!Ops
    BY <1>2
  <2> QED
    BY <1>1, <1>2, <2>1, SettingsWithIs
<1>4. /\ jobs' \in [Calls -> Settings!Job] /\ jobs'[c].op = op
      /\ \A k \in Calls \ {c} :
           /\ jobs'[k].op = jobs[k].op /\ jobs'[k].form = jobs[k].form
           /\ jobs'[k].stage = jobs[k].stage
           /\ jobs'[k].value = jobs[k].value /\ jobs'[k].mine = jobs[k].mine
           /\ jobs'[k].peace = TRUE => jobs[k].peace = TRUE
  BY <1>3 DEF SettingsBegins
<1>5. SettingsTypes'
  BY <1>1, <1>2, <1>4 DEF SettingsIInv, SettingsTypes, Settings!aboutVars
<1>6. SettingsPeaceful' /\ SettingsSettles'
  BY <1>1, <1>2, <1>4, SettingsPeaceKept
<1>7. SettingsAbout'
  BY <1>1, <1>2, <1>4, SettingsAboutKept
<1>8. SettingsBusy'
  <2> SUFFICES ASSUME crossing' = FALSE, NEW m \in Calls, jobs'[m].mine = TRUE,
                      jobs'[m].op \in SettingsSharing
               PROVE  \A k \in Calls : jobs'[k].mine = TRUE /\ jobs'[k].op \in SettingsSharing => k = m
    BY <1>1 DEF SettingsBusy
  <2>1. CASE running = FALSE
    <3>1. \A k \in Calls : ~(jobs[k].mine = TRUE /\ jobs[k].op \in SettingsSharing)
      BY <2>1 DEF SettingsIInv, SettingsBusy
    <3> QED
      BY <1>4, <3>1
  <2>2. CASE Settings!Pending = {}
    <3>1. \A k \in Calls : jobs[k].op = "none"
      BY <2>2 DEF Settings!Pending
    <3> QED
      BY <1>4, <3>1 DEF SettingsSharing, Settings!BusyOps
  <2> QED
    BY <2>1, <2>2
<1> QED
  BY <1>5, <1>6, <1>7, <1>8 DEF SettingsIInv

LEMMA SettingsRunEndsIInv == ASSUME SettingsIInv, NEW c \in Calls, Settings!RunEnds(c)
                             PROVE  SettingsIInv'
<1>1. /\ jobs[c].op \in SettingsSharing /\ jobs[c].mine /\ running' = FALSE
      /\ jobs' = [jobs EXCEPT ![c] = Settings!Free]
      /\ UNCHANGED <<section, field, saved, settled, crossing, latest, Settings!aboutVars>>
  BY DEF Settings!RunEnds, SettingsSharing
<1>2. jobs' \in [Calls -> Settings!Job] /\ jobs'[c].op = "none" /\ \A k \in Calls \ {c} : jobs'[k] = jobs[k]
  BY <1>1, SettingsFreedIs
<1>3. SettingsTypes'
  BY <1>1, <1>2 DEF SettingsIInv, SettingsTypes, Settings!aboutVars
<1>4. \A k \in Calls : jobs'[k].op # "none" => jobs'[k] = jobs[k] /\ k # c
  BY <1>2
<1>5. SettingsPeaceful' /\ SettingsSettles'
  BY <1>1, <1>4, SettingsPeaceKept
<1>6. SettingsAbout'
  BY <1>1, <1>4, SettingsAboutKept
<1>7. jobs[c].mine = TRUE
  BY <1>1 DEF SettingsIInv, SettingsTypes, Settings!Job
<1>8. SettingsBusy'
  BY <1>1, <1>4, <1>7 DEF SettingsIInv, SettingsBusy, SettingsSharing, Settings!BusyOps
<1> QED
  BY <1>3, <1>5, <1>6, <1>8 DEF SettingsIInv

LEMMA SettingsPublishIInv == ASSUME SettingsIInv, Settings!Publish PROVE SettingsIInv'
<1>1. /\ latest < Versions /\ latest' = latest + 1
      /\ UNCHANGED <<section, field, saved, settled, running, crossing, Settings!aboutVars, jobs>>
  BY DEF Settings!Publish
<1>2. SettingsTypes'
  <2>1. Versions \in Nat
    BY SettingsAssumption
  <2>2. latest' \in 1..Versions
    BY <1>1, <2>1 DEF SettingsIInv, SettingsTypes
  <2> QED
    BY <1>1, <2>2 DEF SettingsIInv, SettingsTypes, Settings!aboutVars
<1>3. SettingsPeaceful' /\ SettingsSettles' /\ SettingsAbout' /\ SettingsBusy'
  BY <1>1 DEF SettingsIInv, SettingsPeaceful, SettingsSettles, SettingsAbout, SettingsBusy,
              Settings!aboutVars
<1> QED
  BY <1>2, <1>3 DEF SettingsIInv

LEMMA SettingsCheckIInv == ASSUME SettingsIInv, NEW c \in Calls, Settings!Check(c)
                           PROVE  SettingsIInv'
<1>1. /\ ~checking /\ ~downloading /\ checking' = TRUE /\ update' = 0 /\ localPath' = 0
      /\ jobs[c].op = "none" /\ jobs' = Settings!With(jobs, c, "check", "ai", 0)
      /\ UNCHANGED <<section, field, saved, settled, running, crossing, latest, downloading>>
  BY DEF Settings!Check, Settings!CheckButton, Settings!Asks
<1>2. /\ jobs \in [Calls -> Settings!Job] /\ "ai" \in Settings!Forms
      /\ 0 \in Settings!Values \cup 0..Versions /\ "check" \in Settings!Ops /\ 0 \in 0..Versions
  BY SettingsAssumption DEF SettingsIInv, SettingsTypes, Settings!Forms, Settings!Values,
                            Settings!Ops
<1>3. SettingsBegins(jobs, c, "check", "ai", 0)
  BY <1>1, <1>2, SettingsWithIs
<1>4. /\ jobs' \in [Calls -> Settings!Job] /\ jobs'[c].op = "check" /\ jobs'[c].value = 0
      /\ \A k \in Calls \ {c} :
           /\ jobs'[k].op = jobs[k].op /\ jobs'[k].form = jobs[k].form
           /\ jobs'[k].stage = jobs[k].stage
           /\ jobs'[k].value = jobs[k].value /\ jobs'[k].mine = jobs[k].mine
           /\ jobs'[k].peace = TRUE => jobs[k].peace = TRUE
  BY <1>3 DEF SettingsBegins
<1>5. SettingsTypes'
  BY <1>1, <1>2, <1>4 DEF SettingsIInv, SettingsTypes
<1>6. SettingsPeaceful' /\ SettingsSettles'
  BY <1>1, <1>4, SettingsPeaceKept
<1>7. SettingsAbout'
  <2>1. \A k \in Calls : ~(jobs[k].mine = TRUE /\ jobs[k].op \in {"check", "download"})
    BY <1>1 DEF SettingsIInv, SettingsAbout
  <2> QED
    BY <1>1, <1>4, <2>1 DEF SettingsAbout
<1>8. SettingsBusy'
  <2>1. crossing' \in BOOLEAN
    BY <1>1 DEF SettingsIInv, SettingsTypes
  <2> QED
    BY <1>1, <1>4, <2>1, SettingsBusyKept DEF SettingsSharing, Settings!BusyOps
<1> QED
  BY <1>5, <1>6, <1>7, <1>8 DEF SettingsIInv

LEMMA SettingsDownloadIInv == ASSUME SettingsIInv, NEW c \in Calls, Settings!Download(c)
                              PROVE  SettingsIInv'
<1>1. /\ update # 0 /\ ~downloading /\ localPath = 0 /\ downloading' = TRUE
      /\ jobs[c].op = "none" /\ jobs' = Settings!With(jobs, c, "download", "ai", update)
      /\ UNCHANGED <<section, field, saved, settled, running, crossing, latest, update, localPath, checking>>
  BY DEF Settings!Download, Settings!DownloadButton, Settings!Asks
<1>2. /\ jobs \in [Calls -> Settings!Job] /\ "ai" \in Settings!Forms /\ "download" \in Settings!Ops
      /\ update \in 0..Versions
  BY DEF SettingsIInv, SettingsTypes, Settings!Forms, Settings!Ops
<1>3. SettingsBegins(jobs, c, "download", "ai", update)
  <2>1. update \in Settings!Values \cup 0..Versions
    BY <1>2
  <2> QED
    BY <1>1, <1>2, <2>1, SettingsWithIs
<1>4. /\ jobs' \in [Calls -> Settings!Job] /\ jobs'[c].op = "download" /\ jobs'[c].value = update
      /\ \A k \in Calls \ {c} :
           /\ jobs'[k].op = jobs[k].op /\ jobs'[k].form = jobs[k].form
           /\ jobs'[k].stage = jobs[k].stage
           /\ jobs'[k].value = jobs[k].value /\ jobs'[k].mine = jobs[k].mine
           /\ jobs'[k].peace = TRUE => jobs[k].peace = TRUE
  BY <1>3 DEF SettingsBegins
<1>5. SettingsTypes'
  BY <1>1, <1>2, <1>4 DEF SettingsIInv, SettingsTypes
<1>6. SettingsPeaceful' /\ SettingsSettles'
  BY <1>1, <1>4, SettingsPeaceKept
<1>7. SettingsAbout'
  <2>1. \A k \in Calls : ~(jobs[k].mine = TRUE /\ jobs[k].op \in {"check", "download"})
    BY <1>1 DEF SettingsIInv, SettingsAbout
  <2> QED
    BY <1>1, <1>4, <2>1 DEF SettingsAbout
<1>8. SettingsBusy'
  <2>1. crossing' \in BOOLEAN
    BY <1>1 DEF SettingsIInv, SettingsTypes
  <2> QED
    BY <1>1, <1>4, <2>1, SettingsBusyKept DEF SettingsSharing, Settings!BusyOps
<1> QED
  BY <1>5, <1>6, <1>7, <1>8 DEF SettingsIInv

LEMMA SettingsCheckAnswersIInv == ASSUME SettingsIInv, NEW c \in Calls, Settings!CheckAnswers(c)
                                  PROVE  SettingsIInv'
<1>1. /\ jobs[c].op = "check" /\ jobs[c].mine
      /\ update' = jobs[c].value /\ checking' = FALSE /\ jobs' = [jobs EXCEPT ![c] = Settings!Free]
      /\ UNCHANGED <<section, field, saved, settled, running, crossing, latest, localPath, downloading>>
  BY DEF Settings!CheckAnswers
<1>2. jobs' \in [Calls -> Settings!Job] /\ jobs'[c].op = "none" /\ \A k \in Calls \ {c} : jobs'[k] = jobs[k]
  BY <1>1, SettingsFreedIs
<1>3. jobs[c].mine = TRUE /\ jobs[c].value \in 0..Versions
  BY <1>1 DEF SettingsIInv, SettingsTypes, Settings!Job
<1>4. SettingsTypes'
  BY <1>1, <1>2, <1>3 DEF SettingsIInv, SettingsTypes
<1>5. \A k \in Calls : jobs'[k].op # "none" => jobs'[k] = jobs[k] /\ k # c
  BY <1>2
<1>6. SettingsPeaceful' /\ SettingsSettles'
  BY <1>1, <1>5, SettingsPeaceKept
<1>7. SettingsAbout'
  BY <1>1, <1>3, <1>5 DEF SettingsIInv, SettingsAbout
<1>8. SettingsBusy'
  <2>1. crossing' \in BOOLEAN
    BY <1>1 DEF SettingsIInv, SettingsTypes
  <2>2. \A k \in Calls : jobs'[k].op \in SettingsSharing => jobs'[k] = jobs[k]
    BY <1>2 DEF SettingsSharing, Settings!BusyOps
  <2> QED
    BY <1>1, <2>1, <2>2, SettingsBusyKept
<1> QED
  BY <1>4, <1>6, <1>7, <1>8 DEF SettingsIInv

LEMMA SettingsDownloadAnswersIInv == ASSUME SettingsIInv, NEW c \in Calls,
                                            Settings!DownloadAnswers(c)
                                     PROVE  SettingsIInv'
<1>1. /\ jobs[c].op = "download" /\ jobs[c].mine
      /\ localPath' = IF jobs[c].stage = "done" THEN jobs[c].value ELSE localPath
      /\ downloading' = FALSE /\ jobs' = [jobs EXCEPT ![c] = Settings!Free]
      /\ UNCHANGED <<section, field, saved, settled, running, crossing, latest, update, checking>>
  BY DEF Settings!DownloadAnswers
<1>2. jobs' \in [Calls -> Settings!Job] /\ jobs'[c].op = "none" /\ \A k \in Calls \ {c} : jobs'[k] = jobs[k]
  BY <1>1, SettingsFreedIs
<1>3. jobs[c].mine = TRUE /\ jobs[c].value \in 0..Versions
  BY <1>1 DEF SettingsIInv, SettingsTypes, Settings!Job
<1>4. SettingsTypes'
  BY <1>1, <1>2, <1>3 DEF SettingsIInv, SettingsTypes
<1>5. \A k \in Calls : jobs'[k].op # "none" => jobs'[k] = jobs[k] /\ k # c
  BY <1>2
<1>6. SettingsPeaceful' /\ SettingsSettles'
  BY <1>1, <1>5, SettingsPeaceKept
<1>7. SettingsAbout'
  BY <1>1, <1>3, <1>5 DEF SettingsIInv, SettingsAbout
<1>8. SettingsBusy'
  <2>1. crossing' \in BOOLEAN
    BY <1>1 DEF SettingsIInv, SettingsTypes
  <2>2. \A k \in Calls : jobs'[k].op \in SettingsSharing => jobs'[k] = jobs[k]
    BY <1>2 DEF SettingsSharing, Settings!BusyOps
  <2> QED
    BY <1>1, <2>1, <2>2, SettingsBusyKept
<1> QED
  BY <1>4, <1>6, <1>7, <1>8 DEF SettingsIInv

\* The back end has done what a call asks for.
LEMMA SettingsExecuteIInv == ASSUME SettingsIInv, NEW c \in Calls, Settings!Execute(c)
                             PROVE  SettingsIInv'
<1> DEFINE op == jobs[c].op
<1> DEFINE f == jobs[c].form
<1>1. /\ op # "none" /\ jobs[c].stage = "called"
      /\ UNCHANGED <<section, field, settled, running, crossing, latest, Settings!aboutVars>>
      /\ \/ op = "save" /\ saved' = [saved EXCEPT ![f] = jobs[c].value] /\ jobs' = [jobs EXCEPT ![c].stage = "done"]
         \/ op = "load" /\ jobs' = [jobs EXCEPT ![c].stage = "done", ![c].value = saved[f]] /\ saved' = saved
         \/ op = "check" /\ jobs' = [jobs EXCEPT ![c].stage = "done", ![c].value = latest] /\ saved' = saved
         \/ op \in Settings!BusyOps \cup {"revoke", "download"} /\ jobs' = [jobs EXCEPT ![c].stage = "done"] /\ saved' = saved
         \/ jobs' = [jobs EXCEPT ![c].stage = "failed"] /\ saved' = saved
  BY DEF Settings!Execute, Settings!Pending
<1>2. /\ jobs \in [Calls -> Settings!Job] /\ saved \in [Settings!Forms -> Settings!Values]
      /\ jobs[c] \in Settings!Job /\ f \in Settings!Forms
      /\ latest \in 0..Versions /\ latest \in 1..Versions
  BY SettingsAssumption DEF SettingsIInv, SettingsTypes, Settings!Job
<1>3. PICK x \in Settings!Job :
        /\ jobs' = [jobs EXCEPT ![c] = x]
        /\ x.op = op /\ x.form = f /\ x.mine = jobs[c].mine /\ x.peace = jobs[c].peace
        /\ \/ op = "save" /\ saved' = [saved EXCEPT ![f] = jobs[c].value] /\ x.stage = "done" /\ x.value = jobs[c].value
           \/ op = "load" /\ saved' = saved /\ x.stage = "done" /\ x.value = saved[f]
           \/ op = "check" /\ saved' = saved /\ x.value = latest
           \/ op \notin {"load", "save"} /\ saved' = saved /\ x.value = jobs[c].value
           \/ saved' = saved /\ x.stage = "failed" /\ x.value = jobs[c].value
  <2> DEFINE done == [jobs[c] EXCEPT !.stage = "done"]
  <2> DEFINE failed == [jobs[c] EXCEPT !.stage = "failed"]
  <2> DEFINE with(v) == [jobs[c] EXCEPT !.stage = "done", !.value = v]
  <2>1. /\ done \in Settings!Job /\ done.op = op /\ done.form = f /\ done.mine = jobs[c].mine
        /\ done.peace = jobs[c].peace
        /\ done.stage = "done" /\ done.value = jobs[c].value
    BY <1>2 DEF Settings!Job
  <2>2. /\ failed \in Settings!Job /\ failed.op = op /\ failed.form = f
        /\ failed.mine = jobs[c].mine
        /\ failed.peace = jobs[c].peace /\ failed.stage = "failed" /\ failed.value = jobs[c].value
    BY <1>2 DEF Settings!Job
  <2>3. ASSUME NEW v \in Settings!Values \cup 0..Versions
        PROVE  /\ with(v) \in Settings!Job /\ with(v).op = op /\ with(v).form = f /\ with(v).mine = jobs[c].mine
               /\ with(v).peace = jobs[c].peace /\ with(v).stage = "done" /\ with(v).value = v
    BY <1>2 DEF Settings!Job
  <2>4. saved[f] \in Settings!Values \cup 0..Versions /\ latest \in Settings!Values \cup 0..Versions
    BY <1>2
  <2>5. CASE op = "save" /\ saved' = [saved EXCEPT ![f] = jobs[c].value] /\ jobs' = [jobs EXCEPT ![c].stage = "done"]
    <3>1. jobs' = [jobs EXCEPT ![c] = done]
      BY <2>5
    <3> HIDE DEF done
    <3> QED
      BY <2>1, <2>5, <3>1
  <2>6. CASE op = "load" /\ jobs' = [jobs EXCEPT ![c].stage = "done", ![c].value = saved[f]] /\ saved' = saved
    <3>1. jobs' = [jobs EXCEPT ![c] = with(saved[f])]
      BY <1>2, <2>6
    <3> HIDE DEF with
    <3> QED
      BY <2>3, <2>4, <2>6, <3>1
  <2>7. CASE op = "check" /\ jobs' = [jobs EXCEPT ![c].stage = "done", ![c].value = latest] /\ saved' = saved
    <3>1. jobs' = [jobs EXCEPT ![c] = with(latest)]
      BY <1>2, <2>7
    <3> HIDE DEF with
    <3> QED
      BY <2>3, <2>4, <2>7, <3>1
  <2>8. CASE op \in Settings!BusyOps \cup {"revoke", "download"} /\ jobs' = [jobs EXCEPT ![c].stage = "done"] /\ saved' = saved
    <3>1. jobs' = [jobs EXCEPT ![c] = done] /\ op \notin {"load", "save"}
      BY <2>8 DEF Settings!BusyOps
    <3> HIDE DEF done
    <3> QED
      BY <2>1, <2>8, <3>1
  <2>9. CASE jobs' = [jobs EXCEPT ![c].stage = "failed"] /\ saved' = saved
    <3>1. jobs' = [jobs EXCEPT ![c] = failed]
      BY <2>9
    <3> HIDE DEF failed
    <3> QED
      BY <2>2, <2>9, <3>1
  <2> QED
    BY <1>1, <2>5, <2>6, <2>7, <2>8, <2>9
<1>4. jobs' \in [Calls -> Settings!Job] /\ jobs'[c] = x /\ \A k \in Calls \ {c} : jobs'[k] = jobs[k]
  BY <1>2, <1>3
<1>5. /\ op \in {"load", "save"} => jobs[c].value \in Settings!Values
      /\ op \in {"check", "download"} => jobs[c].value \in 0..Versions
  BY DEF SettingsIInv, SettingsTypes
<1>6. saved' \in [Settings!Forms -> Settings!Values] /\ \A g \in Settings!Forms : saved'[g] # saved[g] => op = "save" /\ g = f
  BY <1>2, <1>3, <1>5
<1>7. /\ op \in {"load", "save"} => x.value \in Settings!Values
      /\ op \in {"check", "download"} => x.value \in 0..Versions
      /\ op \in {"load", "save"} /\ x.stage = "done" => x.value = saved'[f]
      /\ op \in {"save", "download"} => x.value = jobs[c].value
  <2>1. saved[f] \in Settings!Values
    BY <1>2
  <2>2. CASE op = "save" /\ saved' = [saved EXCEPT ![f] = jobs[c].value] /\ x.stage = "done" /\ x.value = jobs[c].value
    BY <1>2, <1>5, <2>2
  <2>3. CASE op = "load" /\ saved' = saved /\ x.stage = "done" /\ x.value = saved[f]
    BY <2>1, <2>3
  <2>4. CASE op = "check" /\ saved' = saved /\ x.value = latest
    BY <1>2, <2>4
  <2>5. CASE op \notin {"load", "save"} /\ saved' = saved /\ x.value = jobs[c].value
    BY <1>5, <2>5
  <2>6. CASE saved' = saved /\ x.stage = "failed" /\ x.value = jobs[c].value
    BY <1>5, <2>6
  <2> QED
    BY <1>3, <2>2, <2>3, <2>4, <2>5, <2>6
<1>8. SettingsTypes'
  BY <1>1, <1>3, <1>4, <1>6, <1>7 DEF SettingsIInv, SettingsTypes, Settings!aboutVars
<1>9. SettingsPeaceful'
  <2>1. SUFFICES ASSUME NEW k \in Calls, jobs'[k].op \in {"load", "save"}, jobs'[k].peace = TRUE
                 PROVE  /\ \A m \in Calls : jobs'[m].op \in {"load", "save"} /\ jobs'[m].form = jobs'[k].form => m = k
                        /\ jobs'[k].stage = "done" => jobs'[k].value = saved'[jobs'[k].form]
                        /\ jobs'[k].op = "save" => jobs'[k].value = field'[jobs'[k].form]
    BY DEF SettingsPeaceful
  <2>2. \A m \in Calls : jobs'[m].op = jobs[m].op /\ jobs'[m].form = jobs[m].form /\ jobs'[m].peace = jobs[m].peace
    BY <1>3, <1>4
  <2>3. /\ \A m \in Calls : jobs[m].op \in {"load", "save"} /\ jobs[m].form = jobs[k].form => m = k
        /\ jobs[k].stage = "done" => jobs[k].value = saved[jobs[k].form]
        /\ jobs[k].op = "save" => jobs[k].value = field[jobs[k].form]
    BY <2>1, <2>2 DEF SettingsIInv, SettingsPeaceful
  <2>4. CASE k = c
    BY <1>1, <1>3, <1>4, <1>7, <2>1, <2>2, <2>3, <2>4
  <2>5. CASE k # c
    <3>1. jobs[k].form \in Settings!Forms
      BY <1>2 DEF Settings!Job
    <3>2. saved'[jobs[k].form] = saved[jobs[k].form]
      BY <1>6, <2>3, <2>5, <3>1
    <3> QED
      BY <1>1, <1>4, <2>2, <2>3, <2>5, <3>2
  <2> QED
    BY <2>4, <2>5
<1>10. SettingsSettles'
  <2> SUFFICES ASSUME NEW g \in Settings!Forms, settled[g] = TRUE
               PROVE  /\ \A k \in Calls : ~(jobs'[k].op \in {"load", "save"} /\ jobs'[k].form = g)
                      /\ saved'[g] = field[g] \/ saved'[g] = 0
    BY <1>1 DEF SettingsSettles
  <2>1. /\ \A k \in Calls : ~(jobs[k].op \in {"load", "save"} /\ jobs[k].form = g)
        /\ saved[g] = field[g] \/ saved[g] = 0
    BY DEF SettingsIInv, SettingsSettles
  <2>2. saved'[g] = saved[g]
    BY <1>6, <2>1
  <2> QED
    BY <1>3, <1>4, <2>1, <2>2
<1>11. SettingsAbout'
  <2>1. \A k \in Calls : /\ jobs'[k].op = jobs[k].op /\ jobs'[k].mine = jobs[k].mine
                         /\ jobs[k].op = "download" => jobs'[k].value = jobs[k].value
    BY <1>3, <1>4, <1>7
  <2> QED
    BY <1>1, <2>1, SettingsAboutKept
<1>12. SettingsBusy'
  <2>1. crossing' \in BOOLEAN /\ running' = running /\ crossing' = crossing
    BY <1>1 DEF SettingsIInv, SettingsTypes
  <2>2. \A k \in Calls : jobs'[k].op = jobs[k].op /\ jobs'[k].mine = jobs[k].mine
    BY <1>3, <1>4
  <2> QED
    BY <2>1, <2>2, SettingsBusyKept
<1> QED
  BY <1>8, <1>9, <1>10, <1>11, <1>12 DEF SettingsIInv

LEMMA SettingsNextIInv == SettingsIInv /\ [Settings!Next]_(Settings!vars) => SettingsIInv'
<1> SUFFICES ASSUME SettingsIInv, [Settings!Next]_(Settings!vars) PROVE SettingsIInv'
  OBVIOUS
<1>1. CASE Settings!Publish
  BY <1>1, SettingsPublishIInv
<1>2. ASSUME NEW v \in Settings!Values, Settings!EditThreshold(v) \/ Settings!EditAiLimit(v)
      PROVE  SettingsIInv'
  <2>1. PICK f \in Settings!Forms : Settings!EditField(f, v)
    BY <1>2 DEF Settings!EditThreshold, Settings!EditAiLimit, Settings!Forms
  <2> QED
    BY <2>1, SettingsEditFieldIInv
<1>3. ASSUME NEW c \in Calls, Settings!OpenPage(c) PROVE SettingsIInv'
  BY <1>3, SettingsOpenPageIInv
<1>4. ASSUME NEW c \in Calls, Settings!SaveAlerts(c) \/ Settings!SaveAi(c) PROVE SettingsIInv'
  <2>1. PICK f \in Settings!Forms : Settings!SaveForm(c, f)
    BY <1>4 DEF Settings!SaveAlerts, Settings!SaveAi, Settings!Forms
  <2> QED
    BY <2>1, SettingsSaveFormIInv
<1>5. ASSUME NEW c \in Calls, Settings!SyncRun(c) \/ Settings!DoExport(c) \/ Settings!DoImport(c)
      PROVE  SettingsIInv'
  <2>1. PICK op \in SettingsSharing : Settings!Run(c, op) /\ running = FALSE /\ crossing' = crossing
    <3>1. "sync" \in SettingsSharing /\ "vault" \in SettingsSharing /\ (~running => running = FALSE)
      BY DEF SettingsSharing, Settings!BusyOps
    <3> QED
      BY <1>5, <3>1 DEF Settings!SyncRun, Settings!DoExport, Settings!DoImport,
                        Settings!SyncButtons, Settings!VaultButtons
  <2>2. crossing \in BOOLEAN
    BY DEF SettingsIInv, SettingsTypes
  <2> QED
    BY <2>1, <2>2, SettingsRunIInv
<1>6. ASSUME NEW c \in Calls, Settings!RevokeDevice(c) PROVE SettingsIInv'
  <2>1. /\ Settings!Run(c, "revoke") /\ crossing' = (crossing \/ Settings!Pending # {})
        /\ "revoke" \in SettingsSharing
    BY <1>6 DEF Settings!RevokeDevice, SettingsSharing
  <2>2. crossing \in BOOLEAN
    BY DEF SettingsIInv, SettingsTypes
  <2>3. crossing' \in BOOLEAN /\ (crossing' = FALSE => crossing = FALSE /\ Settings!Pending = {})
    BY <2>1, <2>2
  <2> QED
    BY <2>1, <2>3, SettingsRunIInv
<1>7. ASSUME NEW c \in Calls, Settings!Check(c) \/ Settings!Download(c) PROVE SettingsIInv'
  BY <1>7, SettingsCheckIInv, SettingsDownloadIInv
<1>8. ASSUME NEW c \in Calls, Settings!Execute(c) PROVE SettingsIInv'
  BY <1>8, SettingsExecuteIInv
<1>9. ASSUME NEW c \in Calls, Settings!Answers(c) PROVE SettingsIInv'
  <2>1. CASE Settings!AlertsLoaded(c) \/ Settings!AiLoaded(c)
    <3>1. PICK f \in Settings!Forms : Settings!LoadAnswers(c, f)
      BY <2>1 DEF Settings!AlertsLoaded, Settings!AiLoaded, Settings!Forms
    <3> QED
      BY <3>1, SettingsLoadAnswersIInv
  <2>2. CASE Settings!SaveAnswers(c)
    BY <2>2, SettingsSaveAnswersIInv
  <2>3. CASE Settings!FormFails(c) \/ Settings!Dropped(c)
    <3>1. /\ jobs' = [jobs EXCEPT ![c] = Settings!Free]
          /\ UNCHANGED <<section, field, saved, settled, running, crossing, latest, Settings!aboutVars>>
      BY <2>3 DEF Settings!FormFails, Settings!Dropped
    <3> QED
      BY <3>1, SettingsEndIInv
  <2>4. CASE Settings!RunEnds(c)
    BY <2>4, SettingsRunEndsIInv
  <2>5. CASE Settings!CheckAnswers(c)
    BY <2>5, SettingsCheckAnswersIInv
  <2>6. CASE Settings!DownloadAnswers(c)
    BY <2>6, SettingsDownloadAnswersIInv
  <2> QED
    BY <1>9, <2>1, <2>2, <2>3, <2>4, <2>5, <2>6 DEF Settings!Answers
<1>10. ASSUME NEW c \in Calls, NEW s \in Sections, Settings!Goto(c, s) PROVE SettingsIInv'
  BY <1>10, SettingsGotoIInv
<1>11. CASE UNCHANGED Settings!vars
  BY <1>11 DEF Settings!vars, Settings!aboutVars, SettingsIInv, SettingsTypes, SettingsPeaceful,
               SettingsSettles, SettingsAbout, SettingsBusy
<1> QED
  BY <1>1, <1>2, <1>3, <1>4, <1>5, <1>6, <1>7, <1>8, <1>9, <1>10, <1>11 DEF Settings!Next

LEMMA SettingsInductive == Settings!Init /\ [][Settings!Next]_(Settings!vars) => []SettingsIInv
BY SettingsInitIInv, SettingsNextIInv, PTL

\* Every variable keeps its type, and every call asks for a value of its kind.
THEOREM SettingsTypeCorrect == Settings!Init /\ [][Settings!Next]_(Settings!vars) => []Settings!TypeOK
<1>1. SettingsIInv => Settings!TypeOK
  BY SettingsAssumption DEF SettingsIInv, SettingsTypes, Settings!TypeOK, Settings!AllSections
<1> QED
  BY <1>1, SettingsInductive, PTL

\* useEffect and save of AlertSection and of the AI form: what the user sees of
\* a form that was left in peace is what the back end has.
THEOREM SettingsFormsStored == Settings!Init /\ [][Settings!Next]_(Settings!vars) => []Settings!FormsAreStored
<1>1. SettingsIInv => Settings!FormsAreStored
  BY DEF SettingsIInv, SettingsTypes, SettingsSettles, Settings!FormsAreStored
<1> QED
  BY <1>1, SettingsInductive, PTL

\* check and download of AboutSection: an answer that is late never pairs an
\* installer with another version.
THEOREM SettingsInstallerOffered == Settings!Init /\ [][Settings!Next]_(Settings!vars) => []Settings!InstallerIsOffered
<1>1. SettingsIInv => Settings!InstallerIsOffered
  BY DEF SettingsIInv, SettingsAbout, Settings!InstallerIsOffered
<1> QED
  BY <1>1, SettingsInductive, PTL

\* The busy flag of the sections of cloud sync and of the Vault keeps their calls apart.
THEOREM SettingsOneRuns == Settings!Init /\ [][Settings!Next]_(Settings!vars) => []Settings!OneRunAtATime
<1>1. SettingsIInv => Settings!OneRunAtATime
  <2> SUFFICES ASSUME SettingsIInv, ~crossing
               PROVE  Settings!Cardinality({c \in Settings!Pending : jobs[c].op \in Settings!BusyOps /\ jobs[c].mine}) <= 1
    BY DEF Settings!OneRunAtATime
  <2> DEFINE S == {c \in Settings!Pending : jobs[c].op \in Settings!BusyOps /\ jobs[c].mine}
  <2>1. \A c, k \in S : c = k
    <3>1. \A c \in S : c \in Calls /\ jobs[c].mine = TRUE /\ jobs[c].op \in SettingsSharing
      BY DEF Settings!Pending, SettingsSharing, SettingsIInv, SettingsTypes, Settings!Job
    <3> QED
      BY <3>1 DEF SettingsIInv, SettingsBusy
  <2> HIDE DEF S
  <2>2. Settings!Cardinality(S) <= 1
    BY <2>1, AtMostOne
  <2> QED
    BY <2>2 DEF S
<1> QED
  BY <1>1, SettingsInductive, PTL

-----------------------------------------------------------------------------
(* Keyboard *)

KeyboardTypes ==
    /\ stored \subseteq Keyboard!Maps /\ (\A m, n \in stored : m = n)
    /\ page \subseteq Keyboard!Maps /\ (\A m, n \in page : m = n)
    /\ recording \subseteq Keyboard!Names /\ (\A a, b \in recording : a = b)
    /\ fired \subseteq Keys \X Keyboard!Names /\ (\A p, q \in fired : p = q)

KeyboardIInv == KeyboardTypes /\ Keyboard!KeysShownWork

LEMMA KeyboardDefaultsAreKeys == \A a \in Keyboard!Names : {Defaults[a]} \subseteq Keys
BY KeyboardAssumption DEF Keyboard!Names, Keyboard!Range

\* The map the window obeys.
LEMMA KeyboardLoadedIsMap ==
    ASSUME KeyboardTypes
    PROVE  /\ Keyboard!loadShortcuts \in Keyboard!Maps
           /\ \A m \in stored, a \in Keyboard!Names : m[a] # {} => Keyboard!loadShortcuts[a] = m[a]
<1>1. \A a \in Keyboard!Names : UNION {old[a] : old \in stored} \subseteq Keys
  BY DEF KeyboardTypes, Keyboard!Maps
<1>2. Keyboard!loadShortcuts \in Keyboard!Maps
  BY <1>1, KeyboardDefaultsAreKeys DEF Keyboard!loadShortcuts, Keyboard!Maps
<1>3. ASSUME NEW m \in stored, NEW a \in Keyboard!Names, m[a] # {}
      PROVE  Keyboard!loadShortcuts[a] = m[a]
  <2>1. stored = {m}
    BY DEF KeyboardTypes
  <2>2. UNION {old[a] : old \in stored} = m[a]
    BY <2>1
  <2> QED
    BY <1>3, <2>2 DEF Keyboard!loadShortcuts
<1> QED
  BY <1>2, <1>3

LEMMA KeyboardInitIInv == Keyboard!Init => KeyboardIInv
BY DEF Keyboard!Init, KeyboardIInv, KeyboardTypes, Keyboard!KeysShownWork

\* A map that is saved is the one that is shown, and the one the window obeys.
LEMMA KeyboardSaveIInv ==
    ASSUME KeyboardIInv, NEW map \in Keyboard!Maps, Keyboard!saveShortcuts(map),
           recording' \in {recording, {}}, fired' = fired
    PROVE  KeyboardIInv'
<1>1. stored' = {map} /\ page' = {map}
  BY DEF Keyboard!saveShortcuts
<1>2. KeyboardTypes'
  BY <1>1 DEF KeyboardIInv, KeyboardTypes
<1>3. \A a \in Keyboard!Names : map[a] # {} => Keyboard!loadShortcuts'[a] = map[a]
  <2> SUFFICES ASSUME NEW a \in Keyboard!Names, map[a] # {}
               PROVE  Keyboard!loadShortcuts'[a] = map[a]
    OBVIOUS
  <2>1. UNION {old[a] : old \in stored'} = map[a]
    BY <1>1
  <2> QED
    BY <2>1 DEF Keyboard!loadShortcuts
<1>4. Keyboard!KeysShownWork'
  BY <1>1, <1>3 DEF Keyboard!KeysShownWork
<1> QED
  BY <1>2, <1>4 DEF KeyboardIInv

LEMMA KeyboardNextIInv == KeyboardIInv /\ [Keyboard!Next]_(Keyboard!vars) => KeyboardIInv'
<1> SUFFICES ASSUME KeyboardIInv, [Keyboard!Next]_(Keyboard!vars) PROVE KeyboardIInv'
  OBVIOUS
<1>0. stored' = stored => Keyboard!loadShortcuts' = Keyboard!loadShortcuts
  BY DEF Keyboard!loadShortcuts
<1>1. CASE Keyboard!OpenShortcuts
  <2>1. /\ page' = {Keyboard!loadShortcuts} /\ UNCHANGED <<stored, recording, fired>>
        /\ Keyboard!loadShortcuts \in Keyboard!Maps
    BY <1>1, KeyboardLoadedIsMap DEF Keyboard!OpenShortcuts, KeyboardIInv
  <2>2. KeyboardTypes'
    BY <2>1 DEF KeyboardIInv, KeyboardTypes
  <2>3. Keyboard!KeysShownWork'
    BY <1>0, <2>1 DEF Keyboard!KeysShownWork
  <2> QED
    BY <2>2, <2>3 DEF KeyboardIInv
<1>2. CASE Keyboard!CloseShortcuts
  BY <1>2 DEF Keyboard!CloseShortcuts, KeyboardIInv, KeyboardTypes, Keyboard!KeysShownWork
<1>3. CASE Keyboard!RecordingCancelled
  BY <1>0, <1>3 DEF Keyboard!RecordingCancelled, KeyboardIInv, KeyboardTypes, Keyboard!KeysShownWork
<1>4. CASE Keyboard!ResetShortcuts
  <2>1. Keyboard!defaultShortcuts \in Keyboard!Maps
    BY KeyboardDefaultsAreKeys DEF Keyboard!defaultShortcuts, Keyboard!Maps
  <2> QED
    BY <1>4, <2>1, KeyboardSaveIInv DEF Keyboard!ResetShortcuts
<1>5. ASSUME NEW a \in Keyboard!Names, Keyboard!Record(a) PROVE KeyboardIInv'
  <2>1. recording' = {a} \ recording /\ UNCHANGED <<stored, page, fired>>
    BY <1>5 DEF Keyboard!Record
  <2> QED
    BY <1>0, <2>1 DEF KeyboardIInv, KeyboardTypes, Keyboard!KeysShownWork
<1>6. ASSUME NEW a \in Keyboard!Names, NEW k \in Keys, Keyboard!RemoveKey(a, k) PROVE KeyboardIInv'
  <2>1. PICK map \in page : Keyboard!saveShortcuts([map EXCEPT ![a] = @ \ {k}]) /\ UNCHANGED <<recording, fired>>
    BY <1>6 DEF Keyboard!RemoveKey
  <2>2. [map EXCEPT ![a] = @ \ {k}] \in Keyboard!Maps
    BY DEF KeyboardIInv, KeyboardTypes, Keyboard!Maps
  <2> QED
    BY <2>1, <2>2, KeyboardSaveIInv
<1>7. ASSUME NEW k \in Keys, Keyboard!KeyRecorded(k) PROVE KeyboardIInv'
  <2>1. PICK map \in page, a \in recording :
          Keyboard!saveShortcuts([map EXCEPT ![a] = @ \cup {k}]) /\ recording' = {} /\ fired' = fired
    BY <1>7 DEF Keyboard!KeyRecorded
  <2>2. [map EXCEPT ![a] = @ \cup {k}] \in Keyboard!Maps
    BY DEF KeyboardIInv, KeyboardTypes, Keyboard!Maps
  <2> QED
    BY <2>1, <2>2, KeyboardSaveIInv
<1>8. ASSUME NEW k \in Keys, Keyboard!KeyPressed(k) PROVE KeyboardIInv'
  <2>1. PICK i \in DOMAIN Actions : fired' = {<<k, Actions[i]>>} /\ UNCHANGED <<stored, page, recording>>
    BY <1>8 DEF Keyboard!KeyPressed
  <2>2. Actions[i] \in Keyboard!Names
    BY DEF Keyboard!Names, Keyboard!Range
  <2> QED
    BY <1>0, <2>1, <2>2 DEF KeyboardIInv, KeyboardTypes, Keyboard!KeysShownWork
<1>9. CASE UNCHANGED Keyboard!vars
  BY <1>0, <1>9 DEF Keyboard!vars, KeyboardIInv, KeyboardTypes, Keyboard!KeysShownWork
<1> QED
  BY <1>1, <1>2, <1>3, <1>4, <1>5, <1>6, <1>7, <1>8, <1>9 DEF Keyboard!Next

LEMMA KeyboardInductive == Keyboard!Init /\ [][Keyboard!Next]_(Keyboard!vars) => []KeyboardIInv
BY KeyboardInitIInv, KeyboardNextIInv, PTL

\* Every variable keeps its type; no more than one map is stored or shown.
THEOREM KeyboardTypeCorrect == Keyboard!Init /\ [][Keyboard!Next]_(Keyboard!vars) => []Keyboard!TypeOK
<1>1. KeyboardIInv => Keyboard!TypeOK
  BY AtMostOne DEF KeyboardIInv, KeyboardTypes, Keyboard!TypeOK
<1> QED
  BY <1>1, KeyboardInductive, PTL

\* loadShortcuts and saveShortcuts: what the page shows is what the window obeys.
THEOREM KeyboardShownKeysWork == Keyboard!Init /\ [][Keyboard!Next]_(Keyboard!vars) => []Keyboard!KeysShownWork
<1>1. KeyboardIInv => Keyboard!KeysShownWork
  BY DEF KeyboardIInv
<1> QED
  BY <1>1, KeyboardInductive, PTL

===============================================================================
