------------------------ MODULE TransferEngine_proofs ------------------------
(* What holds of the transfer engine for any number of tasks, slots, files    *)
(* and chunks.  IInv: where a goroutine is and what its status and its last   *)
(* event are agree, slots are held by those at work, tasks that write the     *)
(* same file know of each other, and a file that is written alone has grown   *)
(* in order from what was kept of it.                                         *)
EXTENDS TransferEngine, FiniteSetTheorems, SequenceTheorems, TLAPS

Elements == {Hole} \cup (({"old"} \cup Sources) \X Nat)
Contents == {Content(s) : s \in Seq(Elements)}
DiskOK == disk \in [Paths -> {Absent} \cup Contents]

Running == {"queued", "files", "stat", "open", "copy", "check"}

\* A task is begun in order; where its goroutine is agrees with its status, and
\* with the last event; while it runs it is in the table.
Phases ==
    \A t \in Tasks :
        /\ t > nextID => pc[t] = "none"
        /\ t <= nextID => pc[t] # "none" /\ job[t] \in Jobs
        /\ pc[t] = "none" => status[t] = "none"
        /\ pc[t] \in Running => status[t] = "running" /\ t \in tasks
        /\ pc[t] \in {"emit", "release", "gone"} => status[t] \in Ended
        /\ shown[t] \in Ended => pc[t] \in {"release", "gone"}

\* The file at work is one of the job, and is written at a path.
AtFile ==
    \A t \in Tasks :
        /\ pc[t] \in {"none", "queued"} => file[t] = 0
        /\ pc[t] = "files" => file[t] <= Len(job[t].files)
        /\ InWork(t) => /\ file[t] \in 1..Len(job[t].files)
                        /\ target[t] \in Paths
        /\ pc[t] \in {"copy", "check"} => There(t)

\* Two tasks that write the same file know of each other.
Crossing ==
    \A t, u \in Tasks :
        t # u /\ InWork(t) /\ InWork(u) /\ target[t] = target[u] => t \in crossed

\* A file that is written alone: where it is continued it ends, and it has
\* grown in order from what was kept.
Alone(t) == InWork(t) /\ t \notin crossed
Growing ==
    \A t \in Tasks : Alone(t) =>
        /\ pc[t] = "open" /\ offset[t] > 0 =>
             There(t) /\ offset[t] = Len(Chunks(t)) /\ offset[t] < Size[Src(t)]
        /\ pc[t] \in {"copy", "check"} =>
             /\ pos[t] <= Size[Src(t)] /\ Len(Chunks(t)) = pos[t]
             /\ IsPrefixOf(kept[t], Original(Src(t))) =>
                  \A i \in 1..pos[t] : Chunks(t)[i] = <<Src(t), i>>
        /\ pc[t] = "check" => pos[t] = Size[Src(t)]

\* The policies other than "overwrite" begin with a path that is free.
Free ==
    \A t \in Tasks :
        Alone(t) /\ pc[t] \in {"stat", "open"} /\ t \notin blind /\ job[t].conflict # "overwrite"
            => ~There(t)

Control == TypeOK /\ DiskOK /\ Phases /\ AtFile
IInv == Control /\ SlotsAreHeld /\ Crossing /\ Growing /\ Free

USE TransferAssumption DEF TransferAssumption

\* A file is there or absent, and has chunks when it is there.
LEMMA FileFacts ==
    ASSUME NEW f \in {Absent} \cup Contents
    PROVE  /\ f = Absent \/ f.there
           /\ f.there => f.chunks \in Seq(Elements) /\ f = Content(f.chunks)
<1>1. CASE f = Absent
  <2>1. ~f.there
    BY <1>1 DEF Absent
  <2> QED
    BY <1>1, <2>1
<1>2. CASE f \in Contents
  <2>1. PICK s \in Seq(Elements) : f = Content(s)
    BY <1>2 DEF Contents
  <2>2. f.there /\ f.chunks = s
    BY <2>1 DEF Content
  <2> QED
    BY <2>1, <2>2
<1> QED
  BY <1>1, <1>2

\* It holds before the first task.
LEMMA InitIInv == Init => IInv
<1> SUFFICES ASSUME Init PROVE IInv
  OBVIOUS
<1> USE DEF Init
<1>1. TypeOK /\ DiskOK
  <2>1. DiskOK
    <3>1. PICK f \in [Names -> Old \cup {Absent}] :
             disk = [p \in Paths |-> IF p[2] = 0 THEN f[p[1]] ELSE Absent]
      OBVIOUS
    <3>2. Old \subseteq Contents
      <4> SUFFICES ASSUME NEW n \in OldLengths
                   PROVE  [i \in 1..n |-> <<"old", i>>] \in Seq(Elements)
        BY DEF Old, Contents
      <4> QED
        BY DEF Elements
    <3>3. \A p \in Paths : p[1] \in Names
      BY DEF Paths
    <3> QED
      BY <3>1, <3>2, <3>3 DEF DiskOK
  <2>2. \A p \in Paths : disk[p] = Absent \/ disk[p].there
    BY <2>1, FileFacts DEF DiskOK
  <2> QED
    BY <2>1, <2>2 DEF TypeOK
<1>2. Phases /\ AtFile /\ Crossing /\ Growing /\ Free
  BY DEF Phases, AtFile, Crossing, Growing, Free, Alone, InWork, Tasks, Ended, Running
<1>3. SlotsAreHeld
  <2>1. Holders = {}
    BY DEF Holders
  <2> QED
    BY <2>1, FS_EmptySet DEF SlotsAreHeld
<1> QED
  BY <1>1, <1>2, <1>3 DEF IInv, Control
-----------------------------------------------------------------------------
(* What a step of the goroutine of t leaves alone *)

\* The other goroutines keep their variables, and stay known as disturbed.
LEMMA OthersKeep ==
    ASSUME TypeOK, NEW t \in Tasks, Run(t) \/ Fails(t), NEW u \in Tasks, u # t
    PROVE  /\ pc'[u] = pc[u] /\ status'[u] = status[u] /\ shown'[u] = shown[u]
           /\ file'[u] = file[u] /\ target'[u] = target[u]
           /\ offset'[u] = offset[u] /\ pos'[u] = pos[u] /\ kept'[u] = kept[u]
           /\ u \in blind' <=> u \in blind
           /\ u \in crossed => u \in crossed'
<1> USE DEF Goto, End, Emit, Begin, Return, fileVars, historyVars, tableVars, taskVars
<1>1. CASE Acquire(t) \/ Stat(t) \/ Check(t) \/ EmitLast(t) \/ Release(t) \/ Fails(t)
  BY <1>1 DEF Acquire, Stat, Check, EmitLast, Release, Fails, TypeOK
<1>2. CASE NextFile(t)
  BY <1>2 DEF NextFile, TypeOK
<1>3. CASE Open(t) \/ Copy(t)
  BY <1>3 DEF Open, Copy, TypeOK
<1> QED
  BY <1>1, <1>2, <1>3 DEF Run, Ask, Finish

\* The table is not touched, and the job stays.
LEMMA TableKept ==
    ASSUME NEW t, Run(t) \/ Fails(t)
    PROVE  UNCHANGED <<nextID, tasks, cancelled, job>>
BY DEF Run, Ask, Finish, Fails, Acquire, NextFile, Stat, Open, Copy, Check, EmitLast, Release, Return,
       tableVars, taskVars

\* A chunk written to a file makes a file.
LEMMA WriteAtType ==
    ASSUME NEW s \in Seq(Elements), NEW k \in Nat \ {0}, NEW c \in Elements
    PROVE  WriteAt(s, k, c) \in Seq(Elements)
<1> DEFINE n == IF k > Len(s) THEN k ELSE Len(s)
<1>1. n \in Nat
  OBVIOUS
<1>2. \A i \in 1..n : (IF i = k THEN c ELSE IF i <= Len(s) THEN s[i] ELSE Hole) \in Elements
  BY DEF Elements
<1> QED
  BY <1>1, <1>2 DEF WriteAt

\* A job lists files.
LEMMA JobFiles ==
    ASSUME NEW j \in Jobs
    PROVE  /\ j.files \in Seq([source : Sources, name : Names]) /\ Len(j.files) \in Nat
           /\ j.conflict \in Policies
<1>1. j \in [files : Seq([source : Sources, name : Names]), conflict : Policies]
  OBVIOUS
<1>2. j.files \in Seq([source : Sources, name : Names]) /\ j.conflict \in Policies
  BY <1>1
<1> QED
  BY <1>2

\* The source of the file at work is one of the job's.
LEMMA SourceOf ==
    ASSUME TypeOK, Phases, AtFile, NEW t \in Tasks, InWork(t)
    PROVE  Src(t) \in Sources /\ Size[Src(t)] \in Nat /\ job[t] \in Jobs
<1>1. job[t] \in Jobs
  BY DEF TypeOK, Phases, InWork, Tasks
<1>2. job[t].files \in Seq([source : Sources, name : Names]) /\ file[t] \in 1..Len(job[t].files)
  BY <1>1, JobFiles DEF AtFile
<1>3. job[t].files[file[t]] \in [source : Sources, name : Names]
  BY <1>2, ElementOfSeq
<1>4. Src(t) \in Sources
  BY <1>3 DEF Src
<1> QED
  BY <1>1, <1>4

\* Only Open and Copy write, at the target of the task; a file that is there
\* stays there.
LEMMA DiskStep ==
    ASSUME Control, NEW t \in Tasks, Run(t) \/ Fails(t)
    PROVE  /\ DiskOK'
           /\ \A p \in Paths : disk'[p] # disk[p] => pc[t] \in {"open", "copy"} /\ p = target[t]
           /\ \A p \in Paths : disk[p].there => disk'[p].there
<1>1. CASE UNCHANGED disk
  BY <1>1 DEF Control, DiskOK
<1>2. ASSUME pc[t] \in {"open", "copy"}, NEW s \in Seq(Elements),
             disk' = [disk EXCEPT ![target[t]] = Content(s)]
      PROVE  /\ DiskOK'
             /\ \A p \in Paths : disk'[p] # disk[p] => p = target[t]
             /\ \A p \in Paths : disk[p].there => disk'[p].there
  <2>1. Content(s) \in Contents /\ Content(s).there
    BY DEF Content, Contents
  <2> QED
    BY <1>2, <2>1 DEF Control, DiskOK
<1>3. CASE Open(t)
  <2> DEFINE old == IF offset[t] = 0 \/ ~There(t) THEN <<>> ELSE Chunks(t)
  <2>1. target[t] \in Paths /\ pc[t] = "open"
    BY <1>3 DEF Open, Control, AtFile, InWork
  <2>2. old \in Seq(Elements)
    BY <2>1, FileFacts DEF Control, DiskOK, There, Chunks
  <2>3. disk' = [disk EXCEPT ![target[t]] = Content(old)]
    BY <1>3 DEF Open
  <2> QED
    BY <1>2, <2>1, <2>2, <2>3
<1>4. CASE Copy(t) /\ disk' # disk
  <2> DEFINE c == <<Src(t), pos[t] + 1>>
             at == IF offset[t] > 0 THEN Len(Chunks(t)) ELSE pos[t]
  <2>1. target[t] \in Paths /\ pc[t] = "copy" /\ There(t)
    BY <1>4 DEF Copy, Control, AtFile, InWork
  <2>2. Chunks(t) \in Seq(Elements)
    BY <2>1, FileFacts DEF Control, DiskOK, There, Chunks
  <2>3. c \in Elements
    <3>1. Src(t) \in Sources
      BY <2>1, SourceOf DEF Control, InWork
    <3> QED
      BY <3>1 DEF Elements, Control, TypeOK
  <2>4. at + 1 \in Nat \ {0}
    BY <2>2 DEF Control, TypeOK
  <2>5. WriteAt(Chunks(t), at + 1, c) \in Seq(Elements)
    BY <2>2, <2>3, <2>4, WriteAtType
  <2>6. disk' = [disk EXCEPT ![target[t]] = Content(WriteAt(Chunks(t), at + 1, c))]
    BY <1>4 DEF Copy
  <2> QED
    BY <1>2, <2>1, <2>5, <2>6
<1> QED
  BY <1>1, <1>3, <1>4 DEF Run, Ask, Finish, Fails, Acquire, NextFile, Stat, Check, EmitLast, Release, Return

-----------------------------------------------------------------------------
(* Slots *)

\* A slot is taken with Acquire and given back with Release, and by nothing else.
LEMMA SlotsStep ==
    ASSUME IInv, [Next]_vars
    PROVE  SlotsAreHeld' /\ slots' \in 0..MaxConcurrent
<1> USE DEF IInv, Control
<1>1. IsFiniteSet(Holders) /\ Cardinality(Holders) \in Nat /\ slots \in Nat
  <2>1. Holders \subseteq Tasks /\ IsFiniteSet(Tasks)
    BY FS_Interval DEF Holders, Tasks
  <2> QED
    BY <2>1, FS_Subset, FS_CardinalityType DEF TypeOK
<1>2. CASE UNCHANGED <<slots, pc>>
  BY <1>1, <1>2 DEF SlotsAreHeld, Holders
<1>3. ASSUME NEW t \in Tasks, UNCHANGED slots, \A u \in Tasks \ {t} : pc'[u] = pc[u],
             (pc[t] \notin {"none", "queued", "gone"}) <=> (pc'[t] \notin {"none", "queued", "gone"})
      PROVE  SlotsAreHeld' /\ slots' \in 0..MaxConcurrent
  <2>1. Holders' = Holders
    BY <1>3 DEF Holders
  <2> QED
    BY <1>1, <1>3, <2>1 DEF SlotsAreHeld
<1>4. ASSUME NEW t \in Tasks, Acquire(t) PROVE SlotsAreHeld' /\ slots' \in 0..MaxConcurrent
  <2>1. Holders' = Holders \cup {t} /\ t \notin Holders
    BY <1>4 DEF Acquire, Goto, Holders, TypeOK
  <2>2. Cardinality(Holders') = Cardinality(Holders) + 1
    BY <1>1, <2>1, FS_AddElement
  <2> QED
    BY <1>1, <1>4, <2>2 DEF Acquire, SlotsAreHeld
<1>5. ASSUME NEW t \in Tasks, Release(t) PROVE SlotsAreHeld' /\ slots' \in 0..MaxConcurrent
  <2>1. Holders' = Holders \ {t} /\ t \in Holders
    BY <1>5 DEF Release, Return, Goto, Holders, TypeOK
  <2>2. Cardinality(Holders') = Cardinality(Holders) - 1
    BY <1>1, <2>1, FS_RemoveElement
  <2>3. Cardinality(Holders') \in Nat
    BY <1>1, <2>1, FS_RemoveElement, FS_CardinalityType
  <2> QED
    BY <1>1, <1>5, <2>2, <2>3 DEF Release, SlotsAreHeld
<1>6. ASSUME NEW t \in Tasks,
             NextFile(t) \/ Stat(t) \/ Open(t) \/ Copy(t) \/ Check(t) \/ EmitLast(t) \/ Fails(t)
      PROVE  SlotsAreHeld' /\ slots' \in 0..MaxConcurrent
  <2>1. \A u \in Tasks \ {t} : pc'[u] = pc[u]
    BY <1>6, OthersKeep DEF Run, Ask, Finish
  <2>2. UNCHANGED slots /\ pc[t] \notin {"none", "queued", "gone"} /\ pc'[t] \notin {"none", "queued", "gone"}
    BY <1>6 DEF NextFile, Stat, Open, Copy, Check, EmitLast, Fails, Begin, Goto, End, TypeOK
  <2> QED
    BY <1>3, <2>1, <2>2
<1>7. ASSUME NEW j \in Jobs, Start(j) PROVE SlotsAreHeld' /\ slots' \in 0..MaxConcurrent
  <2> DEFINE t == nextID + 1
  <2>1. t \in Tasks /\ pc[t] = "none" /\ pc'[t] = "queued" /\ UNCHANGED slots
        /\ \A u \in Tasks \ {t} : pc'[u] = pc[u]
    BY <1>7 DEF Start, Goto, Phases, TypeOK, Tasks
  <2> QED
    BY <1>3, <2>1
<1>8. ASSUME NEW t \in Tasks, Cancel(t) \/ Remove(t) PROVE UNCHANGED <<slots, pc>>
  BY <1>8 DEF Cancel, Remove, rest
<1>9. CASE RemoveFinished \/ UNCHANGED vars
  BY <1>2, <1>9 DEF RemoveFinished, rest, vars
<1> QED
  BY <1>2, <1>4, <1>5, <1>6, <1>7, <1>8, <1>9 DEF Next, Run, Ask, Finish

-----------------------------------------------------------------------------
(* Types, phases and the file at work *)

\* The phases of the goroutine that takes a step.
LEMMA RunPhases ==
    ASSUME IInv, NEW t \in Tasks, Run(t) \/ Fails(t)
    PROVE  Phases'
<1> USE DEF IInv, Control
<1>1. ASSUME NEW u \in Tasks \ {t}
      PROVE  pc'[u] = pc[u] /\ status'[u] = status[u] /\ shown'[u] = shown[u]
  BY OthersKeep
<1>2. UNCHANGED <<nextID, tasks, job>>
  BY TableKept
<1>3. /\ pc[t] # "none" /\ pc'[t] # "none"
      /\ pc'[t] \in Running => status'[t] = "running" /\ t \in tasks
      /\ pc'[t] \in {"emit", "release", "gone"} => status'[t] \in Ended
      /\ shown'[t] \in Ended => pc'[t] \in {"release", "gone"}
  <2> USE DEF Goto, End, Emit, Begin, Phases, TypeOK, Ended, Running
  <2>1. CASE Acquire(t) \/ Stat(t) \/ Check(t) \/ EmitLast(t) \/ Release(t) \/ Fails(t)
    BY <2>1 DEF Acquire, Stat, Check, EmitLast, Release, Return, Fails, taskVars, tableVars
  <2>2. CASE NextFile(t)
    <3>1. pc[t] = "files" /\ status[t] = "running" /\ t \in tasks /\ shown[t] \notin Ended
      BY <2>2 DEF NextFile
    <3>2. CASE (End(t, "done") \/ End(t, "cancelled")) /\ UNCHANGED shown
      BY <3>1, <3>2
    <3>3. CASE Emit(t) /\ UNCHANGED status /\ pc'[t] \in {"files", "stat"}
      BY <3>1, <3>3
    <3> QED
      BY <2>2, <3>1, <3>2, <3>3 DEF NextFile
  <2>3. CASE Open(t) \/ Copy(t)
    BY <2>3 DEF Open, Copy, taskVars, tableVars
  <2> QED
    BY <2>1, <2>2, <2>3 DEF Run, Ask, Finish
<1> QED
  BY <1>1, <1>2, <1>3 DEF Phases, Running, Ended, Tasks

\* The file at work of the goroutine that takes a step.
LEMMA RunAtFile ==
    ASSUME IInv, NEW t \in Tasks, Run(t) \/ Fails(t)
    PROVE  AtFile'
<1> USE DEF IInv, Control
<1>1. ASSUME NEW u \in Tasks \ {t}
      PROVE  pc'[u] = pc[u] /\ file'[u] = file[u] /\ target'[u] = target[u]
  BY OthersKeep
<1>2. UNCHANGED job
  BY TableKept
<1>3. ASSUME NEW u \in Tasks, target[u] \in Paths, There(u), target'[u] = target[u] PROVE There(u)'
  BY <1>3, DiskStep DEF There
<1>4. job[t].files \in Seq([source : Sources, name : Names]) /\ Len(job[t].files) \in Nat
  <2>1. pc[t] # "none"
    BY DEF Run, Ask, Finish, Fails, Acquire, NextFile, Stat, Open, Copy, Check, EmitLast, Release
  <2>2. job[t] \in Jobs
    BY <2>1 DEF Phases, TypeOK, Tasks
  <2> QED
    BY <2>2, JobFiles
<1>5. /\ pc'[t] \notin {"none", "queued"}
      /\ pc'[t] = "files" => file'[t] <= Len(job[t].files)
      /\ InWork(t)' => file'[t] \in 1..Len(job[t].files) /\ target'[t] \in Paths
  <2> USE <1>4 DEF Goto, End, AtFile, InWork, TypeOK
  <2>1. CASE Acquire(t) \/ Stat(t) \/ Check(t) \/ EmitLast(t) \/ Release(t) \/ Fails(t)
    BY <2>1 DEF Acquire, Stat, Check, EmitLast, Release, Return, Fails, fileVars
  <2>2. CASE NextFile(t)
    <3>1. file[t] \in Nat /\ pc[t] = "files" /\ file[t] <= Len(job[t].files)
      BY <2>2 DEF NextFile
    <3>2. CASE pc'[t] \in {"done", "emit"}
      BY <3>2
    <3>3. CASE UNCHANGED pc /\ file' = [file EXCEPT ![t] = @ + 1] /\ file[t] < Len(job[t].files)
      BY <3>1, <3>3
    <3>4. ASSUME NEW p \in Paths, Begin(t, p), file' = [file EXCEPT ![t] = @ + 1],
                 file[t] < Len(job[t].files)
          PROVE  pc'[t] = "stat" /\ file'[t] \in 1..Len(job[t].files) /\ target'[t] \in Paths
      BY <3>1, <3>4 DEF Begin
    <3>5. file[t] < Len(job[t].files) => Wanted(t) \in Paths
      <4> SUFFICES ASSUME file[t] < Len(job[t].files) PROVE Wanted(t) \in Paths
        OBVIOUS
      <4>1. file[t] + 1 \in 1..Len(job[t].files)
        BY <3>1
      <4>2. job[t].files[file[t] + 1] \in [source : Sources, name : Names]
        BY <1>4, <4>1, ElementOfSeq
      <4> QED
        BY <4>2 DEF Wanted, Paths
    <3> QED
      BY <2>2, <3>2, <3>3, <3>4, <3>5 DEF NextFile
  <2>3. CASE Open(t) \/ Copy(t)
    BY <2>3 DEF Open, Copy
  <2> QED
    BY <2>1, <2>2, <2>3 DEF Run, Ask, Finish
<1>6. pc'[t] \in {"copy", "check"} => There(t)'
  <2>1. CASE Open(t)
    <3>1. disk'[target[t]].there /\ target'[t] = target[t]
      <4>1. pc[t] = "open" /\ target[t] \in Paths
        BY <2>1 DEF Open, AtFile, InWork
      <4>2. \E s : disk' = [disk EXCEPT ![target[t]] = Content(s)]
        BY <2>1 DEF Open
      <4> QED
        BY <2>1, <4>1, <4>2 DEF Open, DiskOK, Content
    <3> QED
      BY <3>1 DEF There
  <2>2. CASE Copy(t)
    BY <1>3, <2>2 DEF Copy, AtFile, InWork
  <2>3. CASE ~(Open(t) \/ Copy(t))
    <3>1. pc'[t] \notin {"copy", "check"}
      BY <2>3 DEF Run, Ask, Finish, Acquire, NextFile, Begin, Stat, Check, EmitLast, Release, Return, Fails, Goto, End, TypeOK
    <3> QED
      BY <3>1
  <2> QED
    BY <2>1, <2>2, <2>3
<1>7. ASSUME NEW u \in Tasks \ {t}, pc[u] \in {"copy", "check"} PROVE There(u)'
  BY <1>1, <1>3, <1>7 DEF AtFile, InWork
<1> QED
  BY <1>1, <1>2, <1>4, <1>5, <1>6, <1>7 DEF AtFile, InWork

\* The types after a step of a goroutine.
LEMMA RunTypes ==
    ASSUME IInv, NEW t \in Tasks, Run(t) \/ Fails(t)
    PROVE  TypeOK'
<1> USE DEF IInv, Control
<1>1. slots' \in 0..MaxConcurrent
  BY SlotsStep DEF Next
<1>2. \A p \in Paths : disk'[p] = Absent \/ disk'[p].there
  BY DiskStep, FileFacts DEF DiskOK
<1>3. /\ nextID' \in 0..MaxTasks /\ tasks' \subseteq 1..nextID'
      /\ cancelled' \subseteq Tasks /\ job' \in [Tasks -> Jobs \cup {NoJob}]
  BY TableKept DEF TypeOK
<1>4. /\ pc' \in [Tasks -> {"none", "queued", "files", "stat", "open", "copy", "check",
                           "emit", "release", "gone"}]
      /\ status' \in [Tasks -> {"none", "running"} \cup Ended]
      /\ shown' \in [Tasks -> {"none", "running"} \cup Ended] /\ lastEmit' \subseteq Tasks
  <2> USE DEF Goto, End, Begin
  <2>1. \/ UNCHANGED pc
        \/ \E step \in {"files", "stat", "open", "copy", "check", "emit", "release", "gone"} :
               pc' = [pc EXCEPT ![t] = step]
    BY DEF Run, Ask, Finish, Fails, Acquire, NextFile, Stat, Open, Copy, Check, EmitLast, Release, Return
  <2>2. UNCHANGED status \/ \E s \in Ended : status' = [status EXCEPT ![t] = s]
    BY DEF Run, Ask, Finish, Fails, Acquire, NextFile, Stat, Open, Copy, Check, EmitLast, Release, Return,
           taskVars, Ended
  <2>3. UNCHANGED <<shown, lastEmit>> \/ Emit(t)
    BY DEF Run, Ask, Finish, Fails, Acquire, NextFile, Stat, Open, Copy, Check, EmitLast, Release, Return,
           tableVars
  <2>4. pc' \in [Tasks -> {"none", "queued", "files", "stat", "open", "copy", "check",
                           "emit", "release", "gone"}]
    BY <2>1 DEF TypeOK
  <2>5. status' \in [Tasks -> {"none", "running"} \cup Ended]
    BY <2>2 DEF TypeOK
  <2>6. shown' \in [Tasks -> {"none", "running"} \cup Ended] /\ lastEmit' \subseteq Tasks
    BY <2>3 DEF TypeOK, Emit
  <2> QED
    BY <2>4, <2>5, <2>6
<1>5. /\ file' \in [Tasks -> Nat] /\ offset' \in [Tasks -> Nat] /\ pos' \in [Tasks -> Nat]
      /\ target' \in [Tasks -> Paths \cup {NoPath}]
      /\ crossed' \subseteq Tasks /\ blind' \subseteq Tasks /\ DOMAIN kept' = Tasks
  <2> USE DEF TypeOK
  <2>1. CASE Acquire(t) \/ Check(t) \/ EmitLast(t) \/ Fails(t)
    BY <2>1 DEF Acquire, Check, EmitLast, Fails, fileVars, historyVars
  <2>5. CASE Release(t)
    BY <2>5 DEF Release, Return
  <2>2. CASE NextFile(t)
    <3>1. UNCHANGED <<offset, pos, kept>> /\ blind' \subseteq Tasks
          /\ (UNCHANGED file \/ file' = [file EXCEPT ![t] = @ + 1])
      BY <2>2 DEF NextFile
    <3>2. UNCHANGED <<target, crossed>> \/ \E p \in Paths \cup {Wanted(t)} : Begin(t, p)
      BY <2>2 DEF NextFile
    <3>3. Begin(t, Wanted(t)) => Wanted(t) \in Paths
      <4> SUFFICES ASSUME Begin(t, Wanted(t)) PROVE Wanted(t) \in Paths
        OBVIOUS
      <4>1. InWork(t)' /\ target'[t] = Wanted(t)
        BY DEF Begin, Goto, InWork
      <4> QED
        BY <4>1, RunAtFile DEF AtFile
    <3>4. ASSUME NEW p \in Paths, Begin(t, p)
          PROVE  target' \in [Tasks -> Paths \cup {NoPath}] /\ crossed' \subseteq Tasks
      BY <3>4 DEF Begin, Others
    <3> QED
      BY <3>1, <3>2, <3>3, <3>4
  <2>3. CASE Open(t)
    BY <2>3 DEF Open
  <2>6. CASE Copy(t)
    <3>1. /\ UNCHANGED pos \/ pos' = [pos EXCEPT ![t] = @ + 1]
          /\ UNCHANGED <<file, target, offset, crossed, blind, kept>>
      BY <2>6 DEF Copy, historyVars
    <3> QED
      BY <3>1
  <2>4. CASE Stat(t)
    <3>1. PICK o \in {0} \cup (IF There(t) THEN {Len(Chunks(t))} ELSE {}) :
             offset' = [offset EXCEPT ![t] = IF o < Size[Src(t)] THEN o ELSE 0]
      BY <2>4 DEF Stat
    <3>2. target[t] \in Paths
      BY <2>4 DEF Stat, AtFile, InWork
    <3>3. There(t) => Len(Chunks(t)) \in Nat
      BY <3>2, FileFacts DEF There, Chunks, DiskOK
    <3> QED
      BY <2>4, <3>1, <3>3 DEF Stat, historyVars
  <2> QED
    BY <2>1, <2>2, <2>3, <2>4, <2>5, <2>6 DEF Run, Ask, Finish
<1> QED
  BY <1>1, <1>2, <1>3, <1>4, <1>5 DEF TypeOK

\* The steps that are not of a goroutine: Start, and what the user does.
LEMMA TableControl ==
    ASSUME IInv,
           \/ \E j \in Jobs : Start(j)
           \/ \E t \in Tasks : Cancel(t) \/ Remove(t)
           \/ RemoveFinished \/ UNCHANGED vars
    PROVE  Control'
<1> USE DEF IInv, Control
<1>1. ASSUME NEW j \in Jobs, Start(j) PROVE Control'
  <2> DEFINE n == nextID + 1
  <2>0. n \in Tasks /\ nextID' = n /\ n > nextID
    BY <1>1 DEF Start, TypeOK, Tasks
  <2>1. n \in Tasks /\ pc[n] = "none" /\ nextID' = n /\ shown[n] \notin Ended
    BY <2>0 DEF Phases
  <2>2. /\ pc' = [pc EXCEPT ![n] = "queued"] /\ status' = [status EXCEPT ![n] = "running"]
        /\ job' = [job EXCEPT ![n] = j] /\ tasks' = tasks \cup {n}
        /\ UNCHANGED <<cancelled, lastEmit, slots, fileVars, disk, shown, historyVars>>
    BY <1>1 DEF Start, Goto
  <2>3. TypeOK' /\ DiskOK'
    BY <2>1, <2>2 DEF TypeOK, DiskOK, fileVars, historyVars, Tasks
  <2>4. Phases'
    BY <2>1, <2>2 DEF Phases, TypeOK, Tasks, Running, Ended
  <2>5. AtFile'
    <3>1. file[n] = 0
      BY <2>1 DEF AtFile
    <3> QED
      BY <2>1, <2>2, <3>1 DEF AtFile, InWork, TypeOK, fileVars, There
  <2> QED
    BY <2>3, <2>4, <2>5
<1>2. CASE /\ tasks' \subseteq tasks /\ cancelled' \subseteq Tasks /\ lastEmit' \subseteq Tasks
           /\ UNCHANGED <<nextID, slots, job, fileVars, disk, historyVars, status, pc, shown>>
           /\ \A t \in tasks : status[t] = "running" => t \in tasks'
  <2>1. TypeOK' /\ DiskOK' /\ AtFile'
    BY <1>2 DEF TypeOK, DiskOK, AtFile, InWork, There, fileVars, historyVars
  <2>2. Phases'
    BY <1>2 DEF Phases
  <2> QED
    BY <2>1, <2>2
<1>3. ASSUME NEW t \in Tasks, Cancel(t) \/ Remove(t) PROVE Control'
  BY <1>2, <1>3 DEF Cancel, Remove, Forget, rest, TypeOK
<1>4. CASE RemoveFinished \/ UNCHANGED vars
  BY <1>2, <1>4 DEF RemoveFinished, Forget, rest, TypeOK, vars, tableVars, taskVars
<1> QED
  BY <1>1, <1>3, <1>4

\* Every step keeps the types, the phases and the file at work.
LEMMA ControlStep == ASSUME IInv, [Next]_vars PROVE Control'
<1>1. ASSUME NEW t \in Tasks, Run(t) \/ Fails(t) PROVE Control'
  BY <1>1, RunTypes, RunPhases, RunAtFile, DiskStep DEF IInv, Control
<1> QED
  BY <1>1, TableControl DEF Next

-----------------------------------------------------------------------------
(* The files *)

\* Who begins to write a file and the others who write it know of each other.
LEMMA RunCrossing ==
    ASSUME IInv, NEW t \in Tasks, Run(t) \/ Fails(t)
    PROVE  Crossing'
<1> USE DEF IInv, Control
<1> SUFFICES ASSUME NEW u \in Tasks, NEW v \in Tasks, u # v, InWork(u)', InWork(v)',
                    target'[u] = target'[v]
             PROVE  u \in crossed'
  BY DEF Crossing
<1>1. ASSUME NEW w \in Tasks \ {t}
      PROVE  /\ pc'[w] = pc[w] /\ target'[w] = target[w] /\ (w \in crossed => w \in crossed')
             /\ (InWork(w)' <=> InWork(w))
  BY OthersKeep DEF InWork
<1>2. CASE u # t /\ v # t
  BY <1>1, <1>2 DEF Crossing
<1>3. CASE ~\E p : Begin(t, p)
  <2>1. InWork(t)' => InWork(t) /\ target'[t] = target[t] /\ (t \in crossed => t \in crossed')
    BY <1>3 DEF Run, Ask, Finish, Fails, Acquire, NextFile, Stat, Open, Copy, Check, EmitLast, Release, Return,
           Goto, End, InWork, TypeOK, fileVars, historyVars
  <2> QED
    BY <1>1, <2>1 DEF Crossing
<1>4. ASSUME NEW p, Begin(t, p), u = t \/ v = t PROVE u \in crossed'
  <2>1. target'[t] = p
    <3>1. NextFile(t)
      <4>1. pc'[t] = "stat"
        BY <1>4 DEF Begin, Goto, TypeOK
      <4> QED
        BY <4>1 DEF Run, Ask, Finish, Fails, Acquire, Stat, Open, Copy, Check, EmitLast, Release, Return, Goto, End, TypeOK
    <3> QED
      BY <1>4 DEF Begin, TypeOK
  <2>2. CASE u = t
    <3>1. v \in Others(t, p)
      BY <1>1, <2>1, <2>2 DEF Others
    <3> QED
      BY <1>4, <2>2, <3>1 DEF Begin
  <2>3. CASE v = t
    <3>1. u \in Others(t, p)
      BY <1>1, <2>1, <2>3 DEF Others
    <3> QED
      BY <1>4, <3>1 DEF Begin
  <2> QED
    BY <1>4, <2>2, <2>3
<1> QED
  BY <1>2, <1>3, <1>4

\* The file of a task that writes alone is not touched by another goroutine.
LEMMA AloneKept ==
    ASSUME IInv, NEW t \in Tasks, Run(t) \/ Fails(t), NEW u \in Tasks, u # t, Alone(u)'
    PROVE  Alone(u) /\ disk'[target'[u]] = disk[target[u]] /\ target'[u] = target[u]
<1> USE DEF IInv, Control
<1>1. pc'[u] = pc[u] /\ target'[u] = target[u] /\ (u \in crossed => u \in crossed')
  BY OthersKeep
<1>2. Alone(u) /\ target[u] \in Paths
  BY <1>1 DEF Alone, InWork, AtFile
<1>3. target[u] # target[t] \/ pc[t] \notin {"open", "copy"}
  BY <1>2 DEF Crossing, Alone, InWork
<1> QED
  BY <1>1, <1>2, <1>3, DiskStep

\* A path that begins is free, unless the policy is "overwrite" or was not applied.
LEMMA RunFree ==
    ASSUME IInv, NEW t \in Tasks, Run(t) \/ Fails(t)
    PROVE  Free'
<1> USE DEF IInv, Control
<1> SUFFICES ASSUME NEW u \in Tasks, Alone(u)', pc'[u] \in {"stat", "open"}, u \notin blind',
                    job'[u].conflict # "overwrite"
             PROVE  ~There(u)'
  BY DEF Free
<1>1. UNCHANGED job
  BY TableKept
<1>2. CASE u # t
  <2>1. pc'[u] = pc[u] /\ (u \in blind <=> u \in blind')
    BY <1>2, OthersKeep
  <2> QED
    BY <1>1, <1>2, <2>1, AloneKept DEF Free, There
<1>3. CASE u = t
  <2>1. NextFile(t) \/ Stat(t)
    BY <1>3 DEF Run, Ask, Finish, Fails, Acquire, Open, Copy, Check, EmitLast, Release, Return, Goto, End, TypeOK
  <2>2. CASE Stat(t)
    BY <1>1, <1>3, <2>2 DEF Stat, Free, There, Alone, InWork, historyVars
  <2>3. CASE NextFile(t)
    <3>1. PICK p \in Paths : /\ ~(Clash(t) /\ job[t].conflict = "skip")
                             /\ Resolved(t, p) /\ Begin(t, p)
      <4>1. pc[t] = "files" /\ (pc'[t] = "stat" \/ pc'[t] = "open")
        BY <1>3, <2>3 DEF NextFile
      <4> QED
        BY <1>3, <2>3, <4>1 DEF NextFile, End, Goto, TypeOK
    <3>2. target'[t] = p /\ disk' = disk
      BY <2>3, <3>1 DEF NextFile, Begin, TypeOK
    <3>3. job[t].conflict \in Policies
      <4>1. pc[t] # "none"
        BY <2>3 DEF NextFile
      <4> QED
        BY <4>1, JobFiles DEF Phases, TypeOK, Tasks
    <3>4. ~disk[p].there
      BY <1>1, <1>3, <3>1, <3>3 DEF Resolved, Clash, Policies
    <3> QED
      BY <1>3, <3>2, <3>4 DEF There
  <2> QED
    BY <2>1, <2>2, <2>3
<1> QED
  BY <1>2, <1>3

\* A chunk written at the end of a file is appended.
LEMMA WriteAtEnd ==
    ASSUME NEW s \in Seq(Elements), NEW c \in Elements, NEW w, w = WriteAt(s, Len(s) + 1, c)
    PROVE  Len(w) = Len(s) + 1 /\ w[Len(s) + 1] = c /\ \A i \in 1..Len(s) : w[i] = s[i]
<1> DEFINE n == Len(s) + 1
<1>1. w \in Seq(Elements) /\ n \in Nat
  BY WriteAtType
<1>2. w = [i \in 1..n |-> IF i = n THEN c ELSE IF i <= Len(s) THEN s[i] ELSE Hole]
  BY DEF WriteAt
<1>3. Len(w) = n
  BY <1>1, <1>2
<1> QED
  BY <1>1, <1>2, <1>3

\* What a prefix of a source is.
LEMMA PrefixOfSource ==
    ASSUME NEW s, Len(s) \in Nat, NEW src \in Sources, Len(s) <= Size[src], IsPrefixOf(s, Original(src))
    PROVE  \A i \in 1..Len(s) : s[i] = <<src, i>>
<1>1. Size[src] \in Nat
  OBVIOUS
<1>2. \A i \in 1..Len(s) : i \in 1..Size[src] /\ s[i] = Original(src)[i]
  BY <1>1 DEF IsPrefixOf
<1> QED
  BY <1>2 DEF Original

\* A file that is written alone grows in order.
LEMMA RunGrowing ==
    ASSUME IInv, NEW t \in Tasks, Run(t) \/ Fails(t)
    PROVE  Growing'
<1> USE DEF IInv, Control
<1> DEFINE Grown(u) ==
             /\ pc[u] = "open" /\ offset[u] > 0 =>
                  There(u) /\ offset[u] = Len(Chunks(u)) /\ offset[u] < Size[Src(u)]
             /\ pc[u] \in {"copy", "check"} =>
                  /\ pos[u] <= Size[Src(u)] /\ Len(Chunks(u)) = pos[u]
                  /\ IsPrefixOf(kept[u], Original(Src(u))) =>
                       \A i \in 1..pos[u] : Chunks(u)[i] = <<Src(u), i>>
             /\ pc[u] = "check" => pos[u] = Size[Src(u)]
<1> SUFFICES ASSUME NEW u \in Tasks, Alone(u)' PROVE Grown(u)'
  BY DEF Growing
<1>1. UNCHANGED job
  BY TableKept
<1>2. CASE u # t
  <2>1. /\ pc'[u] = pc[u] /\ file'[u] = file[u] /\ target'[u] = target[u]
        /\ offset'[u] = offset[u] /\ pos'[u] = pos[u] /\ kept'[u] = kept[u]
    BY <1>2, OthersKeep
  <2>2. Grown(u) /\ disk'[target'[u]] = disk[target[u]]
    BY <1>2, AloneKept DEF Growing
  <2>3. Src(u)' = Src(u) /\ Chunks(u)' = Chunks(u) /\ There(u)' = There(u)
    BY <1>1, <2>1, <2>2 DEF Src, Chunks, There
  <2> QED
    BY <2>1, <2>2, <2>3
<1>3. CASE u = t /\ ~(Stat(t) \/ Open(t) \/ Copy(t))
  <2>1. pc'[t] \notin {"open", "copy", "check"}
    BY <1>3 DEF Run, Ask, Finish, Fails, Acquire, NextFile, Begin, Check, EmitLast, Release, Return, Goto, End,
           TypeOK, Alone, InWork
  <2> QED
    BY <1>3, <2>1
<1>4. ASSUME Stat(t) \/ Open(t) \/ Copy(t)
      PROVE  /\ InWork(t) /\ target[t] \in Paths /\ Src(t) \in Sources /\ Size[Src(t)] \in Nat
             /\ UNCHANGED <<file, target, crossed>> /\ Src(t)' = Src(t)
             /\ offset[t] \in Nat /\ pos[t] \in Nat
             /\ There(t) => Chunks(t) \in Seq(Elements)
  <2>1. InWork(t) /\ target[t] \in Paths /\ UNCHANGED <<file, target, crossed>>
    BY <1>4 DEF Stat, Open, Copy, InWork, AtFile, historyVars
  <2>2. Src(t)' = Src(t)
    BY <1>1, <2>1 DEF Src
  <2>3. There(t) => Chunks(t) \in Seq(Elements)
    BY <2>1, FileFacts DEF There, Chunks, DiskOK
  <2> QED
    BY <2>1, <2>2, <2>3, SourceOf DEF TypeOK
<1>5. CASE u = t /\ Stat(t)
  <2>1. PICK o \in {0} \cup (IF There(t) THEN {Len(Chunks(t))} ELSE {}) :
           offset' = [offset EXCEPT ![t] = IF o < Size[Src(t)] THEN o ELSE 0]
    BY <1>5 DEF Stat
  <2>2. pc'[t] = "open" /\ UNCHANGED disk
    BY <1>5 DEF Stat, Goto, TypeOK
  <2>3. There(t)' = There(t) /\ Chunks(t)' = Chunks(t)
    BY <1>4, <1>5, <2>2 DEF There, Chunks
  <2>4. offset'[t] = IF o < Size[Src(t)] THEN o ELSE 0
    BY <2>1 DEF TypeOK
  <2> QED
    BY <1>4, <1>5, <2>1, <2>2, <2>3, <2>4
<1>6. CASE u = t /\ Open(t)
  <2> DEFINE old == IF offset[t] = 0 \/ ~There(t) THEN <<>> ELSE Chunks(t)
  <2>1. pc'[t] = "copy" /\ pos'[t] = offset[t] /\ kept'[t] = old
        /\ disk' = [disk EXCEPT ![target[t]] = Content(old)]
    BY <1>6 DEF Open, Goto, TypeOK
  <2>2. Alone(t) /\ pc[t] = "open"
    BY <1>4, <1>6 DEF Alone, Open
  <2>3. offset[t] > 0 => There(t) /\ offset[t] = Len(Chunks(t)) /\ offset[t] < Size[Src(t)]
    BY <2>2 DEF Growing
  <2>4. Len(old) = offset[t] /\ offset[t] <= Size[Src(t)]
    BY <1>4, <1>6, <2>3
  <2>5. Chunks(t)' = old
    BY <1>4, <1>6, <2>1 DEF Chunks, DiskOK, Content
  <2>6. IsPrefixOf(old, Original(Src(t))) => \A i \in 1..offset[t] : old[i] = <<Src(t), i>>
    <3> HIDE DEF old
    <3> QED
      BY <1>4, <1>6, <2>4, PrefixOfSource
  <2> HIDE DEF old
  <2>7. /\ pos'[t] <= Size[Src(t)'] /\ Len(Chunks(t)') = pos'[t]
        /\ IsPrefixOf(kept'[t], Original(Src(t)')) =>
             \A i \in 1..pos'[t] : Chunks(t)'[i] = <<Src(t)', i>>
    BY <1>4, <1>6, <2>1, <2>4, <2>5, <2>6
  <2> QED
    BY <1>6, <2>1, <2>7 DEF Original, IsPrefixOf
<1>7. CASE u = t /\ Copy(t)
  <2>1. Alone(t) /\ pc[t] = "copy" /\ There(t) /\ UNCHANGED kept
    BY <1>4, <1>7 DEF Alone, Copy, AtFile, historyVars
  <2>2. /\ pos[t] <= Size[Src(t)] /\ Len(Chunks(t)) = pos[t]
        /\ IsPrefixOf(kept[t], Original(Src(t))) =>
             \A i \in 1..pos[t] : Chunks(t)[i] = <<Src(t), i>>
    BY <2>1 DEF Growing
  <2>3. CASE pc'[t] = "emit"
    BY <1>7, <2>3 DEF Alone, InWork
  <2>4. CASE UNCHANGED <<pos, disk>> /\ pos[t] = Size[Src(t)] /\ pc'[t] = "check"
    <3>1. Chunks(t)' = Chunks(t)
      BY <1>4, <1>7, <2>4 DEF Chunks
    <3>2. /\ pos'[t] <= Size[Src(t)'] /\ Len(Chunks(t)') = pos'[t] /\ pos'[t] = Size[Src(t)']
          /\ IsPrefixOf(kept'[t], Original(Src(t)')) =>
               \A i \in 1..pos'[t] : Chunks(t)'[i] = <<Src(t)', i>>
      BY <1>4, <1>7, <2>1, <2>2, <2>4, <3>1
    <3> QED
      BY <1>7, <2>4, <3>2 DEF Original, IsPrefixOf
  <2>5. CASE /\ pos[t] < Size[Src(t)] /\ UNCHANGED pc /\ pos' = [pos EXCEPT ![t] = @ + 1]
             /\ LET c == <<Src(t), pos[t] + 1>>
                    at == IF offset[t] > 0 THEN Len(Chunks(t)) ELSE pos[t]
                IN  disk' = [disk EXCEPT ![target[t]] = Content(WriteAt(Chunks(t), at + 1, c))]
    <3> DEFINE s == Chunks(t)
               c == <<Src(t), pos[t] + 1>>
               w == WriteAt(s, Len(s) + 1, c)
    <3>1. disk' = [disk EXCEPT ![target[t]] = Content(w)]
      BY <2>2, <2>5
    <3>2. s \in Seq(Elements) /\ c \in Elements
      BY <1>4, <1>7, <2>1 DEF Elements
    <3>3. Len(w) = pos[t] + 1 /\ w[pos[t] + 1] = c /\ \A i \in 1..pos[t] : w[i] = s[i]
      <4>1. Len(s) = pos[t] /\ w = WriteAt(s, Len(s) + 1, c)
        BY <2>2
      <4> HIDE DEF s, c, w
      <4> QED
        BY <3>2, <4>1, WriteAtEnd
    <3>4. Chunks(t)' = w
      BY <1>4, <1>7, <3>1 DEF Chunks, DiskOK, Content
    <3>5. pos'[t] = pos[t] + 1 /\ pc'[t] = "copy"
      BY <2>1, <2>5 DEF TypeOK
    <3> HIDE DEF w
    <3>6. \A i \in 1..(pos[t] + 1) : i = pos[t] + 1 \/ i \in 1..pos[t]
      BY <1>4, <1>7
    <3>7. /\ pos'[t] <= Size[Src(t)'] /\ Len(Chunks(t)') = pos'[t]
          /\ IsPrefixOf(kept'[t], Original(Src(t)')) =>
               \A i \in 1..pos'[t] : Chunks(t)'[i] = <<Src(t)', i>>
      <4>1. pos'[t] <= Size[Src(t)'] /\ Len(Chunks(t)') = pos'[t]
        BY <1>4, <1>7, <2>5, <3>3, <3>4, <3>5
      <4> SUFFICES ASSUME IsPrefixOf(kept[t], Original(Src(t))), NEW i \in 1..(pos[t] + 1)
                   PROVE  w[i] = <<Src(t), i>>
        BY <1>4, <1>7, <2>1, <3>4, <3>5, <4>1
      <4> QED
        BY <2>2, <3>3, <3>6
    <3> QED
      BY <1>7, <3>5, <3>7 DEF Original, IsPrefixOf
  <2> QED
    BY <1>7, <2>3, <2>4, <2>5 DEF Copy, End, Goto, TypeOK
<1> QED
  BY <1>2, <1>3, <1>5, <1>6, <1>7 DEF Run, Ask, Finish, Fails

\* Start and the user do not touch the files at work.
LEMMA TableFiles ==
    ASSUME IInv,
           \/ \E j \in Jobs : Start(j)
           \/ \E t \in Tasks : Cancel(t) \/ Remove(t)
           \/ RemoveFinished \/ UNCHANGED vars
    PROVE  Crossing' /\ Growing' /\ Free'
<1> USE DEF IInv, Control
<1>1. UNCHANGED <<fileVars, disk, historyVars>>
  BY DEF Start, Cancel, Remove, RemoveFinished, rest, vars
<1>2. ASSUME NEW u \in Tasks, InWork(u)' PROVE pc'[u] = pc[u] /\ job'[u] = job[u]
  <2>1. ASSUME NEW j \in Jobs, Start(j) PROVE pc'[u] = pc[u] /\ job'[u] = job[u]
    BY <1>2, <2>1 DEF Start, Goto, TypeOK, InWork
  <2> QED
    BY <2>1 DEF Cancel, Remove, RemoveFinished, rest, vars, taskVars
<1>3. ASSUME NEW u \in Tasks, InWork(u)'
      PROVE  /\ InWork(u) /\ Src(u)' = Src(u) /\ Chunks(u)' = Chunks(u) /\ There(u)' = There(u)
             /\ target'[u] = target[u] /\ offset'[u] = offset[u] /\ pos'[u] = pos[u] /\ kept'[u] = kept[u]
  BY <1>1, <1>2, <1>3 DEF InWork, Src, Chunks, There, fileVars, historyVars
<1>4. UNCHANGED <<crossed, blind>>
  BY <1>1 DEF historyVars
<1>5. Crossing'
  BY <1>3, <1>4 DEF Crossing
<1>6. Free'
  BY <1>2, <1>3, <1>4 DEF Free, Alone
<1>7. Growing'
  <2> SUFFICES ASSUME NEW u \in Tasks, Alone(u)'
               PROVE  /\ pc'[u] = "open" /\ offset'[u] > 0 =>
                           /\ There(u)' /\ offset'[u] = Len(Chunks(u)') /\ offset'[u] < Size[Src(u)']
                      /\ pc'[u] \in {"copy", "check"} =>
                           /\ pos'[u] <= Size[Src(u)'] /\ Len(Chunks(u)') = pos'[u]
                           /\ IsPrefixOf(kept'[u], Original(Src(u)')) =>
                                \A i \in 1..pos'[u] : Chunks(u)'[i] = <<Src(u)', i>>
                      /\ pc'[u] = "check" => pos'[u] = Size[Src(u)']
    BY DEF Growing, IsPrefixOf, Original
  <2>1. InWork(u)' /\ Alone(u)
    BY <1>3, <1>4 DEF Alone
  <2> QED
    BY <1>2, <1>3, <2>1 DEF Growing
<1> QED
  BY <1>5, <1>6, <1>7

-----------------------------------------------------------------------------
(* Theorems *)

\* Every step keeps the invariant.
LEMMA NextIInv == IInv /\ [Next]_vars => IInv'
<1> SUFFICES ASSUME IInv, [Next]_vars PROVE IInv'
  OBVIOUS
<1>1. Control' /\ SlotsAreHeld'
  BY ControlStep, SlotsStep
<1>2. ASSUME NEW t \in Tasks, Run(t) \/ Fails(t) PROVE Crossing' /\ Growing' /\ Free'
  BY <1>2, RunCrossing, RunGrowing, RunFree
<1>3. Crossing' /\ Growing' /\ Free'
  BY <1>2, TableFiles DEF Next
<1> QED
  BY <1>1, <1>3 DEF IInv

\* It holds in every state of a behaviour.
LEMMA SpecIInv == Spec => []IInv
BY InitIInv, NextIInv, PTL DEF Spec

\* The table, the slots, every task and every file of the engine keep their type.
THEOREM TransferTypeCorrect == Spec => []TypeOK
<1>1. IInv => TypeOK
  BY DEF IInv, Control
<1> QED
  BY <1>1, SpecIInv, PTL

\* The semaphore of NewEngine: as many slots are taken as there are tasks at work, and
\* never more than MaxConcurrent, whatever fails or is cancelled.
THEOREM SlotsMatchWork == Spec => []SlotsAreHeld
<1>1. IInv => SlotsAreHeld
  BY DEF IInv
<1> QED
  BY <1>1, SpecIInv, PTL

\* copyLoop: a file of any size that no other task writes meanwhile has arrived whole
\* when its size is checked.
THEOREM FilesArrive == Spec => []FileArrives
<1>1. IInv => FileArrives
  <2> SUFFICES ASSUME IInv, NEW t \in Tasks, pc[t] = "check", t \notin crossed,
                      IsPrefixOf(kept[t], Original(Src(t)))
               PROVE  Chunks(t) = Original(Src(t))
    BY DEF FileArrives
  <2>1. InWork(t) /\ Alone(t) /\ target[t] \in Paths /\ There(t)
    BY DEF InWork, Alone, IInv, Control, AtFile
  <2>2. Size[Src(t)] \in Nat
    BY <2>1, SourceOf DEF IInv, Control
  <2>3. Chunks(t) \in Seq(Elements)
    BY <2>1, FileFacts DEF There, Chunks, IInv, Control, DiskOK
  <2>4. Len(Chunks(t)) = Size[Src(t)] /\ \A i \in 1..Size[Src(t)] : Chunks(t)[i] = <<Src(t), i>>
    BY <2>1 DEF IInv, Growing
  <2>5. Chunks(t) = [i \in 1..Size[Src(t)] |-> Chunks(t)[i]]
    BY <2>2, <2>3, <2>4
  <2> QED
    BY <2>4, <2>5 DEF Original
<1> QED
  BY <1>1, SpecIInv, PTL

\* resolveConflict: under "skip" and "rename" what a task is about to open is not
\* there, unless it could not look or another task made it since.
THEOREM ExistingFilesAreKept == Spec => []ExistingIsKept
<1>1. IInv => ExistingIsKept
  BY DEF IInv, Free, ExistingIsKept, Alone, InWork
<1> QED
  BY <1>1, SpecIInv, PTL

\* RemoveTask and RemoveFinished: a task that runs stays in the table, with the
\* cancellation the user asked for.
THEOREM RunningTasksStay == Spec => RunningIsKept
<1> DEFINE Stay == \A t \in Tasks : status'[t] = "running" =>
                      t \in tasks' /\ (t \in cancelled => t \in cancelled')
<1>1. IInv /\ IInv' /\ [Next]_vars => [Stay]_vars
  <2> SUFFICES ASSUME IInv, IInv', Next, NEW t \in Tasks, status'[t] = "running"
               PROVE  t \in tasks' /\ (t \in cancelled => t \in cancelled')
    OBVIOUS
  <2>1. t \in tasks'
    <3>1. pc'[t] \in Running
      BY DEF IInv, Control, TypeOK, Phases, Running, Ended
    <3> QED
      BY <3>1 DEF IInv, Control, Phases
  <2>2. t \in cancelled => t \in cancelled'
    <3>1. ASSUME NEW u \in Tasks, Run(u) \/ Fails(u) PROVE UNCHANGED cancelled
      BY <3>1, TableKept
    <3>2. ASSUME NEW u \in Tasks, Remove(u) PROVE u # t /\ cancelled' = cancelled \ {u}
      BY <3>2 DEF Remove, Forget
    <3>3. CASE RemoveFinished
      BY <3>3 DEF RemoveFinished, Forget
    <3>4. ASSUME NEW u \in Tasks, Cancel(u) PROVE cancelled' = cancelled \cup {u}
      BY <3>4 DEF Cancel
    <3>5. ASSUME NEW j \in Jobs, Start(j) PROVE UNCHANGED cancelled
      BY <3>5 DEF Start
    <3> QED
      BY <3>1, <3>2, <3>3, <3>4, <3>5 DEF Next
  <2> QED
    BY <2>1, <2>2
<1> QED
  BY <1>1, SpecIInv, PTL DEF Spec, RunningIsKept

\* emit: the event that ends a task is its last; the window is not told anything else
\* of it afterwards.
THEOREM EndIsTheLastEvent == Spec => LastEventIsLast
<1> DEFINE Last == \A t \in Tasks : shown[t] \in Ended => shown'[t] = shown[t]
<1>1. IInv /\ [Next]_vars => [Last]_vars
  <2> SUFFICES ASSUME IInv, Next, NEW t \in Tasks, shown[t] \in Ended PROVE shown'[t] = shown[t]
    OBVIOUS
  <2>1. pc[t] \in {"release", "gone"}
    BY DEF IInv, Control, Phases
  <2>2. ASSUME NEW u \in Tasks, Run(u) \/ Fails(u) PROVE shown'[t] = shown[t]
    <3>1. CASE u # t
      BY <2>2, <3>1, OthersKeep DEF IInv, Control
    <3>2. CASE u = t
      BY <2>1, <2>2, <3>2 DEF Run, Ask, Finish, Fails, Acquire, NextFile, Stat, Open, Copy, Check, EmitLast, Release, Return
    <3> QED
      BY <3>1, <3>2
  <2> QED
    BY <2>2 DEF Next, Start, Cancel, Remove, RemoveFinished
<1> QED
  BY <1>1, SpecIInv, PTL DEF Spec, LastEventIsLast
=============================================================================
