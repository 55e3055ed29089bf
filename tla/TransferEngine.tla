--------------------------- MODULE TransferEngine ---------------------------
(***************************************************************************)
(* The transfer engine, internal/transfer/engine.go: a goroutine for each    *)
(* upload or download, at most MaxConcurrent of them at work, with conflict  *)
(* policies, resumption, cancellation and removal of finished tasks.  Uploads *)
(* and downloads run the same steps with the two sides exchanged; "disk" is   *)
(* the side written to.  Chunks and the files being read do not change.      *)
(***************************************************************************)
EXTENDS Naturals, Sequences, FiniteSets

CONSTANTS
    MaxTasks,               \* bound: tasks started
    MaxConcurrent,          \* transfers at work at a time (3 in the code)
    MaxRename,              \* bound: numbers tried by the policy "rename"
    Sources,                \* files that are read, ...
    Size,                   \* ... and how many chunks each has
    Names,                  \* names of files that are written
    OldLengths,             \* lengths that files there before may have
    Jobs                    \* what may be asked for: files in order, conflict policy

Policies == {"overwrite", "skip", "rename"}

ASSUME TransferAssumption ==
    /\ MaxTasks \in Nat /\ MaxConcurrent \in Nat \ {0} /\ MaxRename \in Nat
    /\ Size \in [Sources -> Nat] /\ OldLengths \subseteq Nat
    /\ Jobs \subseteq [files : Seq([source : Sources, name : Names]), conflict : Policies]

Tasks == 1..MaxTasks
Paths == Names \X (0..MaxRename)    \* <<name, n>> is "name (n)"
NoPath == <<>>
Absent == [there |-> FALSE]
Content(s) == [there |-> TRUE, chunks |-> s]
Original(src) == [i \in 1..Size[src] |-> <<src, i>>]
Hole == <<>>                        \* what a gap in a file reads as

VARIABLES
    \* the Engine structure, guarded by e.mu
    nextID, tasks, cancelled, lastEmit,
    slots,                  \* the semaphore: places taken
    job, status,            \* of each task; status is written without the lock
    \* the goroutine of each task: next step, file, where it is written,
    \* offset, chunks transferred of the file
    pc, file, target, offset, pos,
    disk,                   \* the files on the written side
    shown,                  \* status in the last progress event of each task
    \* history of the file being written: another task wrote it too, the conflict
    \* policy was not applied, and what was in it that was kept
    crossed, blind, kept

tableVars == <<nextID, tasks, cancelled, lastEmit>>
taskVars == <<job, status>>
fileVars == <<file, target, offset, pos>>
historyVars == <<crossed, blind, kept>>
vars == <<tableVars, slots, taskVars, pc, fileVars, disk, shown, historyVars>>

Ended == {"done", "error", "cancelled"}
NoJob == [files |-> <<>>, conflict |-> "skip"]

TypeOK ==
    /\ nextID \in 0..MaxTasks /\ tasks \subseteq 1..nextID
    /\ cancelled \subseteq Tasks /\ lastEmit \subseteq Tasks
    /\ slots \in 0..MaxConcurrent
    /\ job \in [Tasks -> Jobs \cup {NoJob}]
    /\ status \in [Tasks -> {"none", "running"} \cup Ended]
    /\ pc \in [Tasks -> {"none", "queued", "files", "stat", "open", "copy", "check",
                         "emit", "release", "gone"}]
    /\ file \in [Tasks -> Nat] /\ target \in [Tasks -> Paths \cup {NoPath}]
    /\ offset \in [Tasks -> Nat] /\ pos \in [Tasks -> Nat]
    /\ \A p \in Paths : disk[p] = Absent \/ disk[p].there
    /\ shown \in [Tasks -> {"none", "running"} \cup Ended]
    /\ crossed \subseteq Tasks /\ blind \subseteq Tasks /\ DOMAIN kept = Tasks

\* There may be files already.
Old == {Content([i \in 1..n |-> <<"old", i>>]) : n \in OldLengths}

Init ==
    /\ nextID = 0 /\ tasks = {} /\ cancelled = {} /\ lastEmit = {} /\ slots = 0
    /\ job = [t \in Tasks |-> NoJob] /\ status = [t \in Tasks |-> "none"]
    /\ pc = [t \in Tasks |-> "none"]
    /\ file = [t \in Tasks |-> 0] /\ offset = [t \in Tasks |-> 0] /\ pos = [t \in Tasks |-> 0]
    /\ target = [t \in Tasks |-> NoPath]
    /\ \E f \in [Names -> Old \cup {Absent}] :
         disk = [p \in Paths |-> IF p[2] = 0 THEN f[p[1]] ELSE Absent]
    /\ shown = [t \in Tasks |-> "none"]
    /\ crossed = {} /\ blind = {} /\ kept = [t \in Tasks |-> <<>>]

-----------------------------------------------------------------------------
Goto(t, step) == pc' = [pc EXCEPT ![t] = step]

\* emit: an event of a running task is dropped within 100 ms of the one before,
\* the first and the last are not.
Emit(t) ==
    \/ shown' = [shown EXCEPT ![t] = status[t]] /\ lastEmit' = lastEmit \cup {t}
    \/ status[t] = "running" /\ t \in lastEmit /\ UNCHANGED <<shown, lastEmit>>

\* Upload and Download, once the files are listed: newTask and the goroutine.
Start(j) ==
    /\ nextID < MaxTasks
    /\ LET t == nextID + 1
       IN  /\ nextID' = t
           /\ tasks' = tasks \cup {t}
           /\ job' = [job EXCEPT ![t] = j]
           /\ status' = [status EXCEPT ![t] = "running"]
           /\ Goto(t, "queued")
    /\ UNCHANGED <<cancelled, lastEmit, slots, fileVars, disk, shown, historyVars>>

\* fail, done, cancelTask: the status is set first, the event comes after.
End(t, s) ==
    /\ status' = [status EXCEPT ![t] = s]
    /\ Goto(t, "emit")

\* Any access to a disk or to the SFTP client may fail.
Fails(t) ==
    /\ pc[t] \in {"files", "open", "copy"}
    /\ End(t, "error")
    /\ UNCHANGED <<tableVars, slots, job, fileVars, disk, shown, historyVars>>

\* Mutant: a task does not wait for a place in the semaphore.
AcquireAtOnce(t) ==
    /\ pc[t] = "queued"
    /\ slots' = slots + 1
    /\ Goto(t, "files")
    /\ UNCHANGED <<tableVars, taskVars, fileVars, disk, shown, historyVars>>

Acquire(t) ==
    /\ pc[t] = "queued" /\ slots < MaxConcurrent
    /\ slots' = slots + 1
    /\ Goto(t, "files")
    /\ UNCHANGED <<tableVars, taskVars, fileVars, disk, shown, historyVars>>

InWork(t) == pc[t] \in {"stat", "open", "copy", "check"}
Others(t, p) == {u \in Tasks \ {t} : InWork(u) /\ target[u] = p}

\* The next file of the task: where it should go, and whether there is one.
Wanted(t) == <<job[t].files[file[t] + 1].name, 0>>
Clash(t) == disk[Wanted(t)].there

\* Mutant: the policy "rename" takes number 1 without looking.
ResolvedFirst(t, p) ==
    p = IF Clash(t) /\ job[t].conflict = "rename" THEN <<Wanted(t)[1], 1>> ELSE Wanted(t)

\* resolveConflict: where the next file of the task goes.
Resolved(t, p) ==
    LET q == Wanted(t)
    IN  IF Clash(t) /\ job[t].conflict = "rename"
        THEN /\ p[1] = q[1] /\ p[2] > 0 /\ ~disk[p].there
             /\ \A n \in 1..(p[2] - 1) : disk[<<q[1], n>>].there
        ELSE p = q

\* The transfer of the next file begins, to be written at p.
Begin(t, p) ==
    /\ Goto(t, "stat")
    /\ target' = [target EXCEPT ![t] = p]
    /\ crossed' = IF Others(t, p) = {} THEN crossed \ {t}
                  ELSE crossed \cup {t} \cup Others(t, p)

\* The loop over the files: the cancel flag, the end of the list, or the next
\* file, which is skipped or written.  When the stat of the target fails the
\* policy is not applied: the file is written, if that does not fail too.
NextFile(t) ==
    /\ pc[t] = "files"
    /\ \/ /\ file[t] = Len(job[t].files)
          /\ End(t, "done")
          /\ UNCHANGED <<lastEmit, file, target, shown, crossed, blind>>
       \/ /\ file[t] < Len(job[t].files) /\ t \in cancelled
          /\ End(t, "cancelled")
          /\ UNCHANGED <<lastEmit, file, target, shown, crossed, blind>>
       \/ /\ file[t] < Len(job[t].files) /\ t \notin cancelled
          /\ Emit(t)
          /\ file' = [file EXCEPT ![t] = @ + 1]
          /\ \/ /\ Clash(t) /\ job[t].conflict = "skip"
                /\ UNCHANGED <<pc, target, crossed, blind>>
             \/ /\ ~(Clash(t) /\ job[t].conflict = "skip")
                /\ \E p \in Paths : Resolved(t, p) /\ Begin(t, p)
                /\ blind' = blind \ {t}
             \/ /\ Clash(t) /\ job[t].conflict # "overwrite"
                /\ Begin(t, Wanted(t))
                /\ blind' = blind \cup {t}
          /\ UNCHANGED status
    /\ UNCHANGED <<nextID, tasks, cancelled, slots, job, offset, pos, disk, kept>>

Src(t) == job[t].files[file[t]].source
There(t) == disk[target[t]].there
Chunks(t) == disk[target[t]].chunks

\* Resumption: a file that is there and shorter is continued.  A stat that
\* fails counts as no file.
Stat(t) ==
    /\ pc[t] = "stat"
    /\ \E o \in {0} \cup (IF There(t) THEN {Len(Chunks(t))} ELSE {}) :
         offset' = [offset EXCEPT ![t] = IF o < Size[Src(t)] THEN o ELSE 0]
    /\ Goto(t, "open")
    /\ UNCHANGED <<tableVars, slots, taskVars, file, target, pos, disk, shown, historyVars>>

\* Mutant: the source is not moved to the offset.
OpenAtStart(t) ==
    /\ pc[t] = "open"
    /\ LET old == IF offset[t] = 0 \/ ~There(t) THEN <<>> ELSE Chunks(t)
       IN  /\ disk' = [disk EXCEPT ![target[t]] = Content(old)]
           /\ kept' = [kept EXCEPT ![t] = old]
    /\ pos' = [pos EXCEPT ![t] = 0]
    /\ Goto(t, "copy")
    /\ UNCHANGED <<tableVars, slots, taskVars, file, target, offset, shown, crossed, blind>>

\* The source is read from the offset, the target truncated or appended to.
Open(t) ==
    /\ pc[t] = "open"
    /\ LET old == IF offset[t] = 0 \/ ~There(t) THEN <<>> ELSE Chunks(t)
       IN  /\ disk' = [disk EXCEPT ![target[t]] = Content(old)]
           /\ kept' = [kept EXCEPT ![t] = old]
    /\ pos' = [pos EXCEPT ![t] = offset[t]]
    /\ Goto(t, "copy")
    /\ UNCHANGED <<tableVars, slots, taskVars, file, target, offset, shown, crossed, blind>>

\* Chunk c at position k of s, past its end after a gap.
WriteAt(s, k, c) ==
    [i \in 1..(IF k > Len(s) THEN k ELSE Len(s)) |->
        IF i = k THEN c ELSE IF i <= Len(s) THEN s[i] ELSE Hole]

\* One turn of the copy loop: the cancel flag, a chunk, or the end of the file.
Copy(t) ==
    /\ pc[t] = "copy"
    /\ \/ /\ t \in cancelled
          /\ End(t, "cancelled")
          /\ UNCHANGED <<lastEmit, pos, disk, shown>>
       \/ /\ t \notin cancelled /\ pos[t] < Size[Src(t)]
          /\ LET c == <<Src(t), pos[t] + 1>>
                 at == IF offset[t] > 0 THEN Len(Chunks(t)) ELSE pos[t]
             IN  disk' = [disk EXCEPT ![target[t]] = Content(WriteAt(Chunks(t), at + 1, c))]
          /\ pos' = [pos EXCEPT ![t] = @ + 1]
          /\ Emit(t)
          /\ UNCHANGED <<status, pc>>
       \/ /\ t \notin cancelled /\ pos[t] = Size[Src(t)]
          /\ Goto(t, "check")
          /\ UNCHANGED <<lastEmit, status, pos, disk, shown>>
    /\ UNCHANGED <<nextID, tasks, cancelled, slots, job, file, target, offset, historyVars>>

\* The size check, which a stat that fails passes.
Check(t) ==
    /\ pc[t] = "check"
    /\ \/ Goto(t, "files") /\ UNCHANGED status
       \/ Len(Chunks(t)) # Size[Src(t)] /\ End(t, "error")
    /\ UNCHANGED <<tableVars, slots, job, fileVars, disk, shown, historyVars>>

EmitLast(t) ==
    /\ pc[t] = "emit"
    /\ Emit(t)
    /\ Goto(t, "release")
    /\ UNCHANGED <<nextID, tasks, cancelled, slots, taskVars, fileVars, disk, historyVars>>

\* The goroutine returns, and its variables are gone.
Return(t) ==
    /\ Goto(t, "gone")
    /\ file' = [file EXCEPT ![t] = 0] /\ target' = [target EXCEPT ![t] = NoPath]
    /\ offset' = [offset EXCEPT ![t] = 0] /\ pos' = [pos EXCEPT ![t] = 0]
    /\ kept' = [kept EXCEPT ![t] = <<>>]
    /\ crossed' = crossed \ {t} /\ blind' = blind \ {t}
    /\ UNCHANGED <<tableVars, taskVars, disk, shown>>

\* Mutant: a task that failed or was cancelled keeps its slot.
ReleaseDoneOnly(t) ==
    /\ pc[t] = "release"
    /\ slots' = IF status[t] = "done" THEN slots - 1 ELSE slots
    /\ Return(t)

Release(t) ==
    /\ pc[t] = "release"
    /\ slots' = slots - 1
    /\ Return(t)

-----------------------------------------------------------------------------
(* What the user may ask for *)

rest == <<nextID, slots, job, fileVars, disk, historyVars>>

\* Mutant: the task is reported as cancelled at once.
CancelAtOnce(t) ==
    /\ shown[t] = "running"
    /\ cancelled' = cancelled \cup {t}
    /\ shown' = [shown EXCEPT ![t] = "cancelled"]
    /\ UNCHANGED <<tasks, lastEmit, status, pc, rest>>

\* Cancel, for which the front end offers a button while the last event of the
\* task said that it runs.
Cancel(t) ==
    /\ shown[t] = "running"
    /\ cancelled' = cancelled \cup {t}
    /\ UNCHANGED <<tasks, lastEmit, status, pc, shown, rest>>

Forget(ts) == /\ tasks' = tasks \ ts
              /\ cancelled' = cancelled \ ts
              /\ lastEmit' = lastEmit \ ts

\* Mutant: a task can be removed while it runs.
RemoveAny(t) ==
    /\ t \in tasks
    /\ Forget({t})
    /\ UNCHANGED <<status, pc, shown, rest>>

Remove(t) ==
    /\ t \in tasks /\ status[t] # "running"
    /\ Forget({t})
    /\ UNCHANGED <<status, pc, shown, rest>>

RemoveFinished ==
    /\ Forget({t \in tasks : status[t] # "running"})
    /\ UNCHANGED <<status, pc, shown, rest>>

\* The steps that ask the SFTP server (or a disk) and wait for its answer, and
\* those of the goroutine alone.
Ask(t) == NextFile(t) \/ Stat(t) \/ Open(t) \/ Copy(t) \/ Check(t)
Finish(t) == EmitLast(t) \/ Release(t)
Run(t) == Acquire(t) \/ Ask(t) \/ Finish(t)

Next == \/ \E j \in Jobs : Start(j)
        \/ \E t \in Tasks : Run(t) \/ Fails(t) \/ Cancel(t) \/ Remove(t)
        \/ RemoveFinished

Spec == Init /\ [][Next]_vars

\* A goroutine that can go on does; the semaphore lets every waiter in at last
\* (Go channels queue their senders).
Fairness == \A t \in Tasks : WF_vars(Finish(t)) /\ SF_vars(Acquire(t))

\* What the code supposes of the other side: every SFTP request is answered, or
\* fails, in the end.  Nothing in the code sees to that: reads and writes have no
\* timeout, and a cancel is only looked for between two of them, so a server that
\* falls silent keeps the task and its slot.
PeerAnswers == \A t \in Tasks : WF_vars(Ask(t))

LiveSpec == Spec /\ Fairness /\ PeerAnswers

-----------------------------------------------------------------------------
(* Properties *)

Holders == {t \in Tasks : pc[t] \notin {"none", "queued", "gone"}}

\* Every slot that is taken belongs to a task at work: none is lost when a task
\* fails or is cancelled, and never more than MaxConcurrent are at work.
SlotsAreHeld == slots = Cardinality(Holders) /\ slots <= MaxConcurrent

\* A task that runs is in the table, and a cancel the user asked for since it
\* started is not forgotten.
RunningIsKept ==
    [][\A t \in Tasks : status'[t] = "running" =>
          t \in tasks' /\ (t \in cancelled => t \in cancelled')]_vars

\* After the event that ends a task there is no other: the front end never
\* goes back from an end to a running transfer or to another end.
LastEventIsLast ==
    [][\A t \in Tasks : shown[t] \in Ended => shown'[t] = shown[t]]_vars

IsPrefixOf(s, u) == Len(s) <= Len(u) /\ \A i \in 1..Len(s) : s[i] = u[i]

\* A file that no other task writes meanwhile arrives whole: truncated, or
\* continued where an earlier transfer of the same file stopped.
FileArrives ==
    \A t \in Tasks :
        (pc[t] = "check" /\ t \notin crossed /\ IsPrefixOf(kept[t], Original(Src(t))))
            => Chunks(t) = Original(Src(t))

\* The policies "skip" and "rename" do not touch a file that is there, unless
\* they could not see it or another task made it after they looked.
ExistingIsKept ==
    \A t \in Tasks :
        (pc[t] = "open" /\ t \notin crossed \cup blind /\ job[t].conflict # "overwrite") => ~There(t)

\* Every task ends, and the front end is told how, if the server answers
\* (PeerAnswers).
EveryTaskEnds ==
    \A t \in Tasks : status[t] = "running" ~> shown[t] \in Ended

-----------------------------------------------------------------------------
(* What the policy is called and the code does not do: it is violated. *)

\* engine.go:483, README.md:36: under the policy "overwrite" a file that is there is
\* replaced, not continued.
OverwriteReplaces ==
    \A t \in Tasks :
        (pc[t] = "check" /\ t \notin crossed /\ job[t].conflict = "overwrite")
            => Chunks(t) = Original(Src(t))
=============================================================================
