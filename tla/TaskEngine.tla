----------------------------- MODULE TaskEngine ------------------------------
(***************************************************************************)
(* The engine of scheduled tasks, task.go: a ticker of one second, a batch of *)
(* tasks that are due, and for each of them a command sent to its session and *)
(* a record of the run.  The record writes the whole task as the batch read   *)
(* it, so what the user saves or deletes meanwhile is undone.  LastRun is      *)
(* written in local time and read as UTC: `zone' is the difference.  A time is *)
(* kept as the ticks that have passed since.                                   *)
(***************************************************************************)
EXTENDS TaskBounds

VARIABLES
    zone,
    ticked,                 \* a tick waits in the channel of the ticker
    task,                   \* the bucket: command 0 is a task that is not there
    online,                 \* the session of the tasks is there and takes commands
    batch,                  \* age of its time, copies and tasks still to run
    sending,                \* of the first of them: "ready", "sent" or "refused"
    edits,                  \* counts the changes, and numbers the commands
    wanted,                 \* observation: command and switch the user saved last
    raced,                  \* observation: tasks the user changed during their batch
    lastRun                 \* observation: age of the last run, Never after a save of
                            \* the user or a record that was lost

vars == <<zone, ticked, task, online, batch, sending, edits, wanted, raced, lastRun>>

Never == -1
Ages == 0..MaxAge
NoTask == [cmd |-> 0, on |-> FALSE, age |-> Never, failed |-> FALSE]
TaskRecords == [cmd : 0..MaxEdits, on : BOOLEAN, age : Ages \cup {Never}, failed : BOOLEAN]

TypeOK ==
    /\ zone \in Zones /\ ticked \in BOOLEAN /\ online \in BOOLEAN
    /\ task \in [Tasks -> TaskRecords] /\ edits \in 0..MaxEdits
    /\ batch \in [age : Ages, left : SUBSET Tasks, copy : [Tasks -> TaskRecords]]
    /\ sending \in {"ready", "sent", "refused"}
    /\ batch.left = {} => sending = "ready"
    /\ wanted \in [Tasks -> [cmd : 0..MaxEdits, on : BOOLEAN]]
    /\ raced \subseteq Tasks /\ lastRun \in [Tasks -> Ages \cup {Never}]

Nothing == [age |-> 0, left |-> {}, copy |-> [t \in Tasks |-> NoTask]]

Init ==
    /\ zone \in Zones /\ ticked = FALSE /\ online \in BOOLEAN
    /\ task = [t \in Tasks |-> NoTask] /\ edits = 0
    /\ batch = Nothing /\ sending = "ready"
    /\ wanted = [t \in Tasks |-> [cmd |-> 0, on |-> FALSE]]
    /\ raced = {} /\ lastRun = [t \in Tasks |-> Never]

Due(r) == r.on /\ (r.age = Never \/ r.age - zone >= Interval)

-----------------------------------------------------------------------------
(* The engine *)

Older(a) == IF a \in {Never, MaxAge} THEN a ELSE a + 1

\* A second passes; a tick that nobody takes is dropped.
Pass ==
    /\ ticked' = TRUE
    /\ task' = [t \in Tasks |-> [task[t] EXCEPT !.age = Older(@)]]
    /\ lastRun' = [t \in Tasks |-> Older(lastRun[t])]
    /\ batch' = IF batch.left = {} THEN batch ELSE [batch EXCEPT !.age = Older(@)]
    /\ UNCHANGED <<zone, online, sending, edits, wanted, raced>>

\* checkTasks: reads the tasks and the time once for all that are due.  A tick at which
\* they cannot be read is as good as none: the next one finds the same.
CheckTasks ==
    /\ ticked /\ batch.left = {}
    /\ ticked' = FALSE
    /\ LET due == {t \in Tasks : Due(task[t])}
       IN  batch' = IF due = {} THEN Nothing ELSE [age |-> 0, left |-> due, copy |-> task]
    /\ UNCHANGED <<zone, task, online, sending, edits, wanted, raced, lastRun>>

First(t) == t \in batch.left /\ \A u \in batch.left : t <= u

\* runTask: the command is sent, or the session is not there or refuses it.
RunTask(t) ==
    /\ First(t) /\ sending = "ready"
    /\ sending' \in {"refused"} \cup (IF online THEN {"sent"} ELSE {})
    /\ lastRun' = [lastRun EXCEPT ![t] = batch.age]
    /\ UNCHANGED <<zone, ticked, task, online, batch, edits, wanted, raced>>

Leave(t) ==
    /\ First(t) /\ sending # "ready"
    /\ sending' = "ready"
    /\ batch' = IF batch.left = {t} THEN Nothing ELSE [batch EXCEPT !.left = @ \ {t}]
    /\ UNCHANGED <<zone, ticked, online, edits, wanted, raced>>

\* Mutant: a run that failed is recorded without its time, to try again soon.
RecordSuccess(t) ==
    /\ Leave(t)
    /\ task' = [task EXCEPT ![t] =
                  [batch.copy[t] EXCEPT !.failed = (sending = "refused"),
                                        !.age = IF sending = "refused" THEN @ ELSE batch.age]]
    /\ UNCHANGED lastRun

\* The end of runTask: the copy is saved with the time of the batch.
Record(t) ==
    /\ Leave(t)
    /\ task' = [task EXCEPT ![t] =
                  [batch.copy[t] EXCEPT !.age = batch.age, !.failed = (sending = "refused")]]
    /\ UNCHANGED lastRun

\* The store reports an error, which runTask ignores.
RecordFails(t) ==
    /\ Leave(t)
    /\ lastRun' = [lastRun EXCEPT ![t] = Never]
    /\ UNCHANGED task

-----------------------------------------------------------------------------
(* The user, the session and the program *)

Change(t, record) ==
    /\ edits < MaxEdits
    /\ edits' = edits + 1
    /\ task' = [task EXCEPT ![t] = record]
    /\ wanted' = [wanted EXCEPT ![t] = [cmd |-> record.cmd, on |-> record.on]]
    /\ raced' = IF t \in batch.left THEN raced \cup {t} ELSE raced \ {t}
    /\ lastRun' = [lastRun EXCEPT ![t] = Never]
    /\ UNCHANGED <<zone, ticked, online, batch, sending>>

\* SaveTask: a new task or a new text for one, without the time of its last run.
SaveTask(t, on) == Change(t, [cmd |-> edits + 1, on |-> on, age |-> Never, failed |-> FALSE])

DeleteTask(t) == task[t].cmd # 0 /\ Change(t, NoTask)

\* The session ends, reconnects or is opened.
SessionChanges ==
    /\ online' = ~online
    /\ UNCHANGED <<zone, ticked, task, batch, sending, edits, wanted, raced, lastRun>>

\* The program ends with the batch it is at and is started again: a command that was
\* sent is not recorded.  The session is to be opened anew.
Restart ==
    /\ edits < MaxEdits
    /\ edits' = edits + 1
    /\ ticked' = FALSE /\ sending' = "ready" /\ online' = FALSE
    /\ batch' = Nothing
    /\ lastRun' = [t \in Tasks |-> IF t \in batch.left THEN Never ELSE lastRun[t]]
    /\ UNCHANGED <<zone, task, wanted, raced>>

\* What the goroutine goes on to do.
Engine == CheckTasks \/ \E t \in Tasks : RunTask(t) \/ Record(t) \/ RecordFails(t)

Next ==
    \/ Pass \/ Engine
    \/ \E t \in Tasks : DeleteTask(t) \/ \E on \in BOOLEAN : SaveTask(t, on)
    \/ SessionChanges \/ Restart

Spec == Init /\ [][Next]_vars

-----------------------------------------------------------------------------

\* Two runs of a task are an interval apart, shifted by the zone, whatever fails, waits
\* or is changed in between; unless the user saved the task or the record of the first was lost.
TasksKeepInterval ==
    [][\A t \in batch'.left \ batch.left :
           lastRun[t] # Never => lastRun[t] >= Interval + zone]_vars

\* A task that is due and not in hand.  It comes to be run, or is no longer due because the
\* user changed it, if the store can be read at some tick: no task is passed over for
\* another one, and a session that is gone stops none.
Overdue(t) == Due(task[t]) /\ ~First(t)

\* What is stored of a task is what the user saved last, and a task that was deleted stays
\* away, unless the change was made while the task was in a batch.
EditsStay ==
    \A t \in Tasks \ raced : task[t].cmd = wanted[t].cmd /\ task[t].on = wanted[t].on
=============================================================================
