----------------------------- MODULE CommandLog ------------------------------
(***************************************************************************)
(* The log of commands, history.go recordInput, as SshSend (app.go 383) keeps *)
(* it for a session: what is typed goes into a buffer, a line is recorded when *)
(* Enter comes, and then the input is sent.  Input is a sequence of "char",    *)
(* "esc" (the beginning of a control sequence, and a key such as an arrow) and *)
(* "enter".  A buffer above the limit without "enter" is recorded, and then    *)
(* cut behind its end: the call panics, and the runtime of the window recovers *)
(* it.  A command of the engine of tasks ends with "enter" (task.go 68).       *)
(***************************************************************************)
EXTENDS SequencesExt, Integers

CONSTANTS
    Typists,                \* callers of SshSend: the window, the engine of tasks
    Inputs,                 \* what one call of each may send
    BufferLimit,            \* 4096
    MaxSends                \* bound: calls

VARIABLES
    accepting,              \* the session takes input
    logFile,                \* "none" before openHistory, then "open", and "closed" when the
                            \* session is out of the table
    buffer, commands,       \* cmdBuf, and the lines in the file
    submitted,              \* what the session received
    sends,                  \* of each caller: input, and where the call is
    total,                  \* counts the calls
    odd                     \* observation: two calls at once, one that failed after it was
                            \* recorded, or one without an open file

vars == <<accepting, logFile, buffer, commands, submitted, sends, total, odd>>

Idle == [step |-> "idle", input |-> <<>>]

AnyInput == UNION {Inputs[a] : a \in Typists}

TypeOK ==
    /\ accepting \in BOOLEAN /\ logFile \in {"none", "open", "closed"}
    /\ sends \in [Typists -> [step : {"idle", "record", "send"}, input : AnyInput \cup {<<>>}]]
    /\ total \in 0..MaxSends /\ odd \in BOOLEAN

Init ==
    /\ accepting = TRUE /\ logFile = "none"
    /\ buffer = <<>> /\ commands = <<>> /\ submitted = <<>>
    /\ sends = [a \in Typists |-> Idle] /\ total = 0 /\ odd = FALSE

-----------------------------------------------------------------------------

\* Empty lines are skipped, and those that begin with a control sequence.
Counts(line) == line # <<>> /\ line[1] # "esc"

\* What is written for a line.
Entry(line) == IF Counts(line) THEN <<line>> ELSE <<>>

\* The loop of recordInput: lines for the file, what stays in the buffer, and whether the
\* call panics.
Recorded[buf \in Seq(STRING)] ==
    LET ends == {i \in 1..Len(buf) : buf[i] = "enter"}
        over == Len(buf) > BufferLimit
    IN  IF ends = {} THEN [left |-> buf, panics |-> over, lines |-> IF over THEN Entry(buf) ELSE <<>>]
        ELSE LET r == Recorded[SubSeq(buf, Min(ends) + 1, Len(buf))]
             IN  [r EXCEPT !.lines = Entry(SubSeq(buf, 1, Min(ends) - 1)) \o @]

\* SshSend finds the session, and its log if there is one already.
SshSend(a, input) ==
    /\ logFile # "closed" /\ sends[a] = Idle /\ total < MaxSends
    /\ total' = total + 1
    /\ sends' = [sends EXCEPT ![a] = [step |-> IF logFile = "open" THEN "record" ELSE "send", input |-> input]]
    /\ odd' = (odd \/ logFile = "none")
    /\ UNCHANGED <<accepting, logFile, buffer, commands, submitted>>

Others(a) == \E b \in Typists \ {a} : sends[b].step = "send"

RecordInput(a) ==
    /\ sends[a].step = "record"
    /\ IF logFile = "open"
       THEN LET r == Recorded[buffer \o sends[a].input]
            IN  /\ buffer' = r.left /\ commands' = commands \o r.lines
                /\ sends' = [sends EXCEPT ![a] = IF r.panics THEN Idle ELSE [@ EXCEPT !.step = "send"]]
                /\ odd' = (odd \/ r.panics \/ Others(a))
       ELSE /\ sends' = [sends EXCEPT ![a].step = "send"]
            /\ odd' = TRUE
            /\ UNCHANGED <<buffer, commands>>
    /\ UNCHANGED <<accepting, logFile, submitted, total>>

\* sess.Send, which fails on a session that is closed or down.
Submit(a) ==
    /\ sends[a].step = "send"
    /\ sends' = [sends EXCEPT ![a] = Idle]
    /\ \/ accepting /\ submitted' = submitted \o sends[a].input /\ UNCHANGED odd
       \/ odd' = TRUE /\ UNCHANGED submitted
    /\ UNCHANGED <<accepting, logFile, buffer, commands, total>>

\* Connect registers the session before it opens the log.
OpenHistory ==
    /\ logFile = "none"
    /\ logFile' = "open"
    /\ UNCHANGED <<accepting, buffer, commands, submitted, sends, total, odd>>

\* SshClose takes the session out of the table and closes the log, then the session; the
\* end of attachSession does it in the other order.  A call that is under way goes on.
CloseLog ==
    /\ logFile = "open"
    /\ logFile' = "closed"
    /\ UNCHANGED <<accepting, buffer, commands, submitted, sends, total, odd>>

\* The session goes down or is closed, or a reconnection has replaced it.
LinkChanges ==
    /\ accepting \/ logFile # "closed"
    /\ accepting' = ~accepting
    /\ UNCHANGED <<logFile, buffer, commands, submitted, sends, total, odd>>

Next ==
    \/ \E a \in Typists : RecordInput(a) \/ Submit(a) \/ \E input \in Inputs[a] : SshSend(a, input)
    \/ OpenHistory \/ CloseLog \/ LinkChanges

Spec == Init /\ [][Next]_vars

-----------------------------------------------------------------------------

\* The lines of what the session received, and what follows the last of them.
Cut(s, b) == IF b = "enter" THEN [lines |-> s.lines \o Entry(s.line), line |-> <<>>]
             ELSE [s EXCEPT !.line = Append(@, b)]
Typed[s \in Seq(STRING)] == IF s = <<>> THEN [lines |-> <<>>, line |-> <<>>] ELSE Cut(Typed[Front(s)], Last(s))

\* The log has the commands the session received, each once, whole and in order,
\* however they were split into calls; and a command is recorded before it is sent.
CommandsAreRecorded ==
    odd \/ IF \A a \in Typists : sends[a].step # "send"
           THEN commands = Typed[submitted].lines /\ buffer = Typed[submitted].line
           ELSE IsPrefix(Typed[submitted].lines, commands)

\* A line that is complete does not wait in the buffer.
LineIsOpen == ~Contains(buffer, "enter")
=============================================================================
