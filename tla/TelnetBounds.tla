---------------------------- MODULE TelnetBounds -----------------------------
(***************************************************************************)
(* The parameters of TelnetSession, with what it assumes of them.             *)
(***************************************************************************)
EXTENDS Integers

CONSTANTS
    Callers,                \* goroutines with Send, Resize and SshClose
    Watcher,                \* the goroutine that waits for Done()
    Pump, NoOne,
    Windows,                \* sizes of the window, [rows, cols]
    QueueCap,               \* 64 messages
    MaxCalls                \* bound: calls of Send and Resize

\* The size a session begins with (session.go Connect).
FirstWindow == [rows |-> 40, cols |-> 120]

ASSUME WindowsAssumption == Windows \subseteq [rows : 1..65535, cols : 1..65535]

ASSUME FirstWindowAssumption == FirstWindow \in Windows

ASSUME TelnetAssumption ==
    /\ Watcher \notin Callers /\ Pump \notin Callers /\ NoOne \notin Callers /\ Pump # NoOne
    /\ QueueCap \in Nat \ {0} /\ MaxCalls \in Nat
=============================================================================
