---------------------------- MODULE TermSession ----------------------------
(***************************************************************************)
(* What the application may rely on of any terminal session (the interface *)
(* TermSession of internal/model/session.go): the channel Output() hands   *)
(* out, which attachSession ranges over, and the end signal of Done(),     *)
(* which it waits for.  SshSession is shown to implement it, and the       *)
(* connections of AppSessions are shown to follow it.                      *)
(***************************************************************************)
EXTENDS Naturals

CONSTANT Cap                \* capacity of the output channel

VARIABLES
    stopped,                \* Close() has begun
    open,                   \* the output channel is not closed
    queued,                 \* messages in the output channel
    signal                  \* what was posted on Done(): "none", "clean" (nil) or "error"

vars == <<stopped, open, queued, signal>>

Signals == {"none", "clean", "error"}

TypeOK == /\ stopped \in BOOLEAN
          /\ open \in BOOLEAN
          /\ queued \in 0..Cap
          /\ signal \in Signals

Init == stopped = FALSE /\ open = TRUE /\ queued = 0 /\ signal = "none"

\* A chunk of output enters an open channel that has room for it.
Deliver == /\ open
           /\ queued < Cap
           /\ queued' = queued + 1
           /\ UNCHANGED <<stopped, open, signal>>

\* The consumer takes a message; a closed channel is still drained.
Receive == /\ queued > 0
           /\ queued' = queued - 1
           /\ UNCHANGED <<stopped, open, signal>>

\* The end of the session is signalled once, before or after Close().
Post == /\ signal = "none"
        /\ signal' \in Signals \ {"none"}
        /\ UNCHANGED <<stopped, open, queued>>

Stop == /\ ~stopped
        /\ stopped' = TRUE
        /\ UNCHANGED <<open, queued, signal>>

\* The channel is closed once, and only by a Close() that has begun.
CloseOutput == /\ stopped
               /\ open
               /\ open' = FALSE
               /\ UNCHANGED <<stopped, queued, signal>>

Next == Deliver \/ Receive \/ Post \/ Stop \/ CloseOutput

Spec == Init /\ [][Next]_vars
=============================================================================
