-------------------------- MODULE SshSession_proofs --------------------------
(* Theorems about SshSession, for any number of callers and pumps and any    *)
(* capacity of the output channel.                                           *)
EXTENDS SshSession, TLAPS

-----------------------------------------------------------------------------
(* The inductive invariant *)

\* Who is in a call holds the lock of that call, and the waiter never is.
LocksHeld ==
    /\ \A c \in Callers : /\ pc[c] \in {"write", "request"} <=> mu = c
                          /\ pc[c] = "sftp_init" <=> sftpMu = c
    /\ pc[Waiter] \notin InCall

\* closeOnce says how far Close is; the steps of Close are taken only while it
\* is running, the stop channel was closed before and the output after.
OnceInv ==
    /\ once # "running" => \A c \in Closers : pc[c] \notin Closing
    /\ stop <=> once # "fresh"
    /\ open <=> once # "done"

\* The flag is set from CloseMark on.
ClosedInv ==
    (once = "done" \/ \E c \in Closers : pc[c] \in {"close_sftp", "close_conn", "close_output"})
        => closed

SignalInv == pc[Waiter] = "wait" => signal = "none"

IInv == /\ TypeOK /\ LocksHeld /\ OnceInv /\ ClosedInv /\ SignalInv
        /\ OneCloser /\ NoSendOnClosedOutput /\ NoCallDuringTeardown /\ NoSftpAfterClose

USE SshAssumption DEF SshAssumption

LEMMA InitIInv == Init => IInv
<1> SUFFICES ASSUME Init PROVE IInv
  OBVIOUS
<1> USE DEF Init, Closers, Closing, InCall
<1>1. TypeOK
  <2>1. pc \in [Closers -> {"idle", "wait"}]
    OBVIOUS
  <2>2. inbox \in [Pumps -> 0..MaxInbox] /\ pump \in [Pumps -> {"read"}]
    OBVIOUS
  <2>3. stop \in BOOLEAN /\ closed \in BOOLEAN /\ open \in BOOLEAN
    OBVIOUS
  <2>4. queued \in 0..Cap
    OBVIOUS
  <2> QED
    BY <2>1, <2>2, <2>3, <2>4 DEF TypeOK
<1>2. LocksHeld
  BY DEF LocksHeld
<1>3. OnceInv /\ ClosedInv /\ SignalInv
  BY DEF OnceInv, ClosedInv, SignalInv
<1>4. OneCloser /\ NoSendOnClosedOutput /\ NoCallDuringTeardown /\ NoSftpAfterClose
  BY DEF OneCloser, NoSendOnClosedOutput, NoCallDuringTeardown, NoSftpAfterClose
<1> QED
  BY <1>1, <1>2, <1>3, <1>4 DEF IInv

LEMMA NextIInv == IInv /\ [Next]_vars => IInv'
<1> SUFFICES ASSUME IInv, [Next]_vars PROVE IInv'
  OBVIOUS
<1> USE DEF IInv, TypeOK, LocksHeld, OnceInv, ClosedInv, SignalInv, OneCloser,
            NoSendOnClosedOutput, NoCallDuringTeardown, NoSftpAfterClose,
            Closers, Closing, InCall, connVars, closeVars, lockVars, chanVars, goVars
<1>1. ASSUME NEW p \in Pumps, Produce(p) PROVE IInv'
  BY <1>1 DEF Produce
<1>2. ASSUME NEW s \in {"exit0", "exitN"}, ShellExit(s) PROVE IInv'
  BY <1>2 DEF ShellExit
<1>3. CASE ConnLost
  BY <1>3 DEF ConnLost
<1>4. ASSUME NEW c \in Callers, Send(c) PROVE IInv'
  BY <1>4 DEF Send, Goto
<1>5. ASSUME NEW c \in Callers, Request(c) PROVE IInv'
  BY <1>5 DEF Request, Goto
<1>6. ASSUME NEW c \in Callers, SFTP(c) PROVE IInv'
  <2>1. ~closed \/ \E d \in Closers : pc[d] = "close_sftp"
    BY <1>6 DEF SFTP, SeenClosed
  <2>2. /\ once # "done"
        /\ \A d \in Closers : pc[d] \notin {"close_conn", "close_output"}
    BY <2>1
  <2> QED
    BY <1>6, <2>2 DEF SFTP, Goto
<1>7. ASSUME NEW c \in Callers, Answered(c) PROVE IInv'
  BY <1>7 DEF Answered, Leave, Goto
<1>8. ASSUME NEW c \in Callers, CallFails(c) PROVE IInv'
  BY <1>8 DEF CallFails, Leave, Goto
<1>9. ASSUME NEW c \in Closers, CloseBegin(c) PROVE IInv'
  <2>1. CASE once = "fresh"
    BY <1>9, <2>1 DEF CloseBegin, Goto
  <2>2. CASE once = "running"
    BY <1>9, <2>2 DEF CloseBegin, Goto
  <2>3. CASE once = "done"
    BY <1>9, <2>3 DEF CloseBegin, Goto, Returned
  <2> QED
    BY <2>1, <2>2, <2>3
<1>10. ASSUME NEW c \in Closers, CloseMark(c) PROVE IInv'
  BY <1>10 DEF CloseMark, Goto
<1>11. ASSUME NEW c \in Closers, CloseSftp(c) PROVE IInv'
  BY <1>11 DEF CloseSftp, Goto
<1>12. ASSUME NEW c \in Closers, CloseConn(c) PROVE IInv'
  BY <1>12 DEF CloseConn, Goto
<1>13. ASSUME NEW c \in Closers, CloseOutput(c) PROVE IInv'
  BY <1>13 DEF CloseOutput, Goto, Returned
<1>14. ASSUME NEW c \in Closers, CloseWaited(c) PROVE IInv'
  BY <1>14 DEF CloseWaited, Goto, Returned
<1>15. CASE Wait
  BY <1>15 DEF Wait, Goto
<1>16. ASSUME NEW p \in Pumps, PumpRead(p) PROVE IInv'
  BY <1>16 DEF PumpRead
<1>17. ASSUME NEW p \in Pumps, PumpEof(p) PROVE IInv'
  BY <1>17 DEF PumpEof
<1>18. ASSUME NEW p \in Pumps, PumpSend(p) PROVE IInv'
  BY <1>18 DEF PumpSend
<1>19. ASSUME NEW p \in Pumps, PumpStop(p) PROVE IInv'
  BY <1>19 DEF PumpStop
<1>20. CASE Tick \/ TickAnswered \/ TickFails
  BY <1>20 DEF Tick, TickAnswered, TickFails
<1>21. CASE Consume
  BY <1>21 DEF Consume
<1>22. CASE UNCHANGED vars
  BY <1>22 DEF vars
<1> QED
  BY <1>1, <1>2, <1>3, <1>4, <1>5, <1>6, <1>7, <1>8, <1>9, <1>10, <1>11, <1>12, <1>13, <1>14,
     <1>15, <1>16, <1>17, <1>18, <1>19, <1>20, <1>21, <1>22
     DEF Next, Peer, Call, CloseStep, PumpStep

-----------------------------------------------------------------------------
(* The theorems *)

LEMMA SpecIInv == Spec => []IInv
<1>1. Init => IInv
  BY InitIInv
<1>2. IInv /\ [Next]_vars => IInv'
  BY NextIInv
<1> QED
  BY <1>1, <1>2, PTL DEF Spec

\* Every variable keeps its type: the output channel holds at most Cap messages.
THEOREM TypeCorrect == Spec => []TypeOK
BY SpecIInv, PTL DEF IInv

\* Close runs once, however many goroutines call it at the same time.
THEOREM CloseRunsOnce == Spec => []OneCloser
BY SpecIInv, PTL DEF IInv

\* No pump sends on the closed output channel.
THEOREM OutputClosedLast == Spec => []NoSendOnClosedOutput
BY SpecIInv, PTL DEF IInv

\* No call that holds s.mu is in the network when Close tears it down.
THEOREM CallsLeaveFirst == Spec => []NoCallDuringTeardown
BY SpecIInv, PTL DEF IInv

\* No sftp client outlives Close, although `closed' is read without its lock.
THEOREM SftpIsClosed == Spec => []NoSftpAfterClose
BY SpecIInv, PTL DEF IInv

\* Every step of a session is one that TermSession allows, or changes nothing
\* that TermSession speaks of.
LEMMA StepImplements == IInv /\ [Next]_vars => [Term!Next]_(Term!vars)
<1> SUFFICES ASSUME IInv, [Next]_vars, ~ UNCHANGED <<stop, open, queued, signal>>
             PROVE  Term!Next
  BY DEF Term!vars
<1> USE DEF IInv, Term!Next, connVars, closeVars, lockVars, chanVars, goVars
<1>1. ASSUME NEW c \in Closers, CloseBegin(c) PROVE Term!Next
  BY <1>1 DEF CloseBegin, OnceInv, Term!Stop
<1>2. ASSUME NEW c \in Closers, CloseOutput(c) PROVE Term!Next
  <2>1. once = "running"
    BY <1>2 DEF CloseOutput, OnceInv, Closing, TypeOK
  <2> QED
    BY <1>2, <2>1 DEF CloseOutput, OnceInv, Term!CloseOutput
<1>3. CASE Wait
  BY <1>3 DEF Wait, SignalInv, Term!Post, Term!Signals
<1>4. ASSUME NEW p \in Pumps, PumpSend(p) PROVE Term!Next
  BY <1>4 DEF PumpSend, NoSendOnClosedOutput, TypeOK, Term!Deliver
<1>5. CASE Consume
  BY <1>5 DEF Consume, Term!Receive
<1> QED
  BY <1>1, <1>2, <1>3, <1>4, <1>5
     DEF Next, vars, Peer, Produce, ShellExit, ConnLost, Call, Send, Request, SFTP, Answered,
         CallFails, Leave, CloseStep, CloseMark, CloseSftp, CloseConn, CloseWaited, PumpStep,
         PumpRead, PumpEof, PumpStop, Tick, TickAnswered, TickFails

\* The channel and the end signal of a session behave as the application
\* expects of any terminal session.
THEOREM ImplementsTerm == Spec => ImplementsTermSession
<1>1. Init => Term!Init
  BY DEF Init, Term!Init
<1>2. IInv /\ [Next]_vars => [Term!Next]_(Term!vars)
  BY StepImplements
<1> QED
  BY <1>1, <1>2, SpecIInv, PTL DEF Spec, ImplementsTermSession, Term!Spec
=============================================================================
