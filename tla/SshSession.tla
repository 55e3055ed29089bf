---------------------------- MODULE SshSession ----------------------------
(***************************************************************************)
(* One SSH session, internal/sshcore/session.go: the goroutines connectOnce *)
(* starts (two output pumps, the keep-alive ticker, the goroutine that      *)
(* waits for the remote shell), the goroutines of the application that call *)
(* the session's methods, and the one that ranges over Output().            *)
(*                                                                          *)
(* Data is abstracted: a chunk of output is a unit, an input or a request   *)
(* is the fact that a call is in the network.  Control is kept: both        *)
(* mutexes, closeOnce, the stop channel, the wait group and every check of  *)
(* `closed'.                                                                *)
(***************************************************************************)
EXTENDS Naturals, FiniteSets

CONSTANTS
    Callers,                \* application goroutines that call the methods
    Waiter,                 \* the goroutine blocked in sess.Wait()
    Pumps,                  \* one per output stream: stdout and stderr
    Cap,                    \* capacity of the output channel (64 in the code)
    MaxInbox,               \* bound: received and unread chunks of a stream
    NoOne                   \* owner of a free mutex

ASSUME SshAssumption == /\ Waiter \notin Callers
                        /\ NoOne \notin Callers
                        /\ Cap \in Nat \ {0}
                        /\ MaxInbox \in Nat \ {0}

VARIABLES
    conn,                   \* the transport: "up" or "down"
    shell,                  \* the remote shell: "running", "exit0" or "exitN"
    inbox,                  \* chunks received of each stream and not yet read
    stop,                   \* the channel s.stop is closed
    closed,                 \* the flag s.closed
    mu, sftpMu,             \* owners of the two mutexes
    once,                   \* s.closeOnce: "fresh", "running" or "done"
    sftp,                   \* s.sftpClient: "none", "open" or "closed"
    open, queued,           \* the output channel: not closed, messages in it
    signal,                 \* what s.done holds or has held
    pc,                     \* where each caller and the waiter are
    pump, ticker, consumer  \* where the other goroutines are

connVars  == <<conn, shell, inbox>>
closeVars == <<stop, closed, once>>
lockVars  == <<mu, sftpMu, sftp>>
chanVars  == <<open, queued, signal>>
goVars    == <<pc, pump, ticker, consumer>>
vars == <<connVars, closeVars, lockVars, chanVars, goVars>>

Closers == Callers \cup {Waiter}

\* The steps of Close() in the goroutine that closeOnce lets in.
Closing == {"close_mark", "close_sftp", "close_conn", "close_output"}
\* Places of a goroutine that sits in a network call.
InCall == {"write", "request", "sftp_init"}

TypeOK ==
    /\ conn \in {"up", "down"}
    /\ shell \in {"running", "exit0", "exitN"}
    /\ inbox \in [Pumps -> 0..MaxInbox]
    /\ stop \in BOOLEAN /\ closed \in BOOLEAN
    /\ mu \in Callers \cup {NoOne} /\ sftpMu \in Callers \cup {NoOne}
    /\ once \in {"fresh", "running", "done"}
    /\ sftp \in {"none", "open", "closed"}
    /\ open \in BOOLEAN /\ queued \in 0..Cap
    /\ signal \in {"none", "clean", "error"}
    /\ pc \in [Closers -> {"idle", "wait", "posted", "gone", "close_wait"} \cup InCall \cup Closing]
    /\ pump \in [Pumps -> {"read", "send", "exit"}]
    /\ ticker \in {"tick", "request", "exit"}
    /\ consumer \in {"range", "exit"}

\* connectOnce has returned: the shell runs and every goroutine is started.
Init ==
    /\ conn = "up" /\ shell = "running"
    /\ inbox = [p \in Pumps |-> 0]
    /\ stop = FALSE /\ closed = FALSE /\ once = "fresh"
    /\ mu = NoOne /\ sftpMu = NoOne /\ sftp = "none"
    /\ open = TRUE /\ queued = 0 /\ signal = "none"
    /\ pc = [c \in Closers |-> IF c = Waiter THEN "wait" ELSE "idle"]
    /\ pump = [p \in Pumps |-> "read"]
    /\ ticker = "tick" /\ consumer = "range"

Goto(c, place) == pc' = [pc EXCEPT ![c] = place]

\* Where a goroutine is when Close() has returned to it.
Returned(c) == IF c = Waiter THEN "gone" ELSE "idle"

-----------------------------------------------------------------------------
(* The peer and the network *)

Produce(p) ==
    /\ conn = "up" /\ shell = "running"
    /\ inbox[p] < MaxInbox
    /\ inbox' = [inbox EXCEPT ![p] = @ + 1]
    /\ UNCHANGED <<conn, shell, closeVars, lockVars, chanVars, goVars>>

ShellExit(status) ==
    /\ conn = "up" /\ shell = "running"
    /\ shell' = status
    /\ UNCHANGED <<conn, inbox, closeVars, lockVars, chanVars, goVars>>

ConnLost ==
    /\ conn = "up"
    /\ conn' = "down"
    /\ UNCHANGED <<shell, inbox, closeVars, lockVars, chanVars, goVars>>

\* The session's channel delivers no more than what was received already.
Ended == conn = "down" \/ shell # "running"

-----------------------------------------------------------------------------
(* Methods *)

\* Send holds s.mu while stdin.Write waits for the peer's window.
Send(c) ==
    /\ pc[c] = "idle" /\ mu = NoOne /\ ~closed
    /\ mu' = c
    /\ Goto(c, "write")
    /\ UNCHANGED <<connVars, closeVars, sftpMu, sftp, chanVars, pump, ticker, consumer>>

\* KeepAlive, Dial and ListenRemote hold s.mu until the peer has answered.
Request(c) ==
    /\ pc[c] = "idle" /\ mu = NoOne /\ ~closed
    /\ mu' = c
    /\ Goto(c, "request")
    /\ UNCHANGED <<connVars, closeVars, sftpMu, sftp, chanVars, pump, ticker, consumer>>

\* SFTP reads `closed' under s.sftpMu, but Close writes it under s.mu: until
\* Close has taken s.sftpMu itself the read may return either value.
SeenClosed == IF ~closed THEN {FALSE}
              ELSE IF \E c \in Closers : pc[c] = "close_sftp" THEN BOOLEAN
              ELSE {TRUE}

\* SFTP of a session that has no sftp client yet opens one under s.sftpMu;
\* with a client, or on a closed session, it returns at once.
SFTP(c) ==
    /\ pc[c] = "idle" /\ sftpMu = NoOne /\ sftp = "none"
    /\ FALSE \in SeenClosed
    /\ sftpMu' = c
    /\ Goto(c, "sftp_init")
    /\ UNCHANGED <<connVars, closeVars, mu, sftp, chanVars, pump, ticker, consumer>>

Leave(c) ==
    /\ Goto(c, "idle")
    /\ mu' = IF mu = c THEN NoOne ELSE mu
    /\ sftpMu' = IF sftpMu = c THEN NoOne ELSE sftpMu
    /\ UNCHANGED <<connVars, closeVars, chanVars, pump, ticker, consumer>>

\* The peer lets a write through, or answers a request (or refuses it: then
\* there is no sftp client).
Answered(c) ==
    /\ pc[c] \in InCall /\ conn = "up"
    /\ sftp' \in IF pc[c] = "sftp_init" THEN {"open", "none"} ELSE {sftp}
    /\ Leave(c)

\* A call fails: the transport is gone, or a write finds its channel closed.
CallFails(c) ==
    /\ \/ pc[c] \in InCall /\ conn = "down"
       \/ pc[c] = "write" /\ shell # "running"
    /\ UNCHANGED sftp
    /\ Leave(c)

-----------------------------------------------------------------------------
(* Close *)

\* Mutant: a plain test of the flag `closed' instead of closeOnce.
CloseBeginUnguarded(c) ==
    /\ pc[c] \in {"idle", "posted"}
    /\ IF closed THEN Goto(c, Returned(c)) /\ UNCHANGED <<once, stop>>
       ELSE Goto(c, "close_mark") /\ once' = "running" /\ stop' = TRUE
    /\ UNCHANGED <<connVars, closed, lockVars, chanVars, pump, ticker, consumer>>

\* closeOnce.Do: the first caller closes s.stop and goes on, the others wait
\* for it; after it is done Close returns at once.
CloseBegin(c) ==
    /\ pc[c] \in {"idle", "posted"}
    /\ \/ once = "fresh" /\ Goto(c, "close_mark") /\ once' = "running" /\ stop' = TRUE
       \/ once = "running" /\ Goto(c, "close_wait") /\ UNCHANGED <<once, stop>>
       \/ once = "done" /\ Goto(c, Returned(c)) /\ UNCHANGED <<once, stop>>
    /\ UNCHANGED <<connVars, closed, lockVars, chanVars, pump, ticker, consumer>>

\* Mutant: the flag is set without s.mu.
CloseMarkUnlocked(c) ==
    /\ pc[c] = "close_mark"
    /\ closed' = TRUE
    /\ Goto(c, "close_sftp")
    /\ UNCHANGED <<connVars, stop, once, lockVars, chanVars, pump, ticker, consumer>>

CloseMark(c) ==
    /\ pc[c] = "close_mark" /\ mu = NoOne
    /\ closed' = TRUE
    /\ Goto(c, "close_sftp")
    /\ UNCHANGED <<connVars, stop, once, lockVars, chanVars, pump, ticker, consumer>>

\* Mutant: s.sftpClient is closed without s.sftpMu.
CloseSftpUnlocked(c) ==
    /\ pc[c] = "close_sftp"
    /\ sftp' = IF sftp = "open" THEN "closed" ELSE sftp
    /\ Goto(c, "close_conn")
    /\ UNCHANGED <<connVars, closeVars, mu, sftpMu, chanVars, pump, ticker, consumer>>

CloseSftp(c) ==
    /\ pc[c] = "close_sftp" /\ sftpMu = NoOne
    /\ sftp' = IF sftp = "open" THEN "closed" ELSE sftp
    /\ Goto(c, "close_conn")
    /\ UNCHANGED <<connVars, closeVars, mu, sftpMu, chanVars, pump, ticker, consumer>>

\* Mutant: the transport is left open, to be closed after the pumps returned.
CloseConnLater(c) ==
    /\ pc[c] = "close_conn"
    /\ Goto(c, "close_output")
    /\ UNCHANGED <<connVars, closeVars, lockVars, chanVars, pump, ticker, consumer>>

\* Mutant: Close posts an end signal of its own.
CloseConnPosts(c) ==
    /\ pc[c] = "close_conn"
    /\ conn' = "down" /\ signal' = "error"
    /\ Goto(c, "close_output")
    /\ UNCHANGED <<shell, inbox, closeVars, lockVars, open, queued, pump, ticker, consumer>>

\* session.Close, client.Close and, through a jump host, jumpClient.Close.
CloseConn(c) ==
    /\ pc[c] = "close_conn"
    /\ conn' = "down"
    /\ Goto(c, "close_output")
    /\ UNCHANGED <<shell, inbox, closeVars, lockVars, chanVars, pump, ticker, consumer>>

\* Mutant: no pumpWg.Wait().
CloseOutputEarly(c) ==
    /\ pc[c] = "close_output"
    /\ open' = FALSE
    /\ once' = "done"
    /\ Goto(c, Returned(c))
    /\ UNCHANGED <<connVars, stop, closed, lockVars, queued, signal, pump, ticker, consumer>>

\* pumpWg.Wait(), then close(s.output).
CloseOutput(c) ==
    /\ pc[c] = "close_output"
    /\ \A p \in Pumps : pump[p] = "exit"
    /\ open' = FALSE
    /\ once' = "done"
    /\ Goto(c, Returned(c))
    /\ UNCHANGED <<connVars, stop, closed, lockVars, queued, signal, pump, ticker, consumer>>

CloseWaited(c) ==
    /\ pc[c] = "close_wait" /\ once = "done"
    /\ Goto(c, Returned(c))
    /\ UNCHANGED <<connVars, closeVars, lockVars, chanVars, pump, ticker, consumer>>

-----------------------------------------------------------------------------
(* The session's goroutines and the consumer of its output *)

\* Mutant: the waiting goroutine posts the signal and does not call Close.
WaitOnly ==
    /\ pc[Waiter] = "wait" /\ Ended
    /\ signal' = IF shell = "exit0" THEN "clean" ELSE "error"
    /\ Goto(Waiter, "gone")
    /\ UNCHANGED <<connVars, closeVars, lockVars, open, queued, pump, ticker, consumer>>

\* sess.Wait() returns nil for exit status 0 and an error for another status
\* or a lost connection; s.done has room for this one value.
Wait ==
    /\ pc[Waiter] = "wait" /\ Ended
    /\ signal' = IF shell = "exit0" THEN "clean" ELSE "error"
    /\ Goto(Waiter, "posted")
    /\ UNCHANGED <<connVars, closeVars, lockVars, open, queued, pump, ticker, consumer>>

PumpRead(p) ==
    /\ pump[p] = "read" /\ inbox[p] > 0
    /\ inbox' = [inbox EXCEPT ![p] = @ - 1]
    /\ pump' = [pump EXCEPT ![p] = "send"]
    /\ UNCHANGED <<conn, shell, closeVars, lockVars, chanVars, pc, ticker, consumer>>

PumpEof(p) ==
    /\ pump[p] = "read" /\ inbox[p] = 0 /\ Ended
    /\ pump' = [pump EXCEPT ![p] = "exit"]
    /\ UNCHANGED <<connVars, closeVars, lockVars, chanVars, pc, ticker, consumer>>

\* Mutant: an output queue that never blocks its pump.
PumpSendUnbounded(p) ==
    /\ pump[p] = "send"
    /\ queued' = queued + 1
    /\ pump' = [pump EXCEPT ![p] = "read"]
    /\ UNCHANGED <<connVars, closeVars, lockVars, open, signal, pc, ticker, consumer>>

PumpSend(p) ==
    /\ pump[p] = "send" /\ queued < Cap
    /\ queued' = queued + 1
    /\ pump' = [pump EXCEPT ![p] = "read"]
    /\ UNCHANGED <<connVars, closeVars, lockVars, open, signal, pc, ticker, consumer>>

\* The other branch of the select: the chunk in hand is dropped.
PumpStop(p) ==
    /\ pump[p] = "send" /\ stop
    /\ pump' = [pump EXCEPT ![p] = "exit"]
    /\ UNCHANGED <<connVars, closeVars, lockVars, chanVars, pc, ticker, consumer>>

\* keepAlive: the ticker fires and a request is sent, or the session stops.
Tick ==
    /\ ticker = "tick"
    /\ ticker' \in {"request"} \cup (IF stop THEN {"exit"} ELSE {})
    /\ UNCHANGED <<connVars, closeVars, lockVars, chanVars, pc, pump, consumer>>

TickAnswered ==
    /\ ticker = "request" /\ conn = "up"
    /\ ticker' = "tick"
    /\ UNCHANGED <<connVars, closeVars, lockVars, chanVars, pc, pump, consumer>>

TickFails ==
    /\ ticker = "request" /\ conn = "down"
    /\ ticker' = "exit"
    /\ UNCHANGED <<connVars, closeVars, lockVars, chanVars, pc, pump, consumer>>

\* attachSession's range over Output(): it ends when the channel is closed.
Consume ==
    /\ consumer = "range"
    /\ \/ queued > 0 /\ queued' = queued - 1 /\ UNCHANGED consumer
       \/ queued = 0 /\ ~open /\ consumer' = "exit" /\ UNCHANGED queued
    /\ UNCHANGED <<connVars, closeVars, lockVars, open, signal, pc, pump, ticker>>

-----------------------------------------------------------------------------
Peer == \/ \E p \in Pumps : Produce(p)
        \/ \E s \in {"exit0", "exitN"} : ShellExit(s)
        \/ ConnLost

Call(c) == Send(c) \/ Request(c) \/ SFTP(c)

CloseStep(c) == \/ CloseMark(c) \/ CloseSftp(c) \/ CloseConn(c)
                \/ CloseOutput(c) \/ CloseWaited(c)

PumpStep(p) == PumpRead(p) \/ PumpEof(p) \/ PumpSend(p) \/ PumpStop(p)

Next == \/ Peer
        \/ \E c \in Callers : Call(c) \/ Answered(c) \/ CallFails(c)
        \/ \E c \in Closers : CloseBegin(c) \/ CloseStep(c)
        \/ \E p \in Pumps : PumpStep(p)
        \/ Wait \/ Tick \/ TickAnswered \/ TickFails \/ Consume

Spec == Init /\ [][Next]_vars

-----------------------------------------------------------------------------
(* Fairness.  Every goroutine the program starts keeps running; nobody is   *)
(* obliged to call a method.  The steps of Close compete for mutexes that  *)
(* other goroutines may take again and again: Go hands a mutex to a waiter   *)
(* that has starved for a millisecond, hence SF.                            *)
Fairness ==
    /\ \A c \in Callers : WF_vars(CallFails(c))
    /\ \A c \in Closers : SF_vars(CloseStep(c))
    /\ \A p \in Pumps : WF_vars(PumpStep(p))
    /\ WF_vars(Wait \/ CloseBegin(Waiter))
    /\ WF_vars(Tick \/ TickFails)
    /\ WF_vars(Consume)

\* The peer's part, which no code of this program enforces: it lets every
\* write through and answers every request, or the transport goes down.
PeerResponds == /\ \A c \in Callers : WF_vars(Answered(c))
                /\ WF_vars(TickAnswered)

FairSpec == Spec /\ Fairness
LiveSpec == FairSpec /\ PeerResponds

-----------------------------------------------------------------------------
(* Properties *)

\* No pump ever sends on the closed output channel, which would panic and end
\* the process: when the channel is closed both pumps have returned.
NoSendOnClosedOutput == ~open => \A p \in Pumps : pump[p] = "exit"

\* The steps of Close run once, whoever of the application's goroutines and
\* the session's own waiter call it at the same time: s.stop and s.output are
\* never closed twice.
OneCloser == \A c, d \in Closers : pc[c] \in Closing /\ pc[d] \in Closing => c = d

\* A call that checked `closed' has left the connection before Close tears it
\* down: Send, KeepAlive, Dial and ListenRemote never overlap CloseConn.
NoCallDuringTeardown == closed => \A c \in Callers : pc[c] \notin {"write", "request"}

\* Close leaves no sftp client behind and lets none be opened after it closed
\* the one there was, although SFTP reads `closed' outside the lock that
\* guards it.
NoSftpAfterClose ==
    (once = "done" \/ \E c \in Closers : pc[c] \in {"close_conn", "close_output"})
        => sftp # "open" /\ \A c \in Callers : pc[c] # "sftp_init"

\* What the application relies on: the channel and the end signal behave as
\* TermSession says.
Term == INSTANCE TermSession WITH stopped <- stop
ImplementsTermSession == Term!Spec

\* Everything the session started has ended: no goroutine is leaked.
AllFinished == /\ once = "done" /\ pc[Waiter] = "gone"
               /\ \A p \in Pumps : pump[p] = "exit"
               /\ ticker = "exit" /\ consumer = "exit"

\* A session whose remote shell exited or whose connection broke reports it
\* and ends all its goroutines, the consumer of its output included.
EndIsCleanedUp == Ended ~> (signal # "none" /\ AllFinished)

\* A session that the application closes ends all its goroutines too.
CloseCompletes == stop ~> AllFinished
=============================================================================
