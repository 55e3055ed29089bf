------------------------- MODULE AppSessions_proofs -------------------------
(* What holds of the session table for any number of sessions, connections    *)
(* and attempts.  IInv: the connections of a session form a chain in which    *)
(* one at most is watched and each new one is about to be handed over, the    *)
(* watcher of a session knows whether its history file is open, and ssh-exit  *)
(* is emitted when the chain has ended.                                       *)
EXTENDS AppSessions, TLAPS

Early == {"history", "audit", "auditID", "attach"}
Late == {"returned", "shown"}
HandsOver == {"install", "attach"}
After == {"closing", "audit", "save", "cleanup", "gone"}

\* Connections are made in order; one whose end was noticed has ended.
Made ==
    \A k \in Conns :
        /\ k > made => /\ owner[k] = None /\ proto[k] = "none" /\ life[k] = "unused"
                       /\ watcher[k] = "none" /\ signal[k] = "none"
        /\ k <= made => owner[k] \in 1..nextID /\ proto[k] \in Protocols /\ life[k] # "unused"
        /\ watcher[k] \notin {"none", "wait"} => life[k] \in {"clean", "error"}
        /\ signal[k] \in {"clean", "error"} => life[k] \in {"clean", "error"}
        /\ watcher[k] \in {"none", "wait", "check", "retry"} => attempt[k] < MaxAttempts

\* Until Connect has attached it a session has one connection, which nobody
\* watches, and the window does not know it.
Fresh ==
    \A i \in Ids :
        /\ connect[i] = "none" <=> i > nextID
        /\ connect[i] \in Early =>
             /\ sessions[i] # None
             /\ \A k \in Conns : owner[k] = i => watcher[k] = "none" /\ k = sessions[i]
        /\ connect[i] # "shown" => tab[i] = "none"
        /\ connect[i] \notin Late => exits[i] = 0

\* A connection that nobody watches yet is the next one of a watcher.
Chain ==
    /\ \A k \in Conns : owner[k] # None /\ watcher[k] = "none" =>
           \/ connect[owner[k]] \in Early
           \/ \E w \in Conns : watcher[w] \in HandsOver /\ next[w] = k
    /\ \A w \in Conns : watcher[w] \in HandsOver =>
           next[w] \in Conns /\ owner[next[w]] = owner[w] /\ watcher[next[w]] = "none"
    /\ \A w \in Conns : watcher[w] = "attach" => sessions[owner[w]] # w

\* ssh-exit: when it was emitted the chain of the session has ended.
Exits ==
    \A i \in Ids : exits[i] # 0 =>
        exits[i] = 1 /\ \A k \in Conns : owner[k] = i => watcher[k] \in After

\* The watcher knows whether the history file may be open.
Histories ==
    \A i \in Ids :
        /\ file[i] = "open" => i \in history
        /\ \A k \in Watching(i) : ~hf[k] => i \notin history

IInv == /\ TypeOK /\ Made /\ Fresh /\ Chain /\ OneWatcher /\ SessionIsWatched
        /\ Exits /\ Histories /\ NothingLeftBehind

USE AppAssumption DEF AppAssumption, None

\* It holds before the first session.
LEMMA InitIInv == Init => IInv
<1> SUFFICES ASSUME Init PROVE IInv
  OBVIOUS
<1> USE DEF Init
<1>1. TypeOK
  BY DEF TypeOK, NoAudit
<1>2. Made /\ Fresh /\ Chain /\ OneWatcher /\ SessionIsWatched
  BY DEF Made, Fresh, Chain, OneWatcher, SessionIsWatched, Watching, Early, Late, HandsOver, Ids, Conns
<1>3. Exits /\ Histories /\ NothingLeftBehind
  BY DEF Exits, Histories, NothingLeftBehind, Watching
<1> QED
  BY <1>1, <1>2, <1>3 DEF IInv

\* A connection that is watched belongs to a session that Connect has attached.
LEMMA WatchedOwner ==
    ASSUME IInv, NEW k \in Conns, watcher[k] # "none"
    PROVE  owner[k] \in Ids /\ owner[k] # None /\ connect[owner[k]] \in Late
<1>1. owner[k] \in 1..nextID /\ owner[k] \in Ids
  BY DEF IInv, TypeOK, Made, Conns, Ids
<1>2. connect[owner[k]] # "none" /\ connect[owner[k]] \notin Early
  BY <1>1 DEF IInv, TypeOK, Fresh
<1> QED
  BY <1>1, <1>2 DEF IInv, TypeOK, Early, Late

-----------------------------------------------------------------------------
(* Types *)

\* What StartAudit and SaveAuditEnd write are audit records.
Audits == [start : BOOLEAN, end : BOOLEAN]

\* Writing such a record at an id keeps the type of the store.
LEMMA AuditWritten ==
    ASSUME audit \in [Ids -> Audits], NEW i \in Ids,
           NEW s \in BOOLEAN, NEW e \in BOOLEAN,
           audit' = [audit EXCEPT ![i] = [start |-> s, end |-> e]]
    PROVE  audit' \in [Ids -> Audits]
<1>1. [start |-> s, end |-> e] \in Audits
  BY DEF Audits
<1> QED
  BY <1>1

\* Every step keeps the types.
LEMMA TypesStep == ASSUME IInv, [Next]_vars PROVE TypeOK'
<1> USE DEF AtWatcher, AskClose, Attached, NoAudit
<1> USE DEF connVars, mapVars, storeVars, goVars, closeVars, uiVars, others, appVars, TypeOK
<1> USE DEF IInv
<1>1. TypeOK
  OBVIOUS
<1>d. ASSUME NEW i, NEW p, p \in Protocols, i \in Ids, Dialled(i, p)
      PROVE  /\ made + 1 \in Conns /\ made' = made + 1 /\ made' \in 0..MaxConns
             /\ owner' \in [Conns -> Ids \cup {None}]
             /\ proto' \in [Conns -> {"none", "ssh", "telnet"}]
             /\ life' \in [Conns -> {"unused", "live", "clean", "error"}]
             /\ UNCHANGED <<signal, close>>
  BY <1>1, <1>d DEF Dialled, Conns
<1> HIDE DEF IInv
<1>2. ASSUME NEW k \in Conns, PostSignal(k) PROVE TypeOK'
  BY <1>1, <1>2 DEF PostSignal
<1>3. ASSUME NEW k \in Conns, SelfClose(k) PROVE TypeOK'
  BY <1>1, <1>3 DEF SelfClose
<1>4. ASSUME NEW k \in Conns, Teardown(k) PROVE TypeOK'
  BY <1>1, <1>4 DEF Teardown
<1>5. ASSUME NEW k \in Conns, SignalLost(k) PROVE TypeOK'
  BY <1>1, <1>5 DEF SignalLost
<1>6. ASSUME NEW k \in Conns, CloseDone(k) PROVE TypeOK'
  BY <1>1, <1>6 DEF CloseDone
<1>7. ASSUME NEW k \in Conns, TakeSignal(k) PROVE TypeOK'
  BY <1>1, <1>7 DEF TakeSignal
<1>8. ASSUME NEW k \in Conns, CheckManual(k) PROVE TypeOK'
  BY <1>1, <1>8 DEF CheckManual
<1>9. ASSUME NEW k \in Conns, ExitClosed(k) PROVE TypeOK'
  BY <1>1, <1>9 DEF ExitClosed
<1>10. ASSUME NEW k \in Conns, TakeAuditID(k) PROVE TypeOK'
  BY <1>1, <1>10 DEF TakeAuditID
<1>11. ASSUME NEW k \in Conns, ConsumerEnds(k) PROVE TypeOK'
  BY <1>1, <1>11 DEF ConsumerEnds
<1>12. ASSUME NEW i \in Ids, OpenHistory(i) PROVE TypeOK'
  BY <1>1, <1>12 DEF OpenHistory
<1>13. ASSUME NEW i \in Ids, KeepAuditID(i) PROVE TypeOK'
  BY <1>1, <1>13 DEF KeepAuditID
<1>14. ASSUME NEW i \in Ids, AttachFirst(i) PROVE TypeOK'
  BY <1>1, <1>14 DEF AttachFirst
<1>15. ASSUME NEW i \in Ids, OnConnected(i) PROVE TypeOK'
  BY <1>1, <1>15 DEF OnConnected
<1>16. ASSUME NEW i \in Ids, OnExit(i) PROVE TypeOK'
  BY <1>1, <1>16 DEF OnExit
<1>17. ASSUME NEW i \in Ids, SshClose(i) PROVE TypeOK'
  BY <1>1, <1>17 DEF SshClose
<1>18. ASSUME NEW i \in Ids, CloseTunnels(i) PROVE TypeOK'
  BY <1>1, <1>18 DEF CloseTunnels
<1>19. ASSUME NEW i \in Ids, CloseReturns(i) PROVE TypeOK'
  BY <1>1, <1>19 DEF CloseReturns
<1>20. ASSUME NEW i \in Ids, OpenTunnel(i) PROVE TypeOK'
  BY <1>1, <1>20 DEF OpenTunnel
<1>20f. ASSUME NEW i \in Ids, OpenTunnelFails(i) PROVE TypeOK'
  BY <1>1, <1>20f DEF OpenTunnelFails
<1>21. ASSUME NEW i \in Ids, RegisterTunnel(i) PROVE TypeOK'
  BY <1>1, <1>21 DEF RegisterTunnel
<1>22. ASSUME NEW i \in Ids, StopTunnel(i) PROVE TypeOK'
  BY <1>1, <1>22 DEF StopTunnel
<1>23. ASSUME NEW k \in Conns, NEW how \in {"clean", "error"}, RemoteEnds(k, how) PROVE TypeOK'
  BY <1>1, <1>23 DEF RemoteEnds
<1>24. ASSUME NEW i \in Ids, StartAudit(i) PROVE TypeOK'
  <2>1. audit' \in [Ids -> [start : BOOLEAN, end : BOOLEAN]]
    <3>1. CASE UNCHANGED audit
      BY <1>1, <3>1
    <3>2. CASE audit' = [audit EXCEPT ![i] = [start |-> TRUE, end |-> FALSE]]
      BY <1>1, <3>2, AuditWritten DEF Audits
    <3>3. UNCHANGED audit \/ audit' = [audit EXCEPT ![i] = [start |-> TRUE, end |-> FALSE]]
      BY <1>24 DEF StartAudit
    <3> QED
      BY <3>1, <3>2, <3>3
  <2>2. connect' \in [Ids -> {"none", "history", "audit", "auditID", "attach", "returned", "shown"}]
    <3>1. PICK c \in {"auditID", "attach"} : connect' = [connect EXCEPT ![i] = c]
      BY <1>24 DEF StartAudit
    <3> QED
      BY <1>1, <3>1
  <2> QED
    BY <1>1, <1>24, <2>1, <2>2 DEF StartAudit
<1>25. ASSUME NEW i \in Ids, CloseSession(i) PROVE TypeOK'
  <2>1. close' \in [Conns -> {"no", "asked", "closed"}]
    BY <1>1, <1>25 DEF CloseSession
  <2>2. closer' \in [Ids -> {"idle", "tunnels", "close", "closing", "done"}]
    BY <1>1, <1>25 DEF CloseSession
  <2> QED
    BY <1>1, <1>25, <2>1, <2>2 DEF CloseSession
<1>26. ASSUME NEW k \in Conns, RetryFails(k) PROVE TypeOK'
  <2>1. attempt[k] + 1 \in 0..MaxAttempts
    BY <1>1, <1>26 DEF IInv, Made, RetryFails
  <2>2. attempt' \in [Conns -> 0..MaxAttempts]
    BY <1>1, <1>26, <2>1 DEF RetryFails
  <2>3. watcher' \in [Conns -> {"none", "wait", "check", "retry", "install", "attach", "exit",
                                "closing", "audit", "save", "cleanup", "gone"}]
    BY <1>1, <1>26 DEF RetryFails
  <2> QED
    BY <1>1, <1>26, <2>2, <2>3 DEF RetryFails
<1>27. ASSUME NEW k \in Conns, RetryConnects(k) PROVE TypeOK'
  <2>1. owner[k] \in Ids
    BY <1>1, <1>27, WatchedOwner DEF RetryConnects
  <2>2. proto[k] \in Protocols /\ Dialled(owner[k], proto[k])
    <3>1. watcher[k] # "none" /\ Dialled(owner[k], proto[k])
      BY <1>27 DEF RetryConnects
    <3>2. k \in Nat /\ made \in Nat
      BY <1>1 DEF Conns
    <3>3. /\ k > made => watcher[k] = "none"
          /\ k <= made => proto[k] \in Protocols
      BY DEF IInv, Made
    <3> QED
      BY <3>1, <3>2, <3>3
  <2>3. next' \in [Conns -> Conns \cup {None}]
    BY <1>1, <1>27, <1>d, <2>1, <2>2 DEF RetryConnects
  <2>4. watcher' \in [Conns -> {"none", "wait", "check", "retry", "install", "attach", "exit",
                                "closing", "audit", "save", "cleanup", "gone"}]
    BY <1>1, <1>27 DEF RetryConnects
  <2>5. TypeOK'
    BY <1>1, <1>27, <1>d, <2>1, <2>2, <2>3, <2>4 DEF RetryConnects
  <2> QED
    BY <1>1, <1>27, <2>3, <2>4, <2>5 DEF RetryConnects
<1>28. ASSUME NEW k \in Conns, Install(k) PROVE TypeOK'
  <2>1. owner[k] \in Ids /\ next[k] \in Conns
    BY <1>1, <1>28, WatchedOwner DEF Install, IInv, Chain, HandsOver
  <2>2. sessions' \in [Ids -> Conns \cup {None}]
    BY <1>1, <1>28, <2>1 DEF Install
  <2>3. watcher' \in [Conns -> {"none", "wait", "check", "retry", "install", "attach", "exit",
                                "closing", "audit", "save", "cleanup", "gone"}]
    BY <1>1, <1>28 DEF Install
  <2> QED
    BY <1>1, <1>28, <2>2, <2>3 DEF Install
<1>29. ASSUME NEW k \in Conns, AttachNext(k) PROVE TypeOK'
  <2>1. owner[k] \in Ids /\ next[k] \in Conns
    BY <1>1, <1>29, WatchedOwner DEF AttachNext, IInv, Chain, HandsOver
  <2>2. hf' \in [Conns -> BOOLEAN]
    BY <1>1, <1>29, <2>1 DEF AttachNext
  <2>3. consumer' \in [Conns -> {"none", "range", "exit"}]
    BY <1>1, <1>29, <2>1 DEF AttachNext
  <2>4. watcher' \in [Conns -> {"none", "wait", "check", "retry", "install", "attach", "exit",
                                "closing", "audit", "save", "cleanup", "gone"}]
    BY <1>1, <1>29, <2>1 DEF AttachNext
  <2> QED
    BY <1>1, <1>29, <2>2, <2>3, <2>4 DEF AttachNext
<1>30. ASSUME NEW k \in Conns, EmitExit(k) PROVE TypeOK'
  <2>1. owner[k] \in Ids
    BY <1>1, <1>30, WatchedOwner DEF EmitExit
  <2>2. exits[owner[k]] = 0 /\ 1 \in 0..MaxConns
    <3>1. watcher[k] = "exit"
      BY <1>30 DEF EmitExit
    <3>2. exits[owner[k]] = 0
      BY <2>1, <3>1 DEF IInv, Exits, After
    <3> QED
      BY <3>2 DEF Conns
  <2>3. exits' \in [Ids -> 0..MaxConns]
    BY <1>1, <1>30, <2>1, <2>2 DEF EmitExit
  <2>4. exitMsg' \subseteq Ids
    BY <1>1, <1>30, <2>1 DEF EmitExit
  <2>5. close' \in [Conns -> {"no", "asked", "closed"}]
    BY <1>1, <1>30 DEF EmitExit
  <2>6. watcher' \in [Conns -> {"none", "wait", "check", "retry", "install", "attach", "exit",
                                "closing", "audit", "save", "cleanup", "gone"}]
    BY <1>1, <1>30 DEF EmitExit
  <2> QED
    BY <1>1, <1>30, <2>3, <2>4, <2>5, <2>6 DEF EmitExit
<1>31. ASSUME NEW k \in Conns, SaveAuditEnd(k) PROVE TypeOK'
  <2>1. audit' \in [Ids -> [start : BOOLEAN, end : BOOLEAN]]
    <3>1. owner[k] \in Ids
      BY <1>31, WatchedOwner DEF SaveAuditEnd
    <3>2. CASE UNCHANGED audit
      BY <1>1, <3>2
    <3>3. CASE audit' = [audit EXCEPT ![owner[k]] = [start |-> FALSE, end |-> TRUE]]
      BY <1>1, <3>1, <3>3, AuditWritten DEF Audits
    <3> QED
      BY <1>31, <3>2, <3>3 DEF SaveAuditEnd
  <2>2. watcher' \in [Conns -> {"none", "wait", "check", "retry", "install", "attach", "exit",
                                "closing", "audit", "save", "cleanup", "gone"}]
    BY <1>1, <1>31 DEF SaveAuditEnd
  <2> QED
    BY <1>1, <1>31, <2>1, <2>2 DEF SaveAuditEnd
<1>32. ASSUME NEW k \in Conns, Cleanup(k) PROVE TypeOK'
  <2>1. file' \in [Ids -> {"none", "open", "closed"}]
    BY <1>1, <1>32 DEF Cleanup
  <2>2. history' \subseteq Ids
    BY <1>1, <1>32 DEF Cleanup
  <2>3. sessions' \in [Ids -> Conns \cup {None}]
    BY <1>1, <1>32 DEF Cleanup
  <2>4. connConfigs' \subseteq Ids /\ manualClose' \subseteq Ids /\ auditIDs' \subseteq Ids
    BY <1>1, <1>32 DEF Cleanup
  <2>5. watcher' \in [Conns -> {"none", "wait", "check", "retry", "install", "attach", "exit",
                                "closing", "audit", "save", "cleanup", "gone"}]
    BY <1>1, <1>32 DEF Cleanup
  <2> QED
    BY <1>1, <1>32, <2>1, <2>2, <2>3, <2>4, <2>5 DEF Cleanup
<1>33. ASSUME NEW p \in Protocols, Connect(p) PROVE TypeOK'
  <2> DEFINE i == nextID + 1
  <2>1. i \in Ids /\ i \in 0..MaxIds
    BY <1>1, <1>33 DEF Connect, Ids
  <2>2. Dialled(i, p)
    BY <1>33 DEF Connect
  <2> HIDE DEF i
  <2>3. sessions' \in [Ids -> Conns \cup {None}]
    BY <1>1, <1>33, <1>d, <2>1, <2>2 DEF i, Connect
  <2>4. connect' \in [Ids -> {"none", "history", "audit", "auditID", "attach", "returned", "shown"}]
    BY <1>1, <1>33, <2>1 DEF i, Connect
  <2>5. TypeOK'
    BY <1>1, <1>33, <1>d, <2>1, <2>2, <2>3, <2>4 DEF i, Connect
  <2> QED
    BY <1>1, <1>33, <2>3, <2>4, <2>5 DEF Connect
<1>34. CASE UNCHANGED vars
  BY <1>1, <1>34 DEF vars
<1> QED
  BY <1>2, <1>3, <1>4, <1>5, <1>6, <1>7, <1>8, <1>9, <1>10, <1>11, <1>12, <1>13, <1>14,
     <1>15, <1>16, <1>17, <1>18, <1>19, <1>20, <1>20f, <1>21, <1>22, <1>23, <1>24, <1>25, <1>26,
     <1>27, <1>28, <1>29, <1>30, <1>31, <1>32, <1>33, <1>34
     DEF Next, Session, Watch, Retry, Connecting, Closing

-----------------------------------------------------------------------------
(* What the steps leave alone *)

tables == <<nextID, sessions, connConfigs, history, auditIDs>>
chain == <<made, owner, proto, watcher, attempt, next, hf>>

\* The steps of a connection change how it ends.
LEMMA ConnSteps ==
    ASSUME NEW k, (\E how \in {"clean", "error"} : RemoteEnds(k, how)) \/ Session(k)
    PROVE  UNCHANGED <<tables, chain, connect, file, tunnels, closer, exits, tab>>
BY DEF RemoteEnds, Session, PostSignal, SelfClose, Teardown, SignalLost, CloseDone, tables, chain,
       appVars, mapVars, storeVars, goVars, others, closeVars, uiVars

\* The consumer of the output, the window, tunnels and the end of SshClose leave
\* the tables and the chain alone.
LEMMA SideSteps ==
    ASSUME NEW x,
           \/ ConsumerEnds(x) \/ OnExit(x) \/ CloseTunnels(x) \/ CloseSession(x) \/ CloseReturns(x)
           \/ OpenTunnel(x) \/ OpenTunnelFails(x) \/ RegisterTunnel(x) \/ StopTunnel(x)
    PROVE  UNCHANGED <<tables, chain, life, signal, connect, file, exits>>
BY DEF ConsumerEnds, OnExit, CloseTunnels, CloseSession, CloseReturns, OpenTunnel, OpenTunnelFails, RegisterTunnel,
       StopTunnel, AskClose, tables, chain, connVars, mapVars, storeVars, goVars, uiVars

\* Connect until it attaches, and the tab.
LEMMA ConnectSteps ==
    ASSUME TypeOK, NEW i \in Ids, OpenHistory(i) \/ StartAudit(i) \/ KeepAuditID(i) \/ OnConnected(i)
    PROVE  /\ UNCHANGED <<nextID, sessions, connConfigs, chain, life, signal, exits, tunnels, closer>>
           /\ \E c \in {"audit", "auditID", "attach", "shown"} :
                 /\ connect' = [connect EXCEPT ![i] = c]
                 /\ c = "shown" => connect[i] = "returned"
                 /\ c # "shown" => connect[i] \in Early /\ UNCHANGED tab
           /\ connect[i] \in Early \/ UNCHANGED <<file, history, auditIDs>>
BY DEF OpenHistory, StartAudit, KeepAuditID, OnConnected, chain, connVars, goVars, mapVars, storeVars,
       closeVars, uiVars, Early

\* A step of the watcher that only goes on.
GoesOn(k, to) ==
    /\ watcher' = [watcher EXCEPT ![k] = to]
    /\ UNCHANGED <<nextID, connConfigs, history, made, owner, proto, next, hf, life, signal, connect, file,
                   tunnels, closer, tab>>

\* An attempt that is not the last leaves one.
LEMMA AttemptLeft ==
    ASSUME TypeOK, NEW k \in Conns, attempt[k] < MaxAttempts, attempt[k] + 1 # MaxAttempts
    PROVE  attempt[k] + 1 < MaxAttempts
<1>1. attempt[k] \in Nat
  BY DEF TypeOK
<1> QED
  BY <1>1

\* A step of a watcher goes on, or is one of five that do more.
LEMMA WatchSteps ==
    ASSUME IInv, NEW k \in Conns, Watch(k)
    PROVE  \/ \E to \in {"check", "retry", "exit", "audit", "save", "cleanup"} :
                 /\ GoesOn(k, to) /\ UNCHANGED <<sessions, exits>>
                 /\ watcher[k] \in {"wait", "check", "retry", "closing", "audit", "save"}
                 /\ to \in {"audit", "save", "cleanup"} <=> watcher[k] \in {"closing", "audit", "save"}
                 /\ auditIDs' \subseteq auditIDs
                 /\ watcher[k] = "wait" => signal[k] \in {"clean", "error"}
                 /\ UNCHANGED attempt \/ attempt' = [attempt EXCEPT ![k] = @ + 1]
                 /\ to \in {"check", "retry"} => attempt'[k] < MaxAttempts
           \/ RetryConnects(k) \/ Install(k) \/ AttachNext(k) \/ EmitExit(k) \/ Cleanup(k)
<1> USE DEF Watch, Retry, AtWatcher, GoesOn, IInv, TypeOK
<1> USE DEF connVars, mapVars, storeVars, goVars, others, closeVars, uiVars
<1>1. CASE TakeSignal(k)
  BY <1>1 DEF TakeSignal, Made
<1>2. CASE CheckManual(k)
  BY <1>2 DEF CheckManual, Made
<1>3. CASE RetryFails(k)
  <2>1. watcher[k] = "retry" /\ attempt[k] < MaxAttempts /\ attempt'[k] = attempt[k] + 1
    BY <1>3 DEF RetryFails, Made
  <2>2. CASE attempt[k] + 1 = MaxAttempts
    BY <1>3, <2>1, <2>2 DEF RetryFails
  <2>3. CASE attempt[k] + 1 # MaxAttempts
    <3>1. attempt'[k] < MaxAttempts
      BY <2>1, <2>3, AttemptLeft
    <3>2. watcher' = [watcher EXCEPT ![k] = "retry"]
      BY <1>3, <2>3 DEF RetryFails
    <3> QED
      BY <1>3, <2>1, <3>1, <3>2 DEF RetryFails
  <2> QED
    BY <2>2, <2>3
<1>4. CASE ExitClosed(k) \/ TakeAuditID(k) \/ SaveAuditEnd(k)
  BY <1>4 DEF ExitClosed, TakeAuditID, SaveAuditEnd
<1> QED
  BY <1>1, <1>2, <1>3, <1>4

-----------------------------------------------------------------------------
(* The chain of connections *)

\* Every step keeps the connections in order.
LEMMA MadeStep == ASSUME IInv, [Next]_vars PROVE Made'
<1> USE DEF IInv, TypeOK
<1>1. CASE UNCHANGED <<nextID, made, owner, proto, watcher, attempt, life, signal>>
  BY <1>1 DEF Made
<1>2. ASSUME NEW k \in Conns, UNCHANGED <<nextID, made, owner, proto, watcher, attempt>>,
             \/ \E how \in {"clean", "error"} :
                   life[k] = "live" /\ life' = [life EXCEPT ![k] = how] /\ UNCHANGED signal
             \/ life[k] # "live" /\ UNCHANGED life /\ signal[k] = "none" /\ life[k] # "unused"
                /\ signal' = [signal EXCEPT ![k] = life[k]]
             \/ UNCHANGED life /\ life[k] # "unused" /\ signal' = [signal EXCEPT ![k] = "lost"]
             \/ UNCHANGED <<life, signal>>
      PROVE  Made'
  BY <1>2 DEF Made
<1>3. ASSUME NEW k \in Conns, (\E how \in {"clean", "error"} : RemoteEnds(k, how)) \/ Session(k)
      PROVE  Made'
  <2>1. UNCHANGED <<nextID, made, owner, proto, watcher, attempt>>
    BY <1>3, ConnSteps DEF tables, chain
  <2>2. proto[k] = "telnet" => life[k] # "unused"
    BY DEF Made, Conns
  <2> QED
    BY <1>2, <1>3, <2>1, <2>2 DEF RemoteEnds, Session, PostSignal, SelfClose, Teardown, SignalLost, CloseDone
<1>4. ASSUME NEW i, NEW p \in Protocols, Dialled(i, p), UNCHANGED attempt,
             nextID' \in Nat, nextID <= nextID', i \in 1..nextID',
             \A l \in Conns : \/ watcher'[l] = watcher[l]
                              \/ l <= made /\ watcher[l] = "retry" /\ watcher'[l] = "install"
      PROVE  Made'
  <2> DEFINE n == made + 1
  <2>1. n \in Conns /\ made' = n /\ watcher[n] = "none" /\ signal[n] = "none"
    BY <1>4 DEF Dialled, Made, Conns
  <2>2. /\ owner'[n] = i /\ proto'[n] = p /\ life'[n] = "live" /\ UNCHANGED signal
        /\ \A l \in Conns : l # n => owner'[l] = owner[l] /\ proto'[l] = proto[l] /\ life'[l] = life[l]
    BY <1>4, <2>1 DEF Dialled
  <2>3. watcher'[n] = "none"
    BY <1>4, <2>1
  <2> SUFFICES ASSUME NEW l \in Conns
               PROVE  /\ l > made' => /\ owner'[l] = None /\ proto'[l] = "none" /\ life'[l] = "unused"
                                        /\ watcher'[l] = "none" /\ signal'[l] = "none"
                      /\ l <= made' => /\ owner'[l] \in 1..nextID' /\ proto'[l] \in Protocols
                                        /\ life'[l] # "unused"
                      /\ watcher'[l] \notin {"none", "wait"} => life'[l] \in {"clean", "error"}
                      /\ signal'[l] \in {"clean", "error"} => life'[l] \in {"clean", "error"}
                      /\ watcher'[l] \in {"none", "wait", "check", "retry"} => attempt'[l] < MaxAttempts
    BY DEF Made
  <2>4. CASE l = n
    BY <1>4, <2>1, <2>2, <2>3, <2>4 DEF Made
  <2>5. CASE l # n
    <3>1. (l > made' => l > made) /\ (l <= made' => l <= made)
      BY <2>1, <2>5 DEF Conns
    <3> QED
      BY <1>4, <2>1, <2>2, <2>5, <3>1 DEF Made
  <2> QED
    BY <2>4, <2>5
<1>5. ASSUME NEW p \in Protocols, Connect(p) PROVE Made'
  <2>1. nextID' = nextID + 1 /\ Dialled(nextID + 1, p) /\ UNCHANGED <<attempt, watcher>>
    BY <1>5 DEF Connect, goVars
  <2> QED
    BY <1>4, <2>1
<1>6. ASSUME NEW i \in Ids, AttachFirst(i) PROVE Made'
  <2>1. PICK k \in Conns : owner[k] = i /\ watcher' = [watcher EXCEPT ![k] = "wait"]
    BY <1>6 DEF AttachFirst
  <2>2. connect[i] \in Early /\ UNCHANGED <<nextID, made, owner, proto, attempt, life, signal>>
    BY <1>6 DEF AttachFirst, Early, connVars, mapVars
  <2>3. watcher[k] = "none" /\ k <= made
    BY <2>1, <2>2 DEF Fresh, Made, Conns, Ids
  <2> QED
    BY <2>1, <2>2, <2>3 DEF Made
<1>7. ASSUME NEW k \in Conns, Watch(k) PROVE Made'
  <2>0. watcher[k] # "none" => k <= made
    BY DEF Made, Conns
  <2>1. ASSUME NEW to \in {"check", "retry", "exit", "audit", "save", "cleanup"},
               GoesOn(k, to), watcher[k] \in {"wait", "check", "retry", "closing", "audit", "save"},
               watcher[k] = "wait" => signal[k] \in {"clean", "error"},
               UNCHANGED attempt \/ attempt' = [attempt EXCEPT ![k] = @ + 1],
               to \in {"check", "retry"} => attempt'[k] < MaxAttempts
        PROVE  Made'
    BY <2>0, <2>1 DEF GoesOn, Made
  <2>2. CASE RetryConnects(k)
    <3>1. owner[k] \in 1..nextID /\ proto[k] \in Protocols /\ k <= made /\ watcher[k] = "retry"
      BY <2>0, <2>2 DEF RetryConnects, AtWatcher, Made, Conns
    <3>2. UNCHANGED <<nextID, attempt>> /\ Dialled(owner[k], proto[k]) /\ watcher' = [watcher EXCEPT ![k] = "install"]
      BY <2>2 DEF RetryConnects, AtWatcher, mapVars
    <3> QED
      BY <1>4, <3>1, <3>2
  <2>3. CASE Install(k) \/ EmitExit(k) \/ Cleanup(k)
    BY <2>0, <2>3 DEF Install, EmitExit, Cleanup, AtWatcher, Made, connVars, goVars, mapVars
  <2>4. CASE AttachNext(k)
    <3>1. next[k] \in Conns /\ watcher[next[k]] = "none" /\ owner[next[k]] = owner[k] /\ owner[k] # None
      BY <2>4, WatchedOwner DEF AttachNext, Chain, HandsOver
    <3>2. next[k] <= made
      BY <3>1 DEF Made, Conns
    <3> QED
      BY <2>0, <2>4, <3>1, <3>2 DEF AttachNext, Attached, Made, connVars, mapVars
  <2> QED
    BY <1>7, <2>1, <2>2, <2>3, <2>4, WatchSteps
<1>8. ASSUME NEW i \in Ids, SshClose(i) PROVE Made'
  BY <1>1, <1>8 DEF SshClose, connVars, goVars
<1>9. CASE UNCHANGED vars
  BY <1>1, <1>9 DEF vars, appVars, connVars, mapVars, goVars
<1>10. ASSUME NEW i \in Ids, OpenHistory(i) \/ StartAudit(i) \/ KeepAuditID(i) \/ OnConnected(i) PROVE Made'
  BY <1>1, <1>10, ConnectSteps DEF chain
<1>11. ASSUME NEW x, \/ ConsumerEnds(x) \/ OnExit(x) \/ CloseTunnels(x) \/ CloseSession(x)
                     \/ CloseReturns(x) \/ OpenTunnel(x) \/ OpenTunnelFails(x) \/ RegisterTunnel(x) \/ StopTunnel(x)
       PROVE  Made'
  BY <1>1, <1>11, SideSteps DEF chain, tables
<1> QED
  BY <1>3, <1>5, <1>6, <1>7, <1>8, <1>9, <1>10, <1>11 DEF Next, Connecting, Closing

\* What a connection that is dialled changes in the chain.
LEMMA Dial ==
    ASSUME IInv, NEW i, NEW p, Dialled(i, p)
    PROVE  /\ made + 1 \in Conns /\ owner[made + 1] = None /\ watcher[made + 1] = "none"
           /\ owner' = [owner EXCEPT ![made + 1] = i] /\ made' = made + 1
           /\ owner'[made + 1] = i /\ \A k \in Conns : k # made + 1 => owner'[k] = owner[k]
<1>1. made + 1 \in Conns /\ owner' = [owner EXCEPT ![made + 1] = i] /\ made' = made + 1
  BY DEF Dialled, IInv, TypeOK, Conns
<1>2. owner[made + 1] = None /\ watcher[made + 1] = "none"
  BY <1>1 DEF IInv, TypeOK, Made, Conns
<1> QED
  BY <1>1, <1>2 DEF IInv, TypeOK

\* Connect is for a new session and a new connection.
LEMMA ConnectNew ==
    ASSUME IInv, NEW p, Connect(p)
    PROVE  LET i == nextID + 1
           IN  /\ i \in Ids /\ nextID' = i /\ connect[i] = "none" /\ Dialled(i, p)
               /\ connect' = [connect EXCEPT ![i] = "history"]
               /\ sessions' = [sessions EXCEPT ![i] = made + 1]
               /\ \A k \in Conns : owner[k] # i
               /\ UNCHANGED <<history, auditIDs, tunnels, file, watcher, next, hf, closer, exits, tab>>
<1> DEFINE i == nextID + 1
<1>1. i \in Ids /\ nextID' = i /\ i > nextID
  BY DEF Connect, IInv, TypeOK, Ids
<1>2. connect[i] = "none"
  BY <1>1 DEF IInv, Fresh
<1>3. \A k \in Conns : owner[k] # i
  BY <1>1 DEF IInv, Made, TypeOK, Conns
<1> QED
  BY <1>1, <1>2, <1>3 DEF Connect, storeVars, goVars, closeVars, uiVars

\* AttachFirst starts the watcher of the only connection of the session.
LEMMA AttachOnly ==
    ASSUME IInv, NEW i \in Ids, AttachFirst(i)
    PROVE  \E k \in Conns :
              /\ owner[k] = i /\ watcher[k] = "none" /\ sessions[i] = k /\ connect[i] = "attach"
              /\ \A l \in Conns : owner[l] = i => l = k
              /\ watcher' = [watcher EXCEPT ![k] = "wait"]
              /\ hf' = [hf EXCEPT ![k] = i \in history]
              /\ connect' = [connect EXCEPT ![i] = "returned"]
              /\ UNCHANGED <<connVars, nextID, sessions, connConfigs, history, auditIDs, file, tunnels, next,
                             closer, exits, tab>>
<1>1. PICK k \in Conns : owner[k] = i /\ Attached(i, k) /\ watcher' = [watcher EXCEPT ![k] = "wait"]
  BY DEF AttachFirst
<1>2. connect[i] \in Early /\ connect[i] = "attach"
  BY DEF AttachFirst, Early
<1>3. watcher[k] = "none" /\ sessions[i] = k /\ \A l \in Conns : owner[l] = i => l = k
  BY <1>1, <1>2 DEF IInv, Fresh
<1> QED
  BY <1>1, <1>2, <1>3 DEF AttachFirst, Attached, mapVars, storeVars, closeVars, uiVars

\* AttachNext hands the session over.
LEMMA AttachHandsOver ==
    ASSUME IInv, NEW k \in Conns, AttachNext(k)
    PROVE  /\ owner[k] \in Ids /\ owner[k] # None /\ connect[owner[k]] \in Late
           /\ next[k] \in Conns /\ next[k] # k /\ owner[next[k]] = owner[k]
           /\ watcher[k] = "attach" /\ watcher[next[k]] = "none"
           /\ watcher'[k] = "gone" /\ watcher'[next[k]] = "wait"
           /\ \A l \in Conns : l # k /\ l # next[k] => watcher'[l] = watcher[l]
           /\ hf' = [hf EXCEPT ![next[k]] = owner[k] \in history]
           /\ UNCHANGED <<connVars, nextID, sessions, connConfigs, history, auditIDs, file, tunnels, connect,
                          next, closer, exits, tab>>
<1>1. watcher[k] = "attach"
  BY DEF AttachNext
<1>2. next[k] \in Conns /\ owner[next[k]] = owner[k] /\ watcher[next[k]] = "none"
  BY <1>1 DEF IInv, Chain, HandsOver
<1>3. owner[k] \in Ids /\ owner[k] # None /\ connect[owner[k]] \in Late
  BY <1>1, WatchedOwner
<1>4. watcher' = [watcher EXCEPT ![k] = "gone", ![next[k]] = "wait"]
  BY DEF AttachNext
<1>5. /\ watcher'[k] = "gone" /\ watcher'[next[k]] = "wait"
      /\ \A l \in Conns : l # k /\ l # next[k] => watcher'[l] = watcher[l]
  BY <1>1, <1>2, <1>4 DEF IInv, TypeOK
<1> QED
  BY <1>1, <1>2, <1>3, <1>5 DEF AttachNext, Attached, mapVars, storeVars, others, closeVars, uiVars

\* Every step keeps the sessions that Connect has not attached yet.
LEMMA FreshStep == ASSUME IInv, [Next]_vars PROVE Fresh'
<1> USE DEF IInv, TypeOK
<1>1. CASE UNCHANGED <<nextID, sessions, connect, owner, watcher, exits, tab>>
  BY <1>1 DEF Fresh
<1>2. ASSUME NEW p \in Protocols, Connect(p) PROVE Fresh'
  <2> DEFINE i == nextID + 1
             k == made + 1
  <2>1. /\ i \in Ids /\ nextID' = i /\ connect[i] = "none" /\ Dialled(i, p)
        /\ connect' = [connect EXCEPT ![i] = "history"] /\ sessions' = [sessions EXCEPT ![i] = k]
        /\ \A l \in Conns : owner[l] # i
        /\ UNCHANGED <<watcher, exits, tab>>
    BY <1>2, ConnectNew
  <2>2. /\ k \in Conns /\ watcher[k] = "none" /\ owner'[k] = i
        /\ \A l \in Conns : l # k => owner'[l] = owner[l]
    BY <2>1, Dial
  <2>3. \A j \in Ids : (j > nextID') <=> (j > nextID /\ j # i)
    BY <2>1 DEF Ids
  <2> HIDE DEF i, k
  <2>4. k # None
    BY <2>2 DEF Conns
  <2> QED
    BY <2>1, <2>2, <2>3, <2>4 DEF Fresh, Early, Late
<1>3. ASSUME NEW i \in Ids, OpenHistory(i) \/ StartAudit(i) \/ KeepAuditID(i) \/ OnConnected(i) PROVE Fresh'
  <2>1. UNCHANGED <<nextID, sessions, owner, watcher, exits>>
    BY <1>3, ConnectSteps DEF chain
  <2>2. PICK c \in {"audit", "auditID", "attach", "shown"} :
           /\ connect' = [connect EXCEPT ![i] = c]
           /\ c = "shown" => connect[i] = "returned"
           /\ c # "shown" => connect[i] \in Early /\ UNCHANGED tab
    BY <1>3, ConnectSteps
  <2>3. \A j \in Ids : j # i => tab'[j] = tab[j]
    BY <1>3, <2>2 DEF OpenHistory, StartAudit, KeepAuditID, OnConnected, uiVars
  <2> QED
    BY <2>1, <2>2, <2>3 DEF Fresh, Early, Late
<1>4. ASSUME NEW i \in Ids, AttachFirst(i) PROVE Fresh'
  <2>1. PICK k \in Conns : /\ owner[k] = i /\ connect[i] = "attach"
                           /\ watcher' = [watcher EXCEPT ![k] = "wait"]
                           /\ connect' = [connect EXCEPT ![i] = "returned"]
                           /\ UNCHANGED <<connVars, nextID, sessions, exits, tab>>
    BY <1>4, AttachOnly
  <2> QED
    BY <2>1 DEF Fresh, Early, Late, connVars
<1>5. ASSUME NEW k \in Conns, Watch(k) PROVE Fresh'
  <2>0. watcher[k] # "none" => owner[k] \in Ids /\ owner[k] # None /\ connect[owner[k]] \in Late
    BY WatchedOwner
  <2>1. CASE \E to \in {"check", "retry", "exit", "audit", "save", "cleanup"} :
                GoesOn(k, to) /\ UNCHANGED <<sessions, exits>> /\ watcher[k] # "none"
    BY <2>0, <2>1 DEF GoesOn, Fresh, Early, Late
  <2>2. CASE RetryConnects(k)
    <3>1. /\ watcher[k] = "retry" /\ watcher' = [watcher EXCEPT ![k] = "install"]
          /\ Dialled(owner[k], proto[k]) /\ UNCHANGED <<nextID, sessions, connect, exits, tab>>
      BY <2>2 DEF RetryConnects, AtWatcher, mapVars, others, uiVars
    <3>2. /\ made + 1 \in Conns /\ owner'[made + 1] = owner[k]
          /\ \A l \in Conns : l # made + 1 => owner'[l] = owner[l]
      BY <3>1, Dial
    <3> QED
      BY <2>0, <3>1, <3>2 DEF Fresh, Early, Late
  <2>3. CASE Install(k) \/ EmitExit(k) \/ Cleanup(k)
    <3>1. /\ watcher[k] # "none" /\ \A l \in Conns : l # k => watcher'[l] = watcher[l]
          /\ UNCHANGED <<nextID, connect, owner, tab>>
          /\ \A j \in Ids : j # owner[k] => sessions'[j] = sessions[j] /\ exits'[j] = exits[j]
      BY <2>3 DEF Install, EmitExit, Cleanup, AtWatcher, connVars, mapVars, others, uiVars
    <3> QED
      BY <2>0, <3>1 DEF Fresh, Early, Late
  <2>4. CASE AttachNext(k)
    BY <2>4, AttachHandsOver DEF Fresh, Early, Late, connVars
  <2> QED
    BY <1>5, <2>1, <2>2, <2>3, <2>4, WatchSteps
<1>6. ASSUME NEW i \in Ids, SshClose(i) PROVE Fresh'
  <2>1. tab[i] = "open" /\ connect[i] \notin Early
    BY <1>6 DEF SshClose, Fresh, Early
  <2>2. /\ tab' = [tab EXCEPT ![i] = "gone"] /\ sessions' = [sessions EXCEPT ![i] = None]
        /\ UNCHANGED <<nextID, connect, owner, watcher, exits>>
    BY <1>6 DEF SshClose, connVars
  <2> QED
    BY <2>1, <2>2 DEF Fresh
<1>7. ASSUME NEW k \in Conns, (\E how \in {"clean", "error"} : RemoteEnds(k, how)) \/ Session(k)
      PROVE  Fresh'
  BY <1>1, <1>7, ConnSteps DEF tables, chain
<1>8. ASSUME NEW x, \/ ConsumerEnds(x) \/ OnExit(x) \/ CloseTunnels(x) \/ CloseSession(x)
                    \/ CloseReturns(x) \/ OpenTunnel(x) \/ OpenTunnelFails(x) \/ RegisterTunnel(x) \/ StopTunnel(x)
      PROVE  Fresh'
  <2>1. UNCHANGED <<nextID, sessions, connect, owner, watcher, exits>>
    BY <1>8, SideSteps DEF tables, chain
  <2>2. \A j \in Ids : tab[j] = "none" => tab'[j] = "none"
    BY <1>8 DEF ConsumerEnds, OnExit, CloseTunnels, CloseSession, CloseReturns, OpenTunnel, OpenTunnelFails,
           RegisterTunnel, StopTunnel, uiVars
  <2> QED
    BY <2>1, <2>2 DEF Fresh
<1>9. CASE UNCHANGED vars
  BY <1>1, <1>9 DEF vars, appVars, connVars, mapVars, others, uiVars
<1> QED
  BY <1>2, <1>3, <1>4, <1>5, <1>6, <1>7, <1>8, <1>9 DEF Next, Connecting, Closing

\* The steps, by what they do to the tables and the chain.
LEMMA StepKinds ==
    ASSUME IInv, [Next]_vars
    PROVE  \/ UNCHANGED <<tables, chain, connect, file, exits>>
           \/ \E p : Connect(p)
           \/ \E i \in Ids : \/ OpenHistory(i) \/ StartAudit(i) \/ KeepAuditID(i) \/ OnConnected(i)
                             \/ AttachFirst(i) \/ SshClose(i)
           \/ \E k \in Conns :
                 \/ \E to \in {"check", "retry", "exit", "audit", "save", "cleanup"} :
                       /\ GoesOn(k, to) /\ UNCHANGED <<sessions, exits>> /\ auditIDs' \subseteq auditIDs
                       /\ watcher[k] \in {"wait", "check", "retry", "closing", "audit", "save"}
                       /\ to \in {"audit", "save", "cleanup"} <=> watcher[k] \in {"closing", "audit", "save"}
                 \/ RetryConnects(k) \/ Install(k) \/ AttachNext(k) \/ EmitExit(k) \/ Cleanup(k)
<1>1. CASE UNCHANGED vars
  BY <1>1 DEF vars, appVars, connVars, mapVars, storeVars, goVars, others, uiVars, tables, chain
<1>2. ASSUME NEW k \in Conns, (\E how \in {"clean", "error"} : RemoteEnds(k, how)) \/ Session(k)
      PROVE  UNCHANGED <<tables, chain, connect, file, exits>>
  BY <1>2, ConnSteps
<1>3. ASSUME NEW x, \/ ConsumerEnds(x) \/ OnExit(x) \/ CloseTunnels(x) \/ CloseSession(x)
                    \/ CloseReturns(x) \/ OpenTunnel(x) \/ OpenTunnelFails(x) \/ RegisterTunnel(x) \/ StopTunnel(x)
      PROVE  UNCHANGED <<tables, chain, connect, file, exits>>
  BY <1>3, SideSteps
<1>4. ASSUME NEW k \in Conns, Watch(k)
      PROVE  \/ \E to \in {"check", "retry", "exit", "audit", "save", "cleanup"} :
                   /\ GoesOn(k, to) /\ UNCHANGED <<sessions, exits>> /\ auditIDs' \subseteq auditIDs
                   /\ watcher[k] \in {"wait", "check", "retry", "closing", "audit", "save"}
                   /\ to \in {"audit", "save", "cleanup"} <=> watcher[k] \in {"closing", "audit", "save"}
             \/ RetryConnects(k) \/ Install(k) \/ AttachNext(k) \/ EmitExit(k) \/ Cleanup(k)
  BY <1>4, WatchSteps
<1> QED
  BY <1>1, <1>2, <1>3, <1>4 DEF Next, Connecting, Closing

\* A reconnection makes a new connection for the session.
LEMMA RetryMakes ==
    ASSUME IInv, NEW k \in Conns, RetryConnects(k)
    PROVE  LET n == made + 1
           IN  /\ watcher[k] = "retry" /\ watcher' = [watcher EXCEPT ![k] = "install"]
               /\ n \in Conns /\ n # k /\ owner[n] = None /\ watcher[n] = "none"
               /\ owner'[n] = owner[k] /\ \A l \in Conns : l # n => owner'[l] = owner[l]
               /\ next' = [next EXCEPT ![k] = n]
               /\ UNCHANGED <<nextID, sessions, connConfigs, history, auditIDs, file, connect, hf, exits, tunnels, closer>>
<1>1. watcher[k] = "retry" /\ Dialled(owner[k], proto[k])
  BY DEF RetryConnects, AtWatcher
<1>2. /\ made + 1 \in Conns /\ owner[made + 1] = None /\ watcher[made + 1] = "none"
      /\ owner'[made + 1] = owner[k] /\ \A l \in Conns : l # made + 1 => owner'[l] = owner[l]
  BY <1>1, Dial
<1> QED
  BY <1>1, <1>2 DEF RetryConnects, AtWatcher, mapVars, storeVars, others, closeVars, uiVars

\* What a watcher does that installs a reconnection or ends a session.
LEMMA WatchEnds ==
    ASSUME IInv, NEW k \in Conns, Install(k) \/ EmitExit(k) \/ Cleanup(k)
    PROVE  /\ UNCHANGED <<nextID, owner, next, hf, connect, tunnels, closer>>
           /\ Install(k) => /\ watcher[k] = "install" /\ watcher' = [watcher EXCEPT ![k] = "attach"]
                            /\ sessions' = [sessions EXCEPT ![owner[k]] = next[k]]
                            /\ UNCHANGED <<connConfigs, history, auditIDs, file, exits>>
           /\ EmitExit(k) => /\ watcher[k] = "exit" /\ watcher' = [watcher EXCEPT ![k] = "closing"]
                             /\ exits' = [exits EXCEPT ![owner[k]] = @ + 1]
                             /\ UNCHANGED <<sessions, connConfigs, history, auditIDs, file>>
           /\ Cleanup(k) => /\ watcher[k] = "cleanup" /\ watcher' = [watcher EXCEPT ![k] = "gone"]
                            /\ sessions' = [sessions EXCEPT ![owner[k]] = None]
                            /\ connConfigs' = connConfigs \ {owner[k]} /\ auditIDs' = auditIDs \ {owner[k]}
                            /\ hf[k] => /\ file' = [file EXCEPT ![owner[k]] = "closed"]
                                        /\ history' = history \ {owner[k]}
                            /\ ~hf[k] => UNCHANGED <<file, history>>
                            /\ UNCHANGED exits
BY DEF Install, EmitExit, Cleanup, AtWatcher, connVars, mapVars, storeVars, goVars, others, closeVars, uiVars

\* Two watched connections of one session are the same.
LEMMA OneEach ==
    ASSUME IInv, NEW k \in Conns, NEW l \in Conns, owner[k] = owner[l],
           watcher[k] \notin {"none", "gone"}, watcher[l] \notin {"none", "gone"}
    PROVE  k = l
<1>1. owner[k] \in Ids
  BY WatchedOwner
<1>2. k \in Watching(owner[k]) /\ l \in Watching(owner[k])
  BY DEF Watching
<1> QED
  BY <1>1, <1>2 DEF IInv, OneWatcher

\* Every step keeps the chain.
LEMMA ChainStep == ASSUME IInv, [Next]_vars PROVE Chain'
<1> USE DEF IInv, TypeOK, HandsOver
<1>1. CASE UNCHANGED <<tables, chain, connect, file, exits>>
  BY <1>1 DEF Chain, tables, chain
<1>2. ASSUME NEW p, Connect(p) PROVE Chain'
  <2> DEFINE i == nextID + 1
             n == made + 1
  <2>1. /\ i \in Ids /\ connect' = [connect EXCEPT ![i] = "history"] /\ connect[i] = "none"
        /\ sessions' = [sessions EXCEPT ![i] = n]
        /\ (\A l \in Conns : owner[l] # i) /\ UNCHANGED <<watcher, next>>
    BY <1>2, ConnectNew
  <2>2. /\ n \in Conns /\ owner[n] = None /\ watcher[n] = "none" /\ owner'[n] = i
        /\ \A l \in Conns : l # n => owner'[l] = owner[l]
    BY <1>2, ConnectNew, Dial
  <2> HIDE DEF i, n
  <2>3. \A w \in Conns : watcher[w] \in HandsOver => owner[w] # None /\ owner[w] \in Ids /\ next[w] # n /\ w # n
    BY <2>2, WatchedOwner DEF Chain
  <2> QED
    BY <2>1, <2>2, <2>3 DEF Chain, Early
<1>3. ASSUME NEW i \in Ids, OpenHistory(i) \/ StartAudit(i) \/ KeepAuditID(i) \/ OnConnected(i) PROVE Chain'
  <2>1. UNCHANGED <<sessions, owner, watcher, next>>
    BY <1>3, ConnectSteps DEF chain
  <2>2. \A j \in Ids : connect'[j] \in Early <=> connect[j] \in Early
    BY <1>3, ConnectSteps DEF Early
  <2> QED
    BY <2>1, <2>2 DEF Chain
<1>4. ASSUME NEW i \in Ids, AttachFirst(i) PROVE Chain'
  <2>1. PICK k \in Conns : /\ owner[k] = i /\ watcher[k] = "none"
                           /\ \A l \in Conns : owner[l] = i => l = k
                           /\ watcher' = [watcher EXCEPT ![k] = "wait"]
                           /\ connect' = [connect EXCEPT ![i] = "returned"]
                           /\ UNCHANGED <<owner, sessions, next>>
    BY <1>4, AttachOnly DEF connVars
  <2>2. \A w \in Conns : watcher[w] \in HandsOver => next[w] # k /\ w # k
    BY <2>1 DEF Chain
  <2> QED
    BY <2>1, <2>2 DEF Chain
<1>5. ASSUME NEW i \in Ids, SshClose(i) PROVE Chain'
  <2>1. UNCHANGED <<connect, owner, watcher, next>> /\ sessions' = [sessions EXCEPT ![i] = None]
    BY <1>5 DEF SshClose, connVars, goVars
  <2>2. \A w \in Conns : w # None
    BY DEF Conns
  <2> QED
    BY <2>1, <2>2 DEF Chain
<1>6. ASSUME NEW k \in Conns, NEW to \in {"check", "retry", "exit", "audit", "save", "cleanup"},
             GoesOn(k, to), UNCHANGED sessions,
             watcher[k] \in {"wait", "check", "retry", "closing", "audit", "save"}
      PROVE  Chain'
  BY <1>6 DEF GoesOn, Chain
<1>7. ASSUME NEW k \in Conns, RetryConnects(k) PROVE Chain'
  <2> DEFINE n == made + 1
  <2>1. /\ watcher[k] = "retry" /\ watcher' = [watcher EXCEPT ![k] = "install"]
        /\ n \in Conns /\ n # k /\ owner[n] = None /\ watcher[n] = "none"
        /\ owner'[n] = owner[k] /\ \A l \in Conns : l # n => owner'[l] = owner[l]
        /\ next' = [next EXCEPT ![k] = n] /\ UNCHANGED <<sessions, connect>>
    BY <1>7, RetryMakes
  <2> HIDE DEF n
  <2>2. \A w \in Conns : watcher[w] \in HandsOver => owner[w] # None /\ next[w] # n /\ w # n /\ w # k
    BY <2>1, WatchedOwner DEF Chain
  <2> QED
    BY <2>1, <2>2 DEF Chain
<1>8. ASSUME NEW k \in Conns, Install(k) PROVE Chain'
  <2>1. /\ UNCHANGED <<owner, next, connect>>
        /\ watcher[k] = "install" /\ watcher' = [watcher EXCEPT ![k] = "attach"]
        /\ sessions' = [sessions EXCEPT ![owner[k]] = next[k]]
    BY <1>8, WatchEnds
  <2>2. next[k] # k /\ owner[k] \in Ids
    BY <2>1, WatchedOwner DEF Chain
  <2>3. \A w \in Conns : watcher[w] = "attach" => owner[w] # owner[k] /\ owner[w] \in Ids
    BY <2>1, WatchedOwner, OneEach
  <2> QED
    BY <2>1, <2>2, <2>3 DEF Chain
<1>9. ASSUME NEW k \in Conns, AttachNext(k) PROVE Chain'
  <2>1. /\ owner[k] \in Ids /\ next[k] \in Conns /\ next[k] # k /\ owner[next[k]] = owner[k]
        /\ watcher[k] = "attach" /\ watcher[next[k]] = "none"
        /\ watcher'[k] = "gone" /\ watcher'[next[k]] = "wait"
        /\ \A l \in Conns : l # k /\ l # next[k] => watcher'[l] = watcher[l]
        /\ UNCHANGED <<owner, sessions, connect, next>>
    BY <1>9, AttachHandsOver DEF connVars
  <2>2. \A w \in Conns : watcher[w] \in HandsOver /\ w # k => next[w] # next[k] /\ next[w] # k /\ w # next[k]
    <3> SUFFICES ASSUME NEW w \in Conns, watcher[w] \in HandsOver, w # k
                 PROVE  next[w] # next[k] /\ next[w] # k /\ w # next[k]
      OBVIOUS
    <3>1. owner[next[w]] = owner[w] /\ watcher[next[w]] = "none"
      BY DEF Chain
    <3>2. owner[w] # owner[k]
      BY <2>1, OneEach
    <3> QED
      BY <2>1, <3>1, <3>2
  <2>3. ASSUME NEW l \in Conns, owner'[l] # None, watcher'[l] = "none"
        PROVE  connect'[owner'[l]] \in Early \/ \E w \in Conns : watcher'[w] \in HandsOver /\ next'[w] = l
    <3>1. watcher[l] = "none" /\ l # next[k] /\ owner[l] # None
      BY <2>1, <2>3
    <3>2. CASE connect[owner[l]] \in Early
      BY <2>1, <3>2
    <3>3. ASSUME NEW w \in Conns, watcher[w] \in HandsOver, next[w] = l
          PROVE  watcher'[w] \in HandsOver /\ next'[w] = l
      BY <2>1, <2>2, <3>1, <3>3
    <3> QED
      BY <3>1, <3>2, <3>3 DEF Chain
  <2>4. ASSUME NEW w \in Conns, watcher'[w] \in HandsOver
        PROVE  /\ next'[w] \in Conns /\ owner'[next'[w]] = owner'[w] /\ watcher'[next'[w]] = "none"
               /\ watcher'[w] = "attach" => sessions'[owner'[w]] # w
    <3>1. w # k /\ w # next[k] /\ watcher'[w] = watcher[w]
      BY <2>1, <2>4
    <3>2. next[w] # next[k] /\ next[w] # k /\ next[w] \in Conns
      BY <2>2, <2>4, <3>1 DEF Chain
    <3> QED
      BY <2>1, <2>4, <3>1, <3>2 DEF Chain
  <2> QED
    BY <2>3, <2>4 DEF Chain
<1>10. ASSUME NEW k \in Conns, EmitExit(k) PROVE Chain'
  <2>1. /\ UNCHANGED <<owner, next, connect, sessions>>
        /\ watcher[k] = "exit" /\ watcher' = [watcher EXCEPT ![k] = "closing"]
    BY <1>10, WatchEnds
  <2> QED
    BY <2>1 DEF Chain
<1>11. ASSUME NEW k \in Conns, Cleanup(k) PROVE Chain'
  <2>1. /\ UNCHANGED <<owner, next, connect>>
        /\ watcher[k] = "cleanup" /\ watcher' = [watcher EXCEPT ![k] = "gone"]
        /\ sessions' = [sessions EXCEPT ![owner[k]] = None]
    BY <1>11, WatchEnds
  <2>2. \A w \in Conns : w # None
    BY DEF Conns
  <2> QED
    BY <2>1, <2>2 DEF Chain
<1> QED
  BY <1>1, <1>2, <1>3, <1>4, <1>5, <1>6, <1>7, <1>8, <1>9, <1>10, <1>11, StepKinds

-----------------------------------------------------------------------------
(* Watchers *)

\* What SessionIsWatched says of the session j and its connection k.
Minded(j, k) ==
    /\ owner[k] = j /\ watcher[k] # "gone"
    /\ watcher[k] = "none" => \/ connect[j] \notin Late
                             \/ \E w \in Conns : watcher[w] = "attach" /\ next[w] = k

\* Every step keeps one watcher for each session.
LEMMA OneWatcherStep == ASSUME IInv, [Next]_vars PROVE OneWatcher'
<1> USE DEF IInv, TypeOK
<1>0. ASSUME \A l \in Conns : watcher'[l] \notin {"none", "gone"} =>
                 watcher[l] \notin {"none", "gone"} /\ owner'[l] = owner[l]
      PROVE  OneWatcher'
  BY <1>0, OneEach DEF OneWatcher, Watching
<1>1. CASE UNCHANGED <<watcher, owner>>
  BY <1>0, <1>1
<1>2. ASSUME NEW p, Connect(p) PROVE OneWatcher'
  <2>1. UNCHANGED watcher /\ Dialled(nextID + 1, p)
    BY <1>2, ConnectNew
  <2> QED
    BY <1>0, <2>1, Dial
<1>3. ASSUME NEW i \in Ids, AttachFirst(i) PROVE OneWatcher'
  <2>1. PICK k \in Conns : /\ owner[k] = i /\ watcher[k] = "none" /\ \A l \in Conns : owner[l] = i => l = k
                           /\ watcher' = [watcher EXCEPT ![k] = "wait"] /\ UNCHANGED owner
    BY <1>3, AttachOnly DEF connVars
  <2> SUFFICES ASSUME NEW l \in Conns, NEW m \in Conns, owner'[l] = owner'[m],
                      watcher'[l] \notin {"none", "gone"}, watcher'[m] \notin {"none", "gone"}
               PROVE  l = m
    BY DEF OneWatcher, Watching
  <2> QED
    BY <2>1, OneEach
<1>4. ASSUME NEW k \in Conns, AttachNext(k) PROVE OneWatcher'
  <2> SUFFICES ASSUME NEW l \in Conns, NEW m \in Conns, owner'[l] = owner'[m],
                      watcher'[l] \notin {"none", "gone"}, watcher'[m] \notin {"none", "gone"}
               PROVE  l = m
    BY DEF OneWatcher, Watching
  <2>1. /\ next[k] \in Conns /\ next[k] # k /\ owner[next[k]] = owner[k] /\ UNCHANGED owner
        /\ watcher[k] = "attach" /\ watcher'[k] = "gone"
        /\ \A j \in Conns : j # k /\ j # next[k] => watcher'[j] = watcher[j]
    BY <1>4, AttachHandsOver DEF connVars
  <2>2. \A j \in Conns : j # k /\ watcher[j] \notin {"none", "gone"} => owner[j] # owner[k]
    BY <2>1, OneEach
  <2>3. l # k /\ m # k
    BY <2>1
  <2>4. CASE l # next[k] /\ m # next[k]
    BY <2>1, <2>3, <2>4, OneEach
  <2>5. CASE l = next[k] /\ m # next[k]
    BY <2>1, <2>2, <2>3, <2>5
  <2>6. CASE m = next[k] /\ l # next[k]
    BY <2>1, <2>2, <2>3, <2>6
  <2> QED
    BY <2>4, <2>5, <2>6
<1>5. ASSUME NEW k \in Conns, watcher[k] \notin {"none", "gone"}, UNCHANGED owner,
             \A l \in Conns : l # k => watcher'[l] = watcher[l]
      PROVE  OneWatcher'
  BY <1>0, <1>5
<1>6. ASSUME NEW k \in Conns, NEW to, GoesOn(k, to),
             watcher[k] \in {"wait", "check", "retry", "closing", "audit", "save"}
      PROVE  OneWatcher'
  BY <1>5, <1>6 DEF GoesOn
<1>7. ASSUME NEW k \in Conns, RetryConnects(k) PROVE OneWatcher'
  BY <1>0, <1>7, RetryMakes
<1>8. ASSUME NEW k \in Conns, Install(k) \/ EmitExit(k) \/ Cleanup(k) PROVE OneWatcher'
  <2>1. /\ UNCHANGED owner /\ watcher[k] \in {"install", "exit", "cleanup"}
        /\ \E to : watcher' = [watcher EXCEPT ![k] = to]
    BY <1>8, WatchEnds
  <2>2. \A l \in Conns : l # k => watcher'[l] = watcher[l]
    BY <2>1 DEF IInv, TypeOK
  <2> QED
    BY <1>5, <2>1, <2>2
<1>9. ASSUME NEW i \in Ids, OpenHistory(i) \/ StartAudit(i) \/ KeepAuditID(i) \/ OnConnected(i)
      PROVE  OneWatcher'
  BY <1>1, <1>9, ConnectSteps DEF chain
<1>10. ASSUME NEW i \in Ids, SshClose(i) PROVE OneWatcher'
  BY <1>1, <1>10 DEF SshClose, connVars
<1>11. CASE UNCHANGED <<tables, chain, connect, file, exits>>
  BY <1>1, <1>11 DEF chain
<1> QED
  BY <1>2, <1>3, <1>4, <1>6, <1>7, <1>8, <1>9, <1>10, <1>11, StepKinds

\* Every step keeps the sessions of the table watched.
LEMMA WatchedStep == ASSUME IInv, [Next]_vars PROVE SessionIsWatched'
<1>0. ASSUME NEW j \in Ids, sessions[j] # None
      PROVE  sessions[j] \in Conns /\ Minded(j, sessions[j]) /\ owner[sessions[j]] = j /\ j # None
  <2>1. sessions[j] \in Conns
    BY <1>0 DEF IInv, TypeOK
  <2>2. j # None
    BY DEF Ids
  <2> QED
    BY <1>0, <2>1, <2>2 DEF IInv, SessionIsWatched, Minded, Late
<1>1. ASSUME \A j \in Ids : sessions'[j] # None => Minded(j, sessions[j])'
      PROVE  SessionIsWatched'
  <2> SUFFICES ASSUME NEW j \in Ids, sessions'[j] # None
               PROVE  /\ owner'[sessions'[j]] = j /\ watcher'[sessions'[j]] # "gone"
                      /\ watcher'[sessions'[j]] = "none" =>
                           \/ connect'[j] \notin {"returned", "shown"}
                           \/ \E w \in Conns : watcher'[w] = "attach" /\ next'[w] = sessions'[j]
    BY DEF SessionIsWatched
  <2> QED
    BY <1>1 DEF Minded, Late
<1> USE DEF IInv, TypeOK
<1>2. CASE UNCHANGED <<tables, chain, connect, file, exits>>
  BY <1>2 DEF SessionIsWatched, tables, chain
<1>3. ASSUME NEW p, Connect(p) PROVE SessionIsWatched'
  <2> DEFINE i == nextID + 1
             n == made + 1
  <2>1. /\ i \in Ids /\ connect' = [connect EXCEPT ![i] = "history"]
        /\ sessions' = [sessions EXCEPT ![i] = n] /\ UNCHANGED <<watcher, next>>
    BY <1>3, ConnectNew
  <2>2. /\ n \in Conns /\ owner[n] = None /\ watcher[n] = "none" /\ owner'[n] = i
        /\ \A l \in Conns : l # n => owner'[l] = owner[l]
    BY <1>3, ConnectNew, Dial
  <2> HIDE DEF i, n
  <2> SUFFICES ASSUME NEW j \in Ids, sessions'[j] # None PROVE Minded(j, sessions[j])'
    BY <1>1
  <2>3. CASE j = i
    <3>1. sessions'[j] = n /\ connect'[j] \notin Late
      BY <2>1, <2>3 DEF Late
    <3> QED
      BY <2>1, <2>2, <2>3, <3>1 DEF Minded
  <2>4. CASE j # i
    <3>1. sessions'[j] = sessions[j] /\ connect'[j] = connect[j]
      BY <2>1, <2>4
    <3>2. sessions[j] \in Conns /\ Minded(j, sessions[j]) /\ owner[sessions[j]] = j /\ j # None
      BY <1>0, <3>1
    <3>3. sessions[j] # n
      BY <2>2, <3>2
    <3> QED
      BY <2>1, <2>2, <3>1, <3>2, <3>3 DEF Minded
  <2> QED
    BY <2>3, <2>4
<1>4. ASSUME NEW i \in Ids, OpenHistory(i) \/ StartAudit(i) \/ KeepAuditID(i) \/ OnConnected(i)
      PROVE  SessionIsWatched'
  <2>1. UNCHANGED <<sessions, owner, watcher, next>>
    BY <1>4, ConnectSteps DEF chain
  <2>2. \A j \in Ids : connect'[j] \in Late => connect[j] \in Late
    <3>1. PICK c \in {"audit", "auditID", "attach", "shown"} :
             connect' = [connect EXCEPT ![i] = c] /\ (c = "shown" => connect[i] = "returned")
      BY <1>4, ConnectSteps DEF IInv
    <3>2. connect \in [Ids -> {"none", "history", "audit", "auditID", "attach", "returned", "shown"}]
      BY DEF IInv, TypeOK
    <3> QED
      BY <3>1, <3>2 DEF Late
  <2> QED
    BY <2>1, <2>2 DEF SessionIsWatched, Late
<1>5. ASSUME NEW i \in Ids, AttachFirst(i) PROVE SessionIsWatched'
  <2>1. PICK k \in Conns : /\ owner[k] = i /\ watcher[k] = "none" /\ sessions[i] = k
                           /\ watcher' = [watcher EXCEPT ![k] = "wait"]
                           /\ connect' = [connect EXCEPT ![i] = "returned"]
                           /\ UNCHANGED <<owner, sessions, next>>
    BY <1>5, AttachOnly DEF connVars
  <2> SUFFICES ASSUME NEW j \in Ids, sessions'[j] # None PROVE Minded(j, sessions[j])'
    BY <1>1
  <2>2. sessions[j] \in Conns /\ Minded(j, sessions[j]) /\ owner[sessions[j]] = j
    BY <1>0, <2>1
  <2> QED
    BY <2>1, <2>2 DEF Minded
<1>6. ASSUME NEW i \in Ids, SshClose(i) PROVE SessionIsWatched'
  <2>1. UNCHANGED <<connect, owner, watcher, next>> /\ sessions' = [sessions EXCEPT ![i] = None]
    BY <1>6 DEF SshClose, connVars, goVars
  <2> QED
    BY <2>1 DEF SessionIsWatched
<1>7. ASSUME NEW k \in Conns, watcher[k] # "none", watcher[k] # "attach", watcher'[k] \notin {"none", "gone"},
             \A l \in Conns : l # k => watcher'[l] = watcher[l],
             \A l \in Conns : owner[l] # None => owner'[l] = owner[l],
             UNCHANGED <<sessions, connect>>, \A l \in Conns : l # k => next'[l] = next[l]
      PROVE  SessionIsWatched'
  <2> SUFFICES ASSUME NEW j \in Ids, sessions'[j] # None PROVE Minded(j, sessions[j])'
    BY <1>1
  <2>1. sessions'[j] = sessions[j] /\ connect'[j] = connect[j]
    BY <1>7
  <2> DEFINE c == sessions[j]
  <2>2. c \in Conns /\ Minded(j, c) /\ owner[c] = j /\ owner[c] # None
    BY <1>0, <2>1
  <2> HIDE DEF c
  <2>3. owner'[c] = j /\ watcher'[c] # "gone" /\ (watcher'[c] = "none" => watcher[c] = "none")
    BY <1>7, <2>2 DEF Minded
  <2>4. ASSUME NEW w \in Conns, watcher[w] = "attach", next[w] = c
        PROVE  watcher'[w] = "attach" /\ next'[w] = c
    BY <1>7, <2>4
  <2>5. Minded(j, c)'
    BY <2>1, <2>2, <2>3, <2>4 DEF Minded, c
  <2> QED
    BY <2>1, <2>5 DEF c
<1>8. ASSUME NEW k \in Conns, NEW to \in {"check", "retry", "exit", "audit", "save", "cleanup"},
             GoesOn(k, to), UNCHANGED sessions,
             watcher[k] \in {"wait", "check", "retry", "closing", "audit", "save"}
      PROVE  SessionIsWatched'
  <2>1. watcher'[k] = to /\ \A l \in Conns : l # k => watcher'[l] = watcher[l]
    BY <1>8 DEF GoesOn
  <2>2. UNCHANGED <<owner, sessions, connect, next>>
    BY <1>8 DEF GoesOn
  <2> QED
    BY <1>7, <1>8, <2>1, <2>2
<1>9. ASSUME NEW k \in Conns, RetryConnects(k) PROVE SessionIsWatched'
  <2>1. /\ watcher[k] = "retry" /\ watcher' = [watcher EXCEPT ![k] = "install"]
        /\ owner[made + 1] = None /\ \A l \in Conns : l # made + 1 => owner'[l] = owner[l]
        /\ next' = [next EXCEPT ![k] = made + 1] /\ UNCHANGED <<sessions, connect>>
    BY <1>9, RetryMakes
  <2>2. /\ watcher'[k] = "install" /\ \A l \in Conns : l # k => watcher'[l] = watcher[l] /\ next'[l] = next[l]
        /\ \A l \in Conns : owner[l] # None => owner'[l] = owner[l]
    BY <2>1
  <2> QED
    BY <1>7, <2>1, <2>2
<1>10. ASSUME NEW k \in Conns, EmitExit(k) PROVE SessionIsWatched'
  <2>1. /\ watcher[k] = "exit" /\ watcher' = [watcher EXCEPT ![k] = "closing"]
        /\ UNCHANGED <<sessions, owner, next, connect>>
    BY <1>10, WatchEnds
  <2>2. watcher'[k] = "closing" /\ \A l \in Conns : l # k => watcher'[l] = watcher[l]
    BY <2>1
  <2> QED
    BY <1>7, <2>1, <2>2
<1>11. ASSUME NEW k \in Conns, Install(k) PROVE SessionIsWatched'
  <2>1. /\ watcher[k] = "install" /\ watcher' = [watcher EXCEPT ![k] = "attach"]
        /\ sessions' = [sessions EXCEPT ![owner[k]] = next[k]] /\ UNCHANGED <<owner, next, connect>>
    BY <1>11, WatchEnds
  <2>2. owner[k] \in Ids /\ next[k] \in Conns /\ owner[next[k]] = owner[k] /\ watcher[next[k]] = "none"
    BY <2>1, WatchedOwner DEF Chain, HandsOver
  <2>3. watcher'[k] = "attach" /\ \A l \in Conns : l # k => watcher'[l] = watcher[l]
    BY <2>1
  <2> SUFFICES ASSUME NEW j \in Ids, sessions'[j] # None PROVE Minded(j, sessions[j])'
    BY <1>1
  <2>4. CASE j = owner[k]
    <3>1. sessions'[j] = next[k]
      BY <2>1, <2>2, <2>4
    <3>2. watcher'[next[k]] = "none"
      BY <2>1, <2>2, <2>3
    <3> QED
      BY <2>1, <2>2, <2>3, <2>4, <3>1, <3>2 DEF Minded
  <2>5. CASE j # owner[k]
    <3>1. sessions'[j] = sessions[j]
      BY <2>1, <2>5
    <3>2. sessions[j] \in Conns /\ Minded(j, sessions[j]) /\ owner[sessions[j]] = j /\ j # None
      BY <1>0, <3>1
    <3>3. sessions[j] # k
      BY <2>5, <3>2
    <3> QED
      BY <2>1, <2>3, <3>1, <3>2, <3>3 DEF Minded
  <2> QED
    BY <2>4, <2>5
<1>12. ASSUME NEW k \in Conns, AttachNext(k) PROVE SessionIsWatched'
  <2>1. /\ owner[k] \in Ids /\ next[k] \in Conns /\ next[k] # k /\ owner[next[k]] = owner[k]
        /\ watcher[k] = "attach" /\ watcher[next[k]] = "none" /\ watcher'[next[k]] = "wait"
        /\ \A l \in Conns : l # k /\ l # next[k] => watcher'[l] = watcher[l]
        /\ UNCHANGED <<owner, sessions, connect, next>>
    BY <1>12, AttachHandsOver DEF connVars
  <2> SUFFICES ASSUME NEW j \in Ids, sessions'[j] # None PROVE Minded(j, sessions[j])'
    BY <1>1
  <2>2. sessions[j] \in Conns /\ Minded(j, sessions[j]) /\ owner[sessions[j]] = j
    BY <1>0, <2>1
  <2>3. sessions[j] # k
    BY <2>1, <2>2 DEF Chain
  <2>4. CASE sessions[j] = next[k]
    BY <2>1, <2>2, <2>4 DEF Minded
  <2>5. CASE sessions[j] # next[k]
    <3>1. watcher'[sessions[j]] = watcher[sessions[j]]
      BY <2>1, <2>2, <2>3, <2>5
    <3>2. ASSUME NEW w \in Conns, watcher[w] = "attach", next[w] = sessions[j]
          PROVE  watcher'[w] = "attach"
      BY <2>1, <2>5, <3>2
    <3> QED
      BY <2>1, <2>2, <3>1, <3>2 DEF Minded
  <2> QED
    BY <2>4, <2>5
<1>13. ASSUME NEW k \in Conns, Cleanup(k) PROVE SessionIsWatched'
  <2>1. /\ watcher[k] = "cleanup" /\ watcher' = [watcher EXCEPT ![k] = "gone"]
        /\ sessions' = [sessions EXCEPT ![owner[k]] = None] /\ UNCHANGED <<owner, next, connect>>
    BY <1>13, WatchEnds
  <2>2. owner[k] \in Ids /\ \A l \in Conns : l # k => watcher'[l] = watcher[l]
    BY <2>1, WatchedOwner
  <2> SUFFICES ASSUME NEW j \in Ids, sessions'[j] # None PROVE Minded(j, sessions[j])'
    BY <1>1
  <2>3. j # owner[k] /\ sessions'[j] = sessions[j]
    BY <2>1, <2>2
  <2>4. sessions[j] \in Conns /\ Minded(j, sessions[j]) /\ owner[sessions[j]] = j
    BY <1>0, <2>3
  <2>5. sessions[j] # k
    BY <2>3, <2>4
  <2> QED
    BY <2>1, <2>2, <2>3, <2>4, <2>5 DEF Minded
<1> QED
  BY <1>2, <1>3, <1>4, <1>5, <1>6, <1>8, <1>9, <1>10, <1>11, <1>12, <1>13, StepKinds

-----------------------------------------------------------------------------
(* The end of a session *)

\* Every step keeps that ssh-exit ends the chain.
LEMMA ExitsStep == ASSUME IInv, [Next]_vars PROVE Exits'
<1> USE DEF IInv, TypeOK
<1>1. CASE UNCHANGED <<tables, chain, connect, file, exits>>
  BY <1>1 DEF Exits, chain
<1>2. ASSUME NEW p, Connect(p) PROVE Exits'
  <2> DEFINE i == nextID + 1
  <2>1. i \in Ids /\ connect[i] = "none" /\ Dialled(i, p) /\ UNCHANGED <<watcher, exits>>
    BY <1>2, ConnectNew
  <2>2. exits[i] = 0
    BY <2>1 DEF Fresh, Late
  <2>3. /\ made + 1 \in Conns /\ owner'[made + 1] = i
        /\ \A l \in Conns : l # made + 1 => owner'[l] = owner[l]
    BY <2>1, Dial
  <2> HIDE DEF i
  <2> QED
    BY <2>1, <2>2, <2>3 DEF Exits
<1>3. ASSUME NEW i \in Ids, OpenHistory(i) \/ StartAudit(i) \/ KeepAuditID(i) \/ OnConnected(i) PROVE Exits'
  BY <1>3, ConnectSteps DEF Exits, chain
<1>4. ASSUME NEW i \in Ids, AttachFirst(i) PROVE Exits'
  <2>1. PICK k \in Conns : /\ owner[k] = i /\ connect[i] = "attach"
                           /\ watcher' = [watcher EXCEPT ![k] = "wait"] /\ UNCHANGED <<owner, exits>>
    BY <1>4, AttachOnly DEF connVars
  <2>2. exits[i] = 0
    BY <2>1 DEF Fresh, Late
  <2> QED
    BY <2>1, <2>2 DEF Exits
<1>5. ASSUME NEW i \in Ids, SshClose(i) PROVE Exits'
  BY <1>5 DEF SshClose, Exits, connVars
<1>6. ASSUME NEW k \in Conns, watcher[k] # "none", watcher[k] \notin After, UNCHANGED exits,
             \A l \in Conns : \/ owner'[l] = owner[l] /\ watcher'[l] = watcher[l]
                              \/ owner'[l] = owner[k]
      PROVE  Exits'
  <2>1. owner[k] \in Ids /\ exits[owner[k]] = 0
    BY <1>6, WatchedOwner DEF Exits
  <2> QED
    BY <1>6, <2>1 DEF Exits
<1>7. ASSUME NEW k \in Conns, NEW to \in {"check", "retry", "exit", "audit", "save", "cleanup"},
             GoesOn(k, to), UNCHANGED exits,
             watcher[k] \in {"wait", "check", "retry", "closing", "audit", "save"},
             to \in {"audit", "save", "cleanup"} <=> watcher[k] \in {"closing", "audit", "save"}
      PROVE  Exits'
  BY <1>7 DEF GoesOn, Exits, After
<1>8. ASSUME NEW k \in Conns, RetryConnects(k) PROVE Exits'
  <2>1. /\ watcher[k] = "retry" /\ watcher' = [watcher EXCEPT ![k] = "install"] /\ UNCHANGED exits
        /\ owner'[made + 1] = owner[k] /\ \A l \in Conns : l # made + 1 => owner'[l] = owner[l]
        /\ made + 1 \in Conns /\ made + 1 # k
    BY <1>8, RetryMakes
  <2> QED
    BY <1>6, <2>1 DEF After
<1>9. ASSUME NEW k \in Conns, Install(k) PROVE Exits'
  <2>1. /\ watcher[k] = "install" /\ watcher' = [watcher EXCEPT ![k] = "attach"] /\ UNCHANGED <<owner, exits>>
    BY <1>9, WatchEnds
  <2> QED
    BY <1>6, <2>1 DEF After
<1>10. ASSUME NEW k \in Conns, AttachNext(k) PROVE Exits'
  <2>1. /\ owner[next[k]] = owner[k] /\ watcher[k] = "attach" /\ UNCHANGED <<owner, exits>>
        /\ \A l \in Conns : l # k /\ l # next[k] => watcher'[l] = watcher[l]
    BY <1>10, AttachHandsOver DEF connVars
  <2> QED
    BY <1>6, <2>1 DEF After
<1>11. ASSUME NEW k \in Conns, EmitExit(k) PROVE Exits'
  <2>1. /\ UNCHANGED owner /\ watcher[k] = "exit" /\ watcher' = [watcher EXCEPT ![k] = "closing"]
        /\ exits' = [exits EXCEPT ![owner[k]] = @ + 1]
    BY <1>11, WatchEnds
  <2>2. owner[k] \in Ids /\ connect[owner[k]] \in Late /\ owner[k] # None
    BY <2>1, WatchedOwner
  <2>3. exits[owner[k]] = 0
    BY <2>1, <2>2 DEF Exits, After
  <2>4. ASSUME NEW l \in Conns, owner[l] = owner[k], l # k PROVE watcher[l] = "gone"
    <3>1. watcher[l] \in {"none", "gone"}
      BY <2>1, <2>4, OneEach
    <3>2. ASSUME watcher[l] = "none" PROVE FALSE
      <4>1. PICK w \in Conns : watcher[w] \in HandsOver /\ next[w] = l
        BY <2>2, <2>4, <3>2 DEF Chain, Early, Late
      <4>2. owner[w] = owner[k] /\ w # k
        BY <2>1, <2>4, <4>1 DEF Chain, HandsOver
      <4> QED
        BY <2>1, <4>1, <4>2, OneEach DEF HandsOver
    <3> QED
      BY <3>1, <3>2
  <2>5. exits'[owner[k]] = 1 /\ \A j \in Ids : j # owner[k] => exits'[j] = exits[j]
    BY <2>1, <2>2, <2>3
  <2> QED
    BY <2>1, <2>4, <2>5 DEF Exits, After
<1>12. ASSUME NEW k \in Conns, Cleanup(k) PROVE Exits'
  <2>1. UNCHANGED <<owner, exits>> /\ watcher' = [watcher EXCEPT ![k] = "gone"]
    BY <1>12, WatchEnds
  <2> QED
    BY <2>1 DEF Exits, After
<1> QED
  BY <1>1, <1>2, <1>3, <1>4, <1>5, <1>7, <1>8, <1>9, <1>10, <1>11, <1>12, StepKinds

\* Every step keeps what the watcher knows of the history file.
LEMMA HistoriesStep == ASSUME IInv, [Next]_vars PROVE Histories'
<1> USE DEF IInv, TypeOK
<1>1. ASSUME UNCHANGED <<file, history>>,
             \A l \in Conns : watcher'[l] \notin {"none", "gone"} =>
                 /\ watcher[l] \notin {"none", "gone"} /\ owner'[l] = owner[l] /\ hf'[l] = hf[l]
      PROVE  Histories'
  BY <1>1 DEF Histories, Watching
<1>2. CASE UNCHANGED <<tables, chain, connect, file, exits>>
  BY <1>1, <1>2 DEF tables, chain
<1>3. ASSUME NEW p, Connect(p) PROVE Histories'
  <2>1. UNCHANGED <<watcher, hf, file, history>> /\ Dialled(nextID + 1, p)
    BY <1>3, ConnectNew
  <2> QED
    BY <1>1, <2>1, Dial
<1>4. ASSUME NEW i \in Ids, OpenHistory(i) PROVE Histories'
  <2>1. UNCHANGED <<watcher, owner, hf>> /\ connect[i] \in Early
    BY <1>4 DEF OpenHistory, Early, connVars, goVars
  <2>2. \A k \in Conns : owner[k] = i => watcher[k] = "none"
    BY <2>1 DEF Fresh
  <2>3. CASE UNCHANGED <<file, history>>
    BY <1>1, <2>1, <2>3
  <2>4. CASE file' = [file EXCEPT ![i] = "open"] /\ history' = history \cup {i}
    BY <2>1, <2>2, <2>4 DEF Histories, Watching
  <2> QED
    BY <1>4, <2>3, <2>4 DEF OpenHistory
<1>5. ASSUME NEW i \in Ids, StartAudit(i) \/ KeepAuditID(i) \/ OnConnected(i) PROVE Histories'
  BY <1>1, <1>5 DEF StartAudit, KeepAuditID, OnConnected, connVars, goVars, mapVars, storeVars
<1>6. ASSUME NEW i \in Ids, AttachFirst(i) PROVE Histories'
  <2>1. PICK k \in Conns :
              /\ owner[k] = i /\ watcher[k] = "none" /\ sessions[i] = k /\ connect[i] = "attach"
              /\ \A l \in Conns : owner[l] = i => l = k
              /\ watcher' = [watcher EXCEPT ![k] = "wait"]
              /\ hf' = [hf EXCEPT ![k] = i \in history]
              /\ connect' = [connect EXCEPT ![i] = "returned"]
              /\ UNCHANGED <<connVars, nextID, sessions, connConfigs, history, auditIDs, file, tunnels, next,
                             closer, exits, tab>>
    BY <1>6, AttachOnly, Zenon
  <2>0. UNCHANGED <<owner, file, history>>
    BY <2>1 DEF connVars
  <2>4. /\ hf'[k] = (i \in history) /\ \A l \in Conns : l # k => hf'[l] = hf[l]
    BY <2>1
  <2> SUFFICES ASSUME NEW j \in Ids, NEW l \in Conns, owner'[l] = j, watcher'[l] \notin {"none", "gone"}, ~hf'[l]
               PROVE  j \notin history'
    BY <2>0, <2>1 DEF Histories, Watching
  <2>2. CASE l = k
    BY <2>0, <2>1, <2>2, <2>4
  <2>3. CASE l # k
    BY <2>0, <2>1, <2>3, <2>4 DEF Histories, Watching
  <2> QED
    BY <2>2, <2>3
<1>7. ASSUME NEW i \in Ids, SshClose(i) PROVE Histories'
  <2>1. /\ file' = [file EXCEPT ![i] = IF i \in history THEN "closed" ELSE @]
        /\ history' = history \ {i} /\ UNCHANGED <<watcher, owner, hf>>
    BY <1>7 DEF SshClose, connVars, goVars
  <2> QED
    BY <2>1 DEF Histories, Watching
<1>8. ASSUME NEW k \in Conns, NEW to, GoesOn(k, to),
             watcher[k] \in {"wait", "check", "retry", "closing", "audit", "save"}
      PROVE  Histories'
  BY <1>1, <1>8 DEF GoesOn
<1>9. ASSUME NEW k \in Conns, RetryConnects(k) PROVE Histories'
  BY <1>1, <1>9, RetryMakes
<1>10. ASSUME NEW k \in Conns, Install(k) \/ EmitExit(k) PROVE Histories'
  BY <1>1, <1>10, WatchEnds
<1>11. ASSUME NEW k \in Conns, AttachNext(k) PROVE Histories'
  <2>1. /\ next[k] \in Conns /\ owner[next[k]] = owner[k] /\ watcher'[k] = "gone"
        /\ \A l \in Conns : l # k /\ l # next[k] => watcher'[l] = watcher[l]
        /\ hf' = [hf EXCEPT ![next[k]] = owner[k] \in history] /\ UNCHANGED <<owner, file, history>>
    BY <1>11, AttachHandsOver DEF connVars
  <2> SUFFICES ASSUME NEW j \in Ids, NEW l \in Conns, owner'[l] = j, watcher'[l] \notin {"none", "gone"}, ~hf'[l]
               PROVE  j \notin history'
    BY <2>1 DEF Histories, Watching
  <2>2. CASE l = next[k]
    BY <2>1, <2>2
  <2>3. CASE l # next[k]
    BY <2>1, <2>3 DEF Histories, Watching
  <2> QED
    BY <2>2, <2>3
<1>12. ASSUME NEW k \in Conns, Cleanup(k) PROVE Histories'
  <2>1. /\ watcher[k] = "cleanup" /\ watcher' = [watcher EXCEPT ![k] = "gone"] /\ UNCHANGED <<owner, hf>>
        /\ hf[k] => file' = [file EXCEPT ![owner[k]] = "closed"] /\ history' = history \ {owner[k]}
        /\ ~hf[k] => UNCHANGED <<file, history>>
    BY <1>12, WatchEnds
  <2>2. \A l \in Conns : watcher'[l] \notin {"none", "gone"} => watcher[l] \notin {"none", "gone"}
    BY <2>1
  <2>3. CASE hf[k]
    BY <2>1, <2>2, <2>3 DEF Histories, Watching
  <2>4. CASE ~hf[k]
    BY <1>1, <2>1, <2>2, <2>4
  <2> QED
    BY <2>3, <2>4
<1> QED
  BY <1>2, <1>3, <1>4, <1>5, <1>6, <1>7, <1>8, <1>9, <1>10, <1>11, <1>12, StepKinds

\* Every step keeps that the last goroutine of a session leaves nothing behind.
LEMMA NothingLeftStep == ASSUME IInv, [Next]_vars PROVE NothingLeftBehind'
<1> USE DEF IInv, TypeOK
<1> DEFINE Clear(j) == /\ sessions[j] = None /\ j \notin connConfigs
                       /\ j \notin history /\ file[j] # "open" /\ j \notin auditIDs
           Done(j) == connect[j] \in Late /\ \A k \in Conns : owner[k] = j => watcher[k] \in {"none", "gone"}
<1>0. (NothingLeftBehind <=> \A j \in Ids : Done(j) => Clear(j))
      /\ (NothingLeftBehind' <=> \A j \in Ids : Done(j)' => Clear(j)')
  BY DEF NothingLeftBehind, Watching, Late
<1>1. ASSUME \A j \in Ids : Done(j)' => (Done(j) /\ (Clear(j) => Clear(j)')) \/ Clear(j)'
      PROVE  NothingLeftBehind'
  BY <1>0, <1>1
<1>2. CASE UNCHANGED <<tables, chain, connect, file, exits>>
  BY <1>1, <1>2 DEF tables, chain
<1>3. ASSUME NEW p, Connect(p) PROVE NothingLeftBehind'
  <2> DEFINE i == nextID + 1
  <2>1. /\ i \in Ids /\ Dialled(i, p) /\ connect' = [connect EXCEPT ![i] = "history"]
        /\ sessions' = [sessions EXCEPT ![i] = made + 1]
        /\ UNCHANGED <<history, auditIDs, file, watcher>>
    BY <1>3, ConnectNew
  <2>2. connConfigs' = connConfigs \cup {i}
    BY <1>3 DEF Connect
  <2>3. /\ made + 1 \in Conns /\ owner[made + 1] = None
        /\ \A l \in Conns : l # made + 1 => owner'[l] = owner[l]
    BY <2>1, Dial
  <2> HIDE DEF i
  <2>4. ASSUME NEW j \in Ids, Done(j)' PROVE Done(j) /\ (Clear(j) => Clear(j)')
    <3>1. j # i /\ j # None
      BY <2>1, <2>4 DEF Late, Ids
    <3> QED
      BY <2>1, <2>2, <2>3, <2>4, <3>1
  <2> QED
    BY <1>1, <2>4
<1>4. ASSUME NEW i \in Ids, OpenHistory(i) \/ StartAudit(i) \/ KeepAuditID(i) \/ OnConnected(i)
      PROVE  NothingLeftBehind'
  <2>1. UNCHANGED <<owner, watcher, sessions, connConfigs>>
    BY <1>4, ConnectSteps DEF chain
  <2>2. \/ connect[i] \in Late /\ UNCHANGED <<file, history, auditIDs>>
        \/ connect'[i] \notin Late
    <3>1. PICK c \in {"audit", "auditID", "attach", "shown"} :
             /\ connect' = [connect EXCEPT ![i] = c]
             /\ c = "shown" => connect[i] = "returned"
             /\ c # "shown" => connect[i] \in Early /\ UNCHANGED tab
      BY <1>4, ConnectSteps
    <3>2. connect[i] \in Early \/ UNCHANGED <<file, history, auditIDs>>
      BY <1>4, ConnectSteps
    <3> QED
      BY <3>1, <3>2 DEF Early, Late
  <2>3. \A j \in Ids : j # i => /\ connect'[j] = connect[j] /\ file'[j] = file[j]
                                /\ (j \in history' <=> j \in history) /\ (j \in auditIDs' <=> j \in auditIDs)
    BY <1>4 DEF OpenHistory, StartAudit, KeepAuditID, OnConnected, mapVars, storeVars
  <2>4. ASSUME NEW j \in Ids, Done(j)' PROVE Done(j) /\ (Clear(j) => Clear(j)')
    <3>1. CASE j = i
      BY <2>1, <2>2, <2>4, <3>1
    <3>2. CASE j # i
      BY <2>1, <2>3, <2>4, <3>2
    <3> QED
      BY <3>1, <3>2
  <2> QED
    BY <1>1, <2>4
<1>5. ASSUME NEW i \in Ids, AttachFirst(i) PROVE NothingLeftBehind'
  <2>1. PICK k \in Conns : /\ owner[k] = i /\ watcher' = [watcher EXCEPT ![k] = "wait"]
                           /\ connect' = [connect EXCEPT ![i] = "returned"]
                           /\ UNCHANGED <<owner, sessions, connConfigs, history, auditIDs, file>>
    BY <1>5, AttachOnly DEF connVars
  <2>2. ASSUME NEW j \in Ids, Done(j)' PROVE Done(j) /\ (Clear(j) => Clear(j)')
    <3>1. j # i
      BY <2>1, <2>2
    <3> QED
      BY <2>1, <2>2, <3>1
  <2> QED
    BY <1>1, <2>2
<1>6. ASSUME NEW i \in Ids, SshClose(i) PROVE NothingLeftBehind'
  <2>1. /\ sessions' = [sessions EXCEPT ![i] = None] /\ history' = history \ {i}
        /\ file' = [file EXCEPT ![i] = IF i \in history THEN "closed" ELSE @]
        /\ UNCHANGED <<connConfigs, auditIDs, connect, owner, watcher>>
    BY <1>6 DEF SshClose, connVars
  <2>2. ASSUME NEW j \in Ids, Done(j)' PROVE Done(j) /\ (Clear(j) => Clear(j)')
    BY <2>1, <2>2
  <2> QED
    BY <1>1, <2>2
<1>7. ASSUME NEW k \in Conns, UNCHANGED <<connect, owner>>, watcher'[k] \notin {"none", "gone"},
             \A l \in Conns : l # k => watcher'[l] = watcher[l],
             \A j \in Ids : j # owner[k] => sessions'[j] = sessions[j],
             UNCHANGED <<connConfigs, history, file>>, auditIDs' \subseteq auditIDs
      PROVE  NothingLeftBehind'
  <2>1. ASSUME NEW j \in Ids, Done(j)' PROVE Done(j) /\ (Clear(j) => Clear(j)')
    <3>1. j # owner[k]
      BY <1>7, <2>1
    <3> QED
      BY <1>7, <2>1, <3>1
  <2> QED
    BY <1>1, <2>1
<1>8. ASSUME NEW k \in Conns, NEW to \in {"check", "retry", "exit", "audit", "save", "cleanup"},
             GoesOn(k, to), UNCHANGED sessions, auditIDs' \subseteq auditIDs
      PROVE  NothingLeftBehind'
  BY <1>7, <1>8 DEF GoesOn
<1>9. ASSUME NEW k \in Conns, RetryConnects(k) PROVE NothingLeftBehind'
  <2>1. /\ watcher[k] = "retry" /\ watcher' = [watcher EXCEPT ![k] = "install"]
        /\ made + 1 \in Conns /\ owner[made + 1] = None
        /\ owner'[made + 1] = owner[k] /\ \A l \in Conns : l # made + 1 => owner'[l] = owner[l]
        /\ UNCHANGED <<sessions, connConfigs, history, auditIDs, file, connect>>
    BY <1>9, RetryMakes
  <2>2. ASSUME NEW j \in Ids, Done(j)' PROVE Done(j) /\ (Clear(j) => Clear(j)')
    <3>1. \A l \in Conns : owner[l] = j => l # made + 1 /\ l # k
      <4>1. owner[k] # None
        BY <2>1, WatchedOwner
      <4>2. j # None
        BY DEF Ids
      <4>3. made + 1 # k
        BY <2>1, <4>1
      <4> QED
        BY <2>1, <2>2, <4>2, <4>3
    <3>2. \A l \in Conns : owner[l] = j => owner'[l] = j /\ watcher'[l] = watcher[l]
      BY <2>1, <3>1
    <3>3. Done(j)
      BY <2>1, <2>2, <3>2
    <3>4. Clear(j) => Clear(j)'
      BY <2>1
    <3> QED
      BY <3>3, <3>4
  <2> QED
    BY <1>1, <2>2
<1>10. ASSUME NEW k \in Conns, Install(k) \/ EmitExit(k) PROVE NothingLeftBehind'
  <2>1. /\ watcher[k] \in {"install", "exit"} /\ UNCHANGED <<connect, owner>>
        /\ \E to \in {"attach", "closing"} : watcher' = [watcher EXCEPT ![k] = to]
        /\ UNCHANGED sessions \/ sessions' = [sessions EXCEPT ![owner[k]] = next[k]]
        /\ UNCHANGED <<connConfigs, history, file, auditIDs>>
    BY <1>10, WatchEnds
  <2>2. /\ watcher'[k] \notin {"none", "gone"} /\ \A l \in Conns : l # k => watcher'[l] = watcher[l]
        /\ \A j \in Ids : j # owner[k] => sessions'[j] = sessions[j]
    BY <2>1
  <2> QED
    BY <1>7, <2>1, <2>2
<1>11. ASSUME NEW k \in Conns, AttachNext(k) PROVE NothingLeftBehind'
  <2>1. /\ next[k] \in Conns /\ owner[next[k]] = owner[k] /\ watcher'[next[k]] = "wait"
        /\ \A l \in Conns : l # k /\ l # next[k] => watcher'[l] = watcher[l]
        /\ UNCHANGED <<owner, sessions, connConfigs, history, auditIDs, file, connect>>
    BY <1>11, AttachHandsOver DEF connVars
  <2>2. ASSUME NEW j \in Ids, Done(j)' PROVE Done(j) /\ (Clear(j) => Clear(j)')
    <3>1. j # owner[k]
      BY <2>1, <2>2
    <3> QED
      BY <2>1, <2>2, <3>1
  <2> QED
    BY <1>1, <2>2
<1>12. ASSUME NEW k \in Conns, Cleanup(k) PROVE NothingLeftBehind'
  <2>1. /\ watcher[k] = "cleanup" /\ watcher' = [watcher EXCEPT ![k] = "gone"] /\ UNCHANGED <<owner, connect>>
        /\ sessions' = [sessions EXCEPT ![owner[k]] = None]
        /\ connConfigs' = connConfigs \ {owner[k]} /\ auditIDs' = auditIDs \ {owner[k]}
        /\ hf[k] => file' = [file EXCEPT ![owner[k]] = "closed"] /\ history' = history \ {owner[k]}
        /\ ~hf[k] => UNCHANGED <<file, history>>
    BY <1>12, WatchEnds
  <2>2. owner[k] \in Ids /\ (~hf[k] => owner[k] \notin history /\ file[owner[k]] # "open")
    BY <2>1, WatchedOwner DEF Histories, Watching
  <2>3. Clear(owner[k])'
    BY <2>1, <2>2
  <2>4. ASSUME NEW j \in Ids, j # owner[k], Done(j)' PROVE Done(j) /\ (Clear(j) => Clear(j)')
    BY <2>1, <2>4
  <2>5. ASSUME NEW j \in Ids, Done(j)' PROVE (Done(j) /\ (Clear(j) => Clear(j)')) \/ Clear(j)'
    <3>1. CASE j = owner[k]
      BY <2>1, <2>3, <3>1
    <3>2. CASE j # owner[k]
      BY <2>4, <2>5, <3>2
    <3> QED
      BY <3>1, <3>2
  <2> HIDE DEF Done, Clear
  <2> QED
    BY <1>1, <2>5
<1> QED
  BY <1>2, <1>3, <1>4, <1>5, <1>6, <1>8, <1>9, <1>10, <1>11, <1>12, StepKinds

\* What every step does to the end signal and to Close of the connections.
LEMMA SignalsAndCloses ==
    ASSUME TypeOK, [Next]_vars
    PROVE  \/ UNCHANGED <<signal, close>>
           \/ \E k \in Conns :
                 \/ /\ signal[k] = "none" /\ UNCHANGED close
                    /\ \E s \in {"clean", "error", "lost"} : signal' = [signal EXCEPT ![k] = s]
                 \/ /\ close[k] = "asked" /\ UNCHANGED signal
                    /\ close' = [close EXCEPT ![k] = "closed"]
                 \/ AskClose(k) /\ UNCHANGED signal
<1> USE DEF TypeOK
<1>1. CASE UNCHANGED vars
  BY <1>1 DEF vars, connVars
<1>2. ASSUME NEW k \in Conns, PostSignal(k) \/ SignalLost(k) \/ SelfClose(k) \/ CloseDone(k) \/ EmitExit(k)
      PROVE  \/ /\ signal[k] = "none" /\ UNCHANGED close
                /\ \E s \in {"clean", "error", "lost"} : signal' = [signal EXCEPT ![k] = s]
             \/ /\ close[k] = "asked" /\ UNCHANGED signal
                /\ close' = [close EXCEPT ![k] = "closed"]
             \/ AskClose(k) /\ UNCHANGED signal
  BY <1>2 DEF PostSignal, SignalLost, SelfClose, CloseDone, EmitExit, AskClose
<1>3. ASSUME NEW i \in Ids, CloseSession(i)
      PROVE  UNCHANGED <<signal, close>> \/ \E k \in Conns : AskClose(k) /\ UNCHANGED signal
  BY <1>3 DEF CloseSession
<1>4. ASSUME NEW k \in Conns,
             \/ TakeSignal(k) \/ CheckManual(k) \/ RetryFails(k) \/ RetryConnects(k) \/ Install(k)
             \/ AttachNext(k) \/ ExitClosed(k) \/ TakeAuditID(k) \/ SaveAuditEnd(k) \/ Cleanup(k)
             \/ Teardown(k) \/ ConsumerEnds(k) \/ \E how \in {"clean", "error"} : RemoteEnds(k, how)
      PROVE  UNCHANGED <<signal, close>>
  BY <1>4 DEF TakeSignal, CheckManual, RetryFails, RetryConnects, Install, AttachNext, ExitClosed,
         TakeAuditID, SaveAuditEnd, Cleanup, Teardown, ConsumerEnds, RemoteEnds, Dialled, connVars
<1>5. ASSUME NEW i \in Ids,
             \/ OpenHistory(i) \/ StartAudit(i) \/ KeepAuditID(i) \/ AttachFirst(i) \/ OnConnected(i)
             \/ OnExit(i) \/ SshClose(i) \/ CloseTunnels(i) \/ CloseReturns(i)
             \/ OpenTunnel(i) \/ OpenTunnelFails(i) \/ RegisterTunnel(i) \/ StopTunnel(i)
      PROVE  UNCHANGED <<signal, close>>
  BY <1>5 DEF OpenHistory, StartAudit, KeepAuditID, AttachFirst, OnConnected, OnExit, SshClose,
         CloseTunnels, CloseReturns, OpenTunnel, OpenTunnelFails, RegisterTunnel, StopTunnel, connVars
<1>6. ASSUME NEW p, Connect(p) PROVE UNCHANGED <<signal, close>>
  BY <1>6 DEF Connect, Dialled
<1> QED
  BY <1>1, <1>2, <1>3, <1>4, <1>5, <1>6 DEF Next, Session, Watch, Retry, Connecting, Closing

\* Every step is a step of the interface for each connection, or none.
LEMMA NextImplements ==
    ASSUME TypeOK, [Next]_vars, NEW c \in Conns
    PROVE  [Term(c)!Next]_(Term(c)!vars)
<1> USE DEF TypeOK, Term!Next, Term!vars
<1>1. CASE signal'[c] = signal[c] /\ close'[c] = close[c]
  BY <1>1
<1>2. ASSUME signal[c] = "none", close'[c] = close[c], signal'[c] \in {"clean", "error", "lost"}
      PROVE  [Term(c)!Next]_(Term(c)!vars)
  BY <1>2 DEF Term!Post, Term!Signals
<1>3. ASSUME close[c] = "asked", close'[c] = "closed", signal'[c] = signal[c]
      PROVE  [Term(c)!Next]_(Term(c)!vars)
  BY <1>3 DEF Term!CloseOutput
<1>4. ASSUME close[c] = "no", close'[c] = "asked", signal'[c] = signal[c]
      PROVE  [Term(c)!Next]_(Term(c)!vars)
  BY <1>4 DEF Term!Stop
<1>5. \/ signal'[c] = signal[c] /\ close'[c] = close[c]
      \/ signal[c] = "none" /\ close'[c] = close[c] /\ signal'[c] \in {"clean", "error", "lost"}
      \/ close[c] = "asked" /\ close'[c] = "closed" /\ signal'[c] = signal[c]
      \/ close[c] = "no" /\ close'[c] = "asked" /\ signal'[c] = signal[c]
  BY SignalsAndCloses DEF AskClose
<1> QED
  BY <1>1, <1>2, <1>3, <1>4, <1>5

-----------------------------------------------------------------------------
(* Theorems *)

\* The invariant holds of every behaviour.
LEMMA SpecIInv == Spec => []IInv
<1>1. IInv /\ [Next]_vars => IInv'
  <2> SUFFICES ASSUME IInv, [Next]_vars PROVE IInv'
    OBVIOUS
  <2>1. TypeOK' /\ Made' /\ Fresh' /\ Chain' /\ OneWatcher' /\ SessionIsWatched'
    BY TypesStep, MadeStep, FreshStep, ChainStep, OneWatcherStep, WatchedStep
  <2>2. Exits' /\ Histories' /\ NothingLeftBehind'
    BY ExitsStep, HistoriesStep, NothingLeftStep
  <2> QED
    BY <2>1, <2>2 DEF IInv
<1> QED
  BY <1>1, InitIInv, PTL DEF Spec

\* The tables of the application, its goroutines and stores keep their types.
THEOREM AppTypeCorrect == Spec => []TypeOK
<1>1. IInv => TypeOK
  BY DEF IInv
<1> QED
  BY <1>1, SpecIInv, PTL

\* attachSession and tryReconnect: a registered session is waited for by a
\* goroutine, or is about to be.
THEOREM SessionsAreWatched == Spec => []SessionIsWatched
<1>1. IInv => SessionIsWatched
  BY DEF IInv
<1> QED
  BY <1>1, SpecIInv, PTL

\* Two goroutines never reconnect, audit or clean up the same session at once.
THEOREM OneWatcherEach == Spec => []OneWatcher
<1>1. IInv => OneWatcher
  BY DEF IInv
<1> QED
  BY <1>1, SpecIInv, PTL

\* ssh-exit is emitted once for a session, when all its connections have ended.
THEOREM ExitIsTheEnd == Spec => []ExitIsFinal
<1>1. IInv => ExitIsFinal
  <2> SUFFICES ASSUME IInv, NEW i \in Ids
               PROVE  /\ exits[i] <= 1
                      /\ exits[i] = 1 => \A k \in Conns : owner[k] = i /\ life[k] = "live" => close[k] # "no"
    BY DEF ExitIsFinal
  <2>1. exits[i] \in Nat /\ exits[i] <= 1
    BY DEF IInv, TypeOK, Exits
  <2>2. ASSUME exits[i] = 1, NEW k \in Conns, owner[k] = i PROVE life[k] # "live"
    BY <2>2 DEF IInv, Exits, Made, After
  <2> QED
    BY <2>1, <2>2
<1> QED
  BY <1>1, SpecIInv, PTL

\* When the last goroutine of a session has returned the session has left the
\* tables, its history file is closed and no audit record waits for its end.
THEOREM SessionsLeaveNothing == Spec => []NothingLeftBehind
<1>1. IInv => NothingLeftBehind
  BY DEF IInv
<1> QED
  BY <1>1, SpecIInv, PTL

\* The connections of the application follow the interface TermSession of
\* internal/model/session.go.
THEOREM ConnsImplementTerm == Spec => ConnsAreTermSessions
<1>1. Init => \A k \in Conns : Term(k)!Init
  BY DEF Init, Term!Init
<1>2. TypeOK /\ [Next]_vars => [\A k \in Conns : [Term(k)!Next]_(Term(k)!vars)]_connVars
  BY NextImplements
<1> QED
  BY <1>1, <1>2, AppTypeCorrect, PTL DEF Spec, ConnsAreTermSessions
=============================================================================
