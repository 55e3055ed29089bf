-------------------------- MODULE SyncServer_proofs --------------------------
(* What holds of the sync server for any accounts, applications, requests    *)
(* and sessions in the vaults.  IInv: no version of a vault is beyond the    *)
(* requests sent, a request names a version the vault had, and the vault     *)
(* holds the data of the upload of its version; DeviceInv: a device that is  *)
(* enrolled never disappears.                                                *)
EXTENDS SyncServer, TLAPS

WithNewToken == {"register", "login"}
WithToken == {"get", "put", "revoke"}

\* What is not sent yet has left no trace.
Unsent ==
    \A r \in Reqs : r > sent =>
        req[r] = NoReq /\ pc[r] = "none" /\ answer[r] = Pending

\* Every request names an account, and what its kind needs; an upload names a
\* version the vault had.
Asked ==
    \A r \in Reqs : r <= sent =>
        /\ req[r].kind \in Kinds /\ Account(r) \in Emails
        /\ req[r].kind \in WithToken => req[r].token.dev \in Devices
        /\ req[r].kind = "put" =>
             /\ req[r].version \in Nat /\ req[r].version < r /\ req[r].data \in SUBSET Items
             /\ req[r].version <= vault[Account(r)].version
        /\ req[r].kind = "revoke" => req[r].target \in Devices

\* The step of a handler is one of its kind, and it answers last.
Handlers ==
    \A r \in Reqs :
        /\ pc[r] \in {"create", "addDevice"} => req[r].kind = "register"
        /\ pc[r] = "login" => req[r].kind = "login"
        /\ pc[r] \in {"check", "touch", "update", "work"} => req[r].kind \in WithToken
        /\ pc[r] = "conflict" => req[r].kind = "put"
        /\ pc[r] = "revoke" => req[r].kind = "revoke"
        /\ pc[r] # "answered" => answer[r] = Pending

\* The call of an application and the kind of its request; while it pushes it
\* keeps its token.
Calls ==
    \A a \in Apps : op[a] # Idle =>
        /\ op[a].req \in 1..sent /\ req[op[a].req].kind # "none"
        /\ op[a].call \in {"register", "login", "revoke"} => req[op[a].req].kind = op[a].call
        /\ op[a].call = "push" => req[op[a].req].kind = "put"
        /\ op[a].call \in {"version", "pull"} => req[op[a].req].kind = "get"
        /\ op[a].call = "version" => token[a] # None /\ Account(op[a].req) = token[a].email

\* What is answered to whom: tokens, and versions the vault has reached.
Answers ==
    \A r \in Reqs : answer[r].status = 200 =>
        /\ req[r].kind \in WithNewToken => answer[r].token \in Tokens
        /\ req[r].kind \in {"get", "put"} =>
             answer[r].version \in Nat /\ answer[r].version <= vault[Account(r)].version
        /\ req[r].kind = "get" => answer[r].data \in SUBSET Items

\* The vault holds the data of the upload that made its version, no version is beyond the
\* requests, and a handler that reports a conflict has one.
Versions ==
    /\ \A e \in Emails : vault[e].version <= sent
    /\ \A s \in Done("put") : answer[s].version = vault[Account(s)].version
                                 => vault[Account(s)].data = req[s].data
    /\ \A r \in Reqs : pc[r] = "conflict" => req[r].version < vault[Account(r)].version

Vaults == Versions /\ CommittedOnce /\ ReadsWhatWasWritten /\ ConflictIsReal

\* Who registers an account has it, and is alone.
Registering == {r \in Reqs : req[r].kind = "register" /\ (pc[r] = "addDevice" \/ answer[r].status = 200)}
Accounts ==
    /\ \A r \in Registering : Account(r) \in users
    /\ \A r, s \in Registering : Account(r) = Account(s) => r = s

\* The inductive invariant, without the devices.
Types == TypeOK /\ Unsent /\ Asked /\ Handlers /\ Calls /\ Answers /\ \A e \in Emails : vault[e].version <= sent
IInv == Types /\ Vaults /\ Accounts

USE SyncAssumption DEF SyncAssumption

\* It holds before the first request.
LEMMA InitIInv == Init => IInv
<1> SUFFICES ASSUME Init PROVE IInv
  OBVIOUS
<1> USE DEF Init, NoReq, Pending, Idle
<1>1. TypeOK
  <2>1. token \in [Apps -> Tokens \cup {None}]
    BY DEF Tokens, Devices
  <2>2. users \subseteq Emails /\ devices \in [Devices -> {"none", "active", "revoked"}]
    OBVIOUS
  <2> QED
    BY <2>1, <2>2 DEF TypeOK, Steps, Reqs
<1>2. Unsent /\ Asked /\ Handlers /\ Calls /\ Answers /\ \A e \in Emails : vault[e].version <= sent
  BY DEF Unsent, Asked, Handlers, Calls, Answers, Reqs, WithNewToken, WithToken
<1>3. Vaults /\ Accounts
  BY DEF Vaults, Versions, CommittedOnce, ReadsWhatWasWritten, ConflictIsReal, Done, Accounts, Registering
<1> QED
  BY <1>1, <1>2, <1>3 DEF IInv, Types

\* Sending a request that asks what it should.
LEMMA SendIInv ==
    ASSUME IInv, NEW a \in Apps,
           NEW call \in {"register", "login", "version", "push", "pull", "revoke"},
           NEW q, NEW step \in {"create", "login", "check"}, Send(a, call, q, step),
           q.kind \in Kinds, q.token.email \in Emails,
           q.kind \in WithToken => step = "check" /\ q.token.dev \in Devices,
           q.kind = "register" => step = "create",
           q.kind = "login" => step = "login",
           q.kind = "put" => /\ q.version \in Nat /\ q.version <= sent /\ q.data \in SUBSET Items
                             /\ q.version <= vault[q.token.email].version,
           q.kind = "revoke" => q.target \in Devices,
           call \in {"register", "login", "revoke"} => q.kind = call,
           call = "push" => q.kind = "put",
           call \in {"version", "pull"} => q.kind = "get",
           call = "version" => token[a] # None /\ q.token = token[a]
    PROVE  IInv'
<1> DEFINE n == sent + 1
<1>1. /\ n \in Reqs /\ sent' = n /\ sent \in Nat
      /\ req'[n] = q /\ pc'[n] = step /\ \A r \in Reqs : r # n => req'[r] = req[r] /\ pc'[r] = pc[r]
      /\ UNCHANGED <<users, devices, vault, copy, answer, token, local>>
      /\ op'[a] = [call |-> call, req |-> n] /\ \A b \in Apps : b # a => op'[b] = op[b]
      /\ answer[n] = Pending
  BY DEF Send, IInv, Types, TypeOK, Unsent, Reqs, dbVars
<1>2. TypeOK'
  <2>1. pc' \in [Reqs -> Steps]
    BY DEF Send, IInv, Types, TypeOK, Steps
  <2>2. op' \in [Apps -> [call : {"idle", "register", "login", "version", "push", "pull", "revoke"},
                        req : 0..MaxReqs]]
    BY <1>1 DEF Send, IInv, Types, TypeOK, Reqs
  <2>3. DOMAIN req' = Reqs /\ \A r \in Reqs : req'[r].kind \in Kinds \cup {"none"}
    BY <1>1 DEF Send, IInv, Types, TypeOK
  <2> QED
    BY <1>1, <2>1, <2>2, <2>3 DEF IInv, Types, TypeOK, Reqs
<1>3. Unsent' /\ Handlers'
  BY <1>1 DEF IInv, Types, Unsent, Handlers, Reqs, Kinds, WithToken, NoReq
<1>4. Asked'
  BY <1>1 DEF IInv, Types, Asked, Account, Reqs
<1>5. Calls'
  <2> SUFFICES ASSUME NEW b \in Apps, op'[b] # Idle
               PROVE  /\ op'[b].req \in 1..sent' /\ req'[op'[b].req].kind # "none"
                      /\ op'[b].call \in {"register", "login", "revoke"} => req'[op'[b].req].kind = op'[b].call
                      /\ op'[b].call = "push" => req'[op'[b].req].kind = "put"
                      /\ op'[b].call \in {"version", "pull"} => req'[op'[b].req].kind = "get"
                      /\ op'[b].call = "version" =>
                           token'[b] # None /\ req'[op'[b].req].token.email = token'[b].email
    BY DEF Calls, Account
  <2>1. CASE b = a
    BY <1>1, <2>1 DEF Kinds
  <2>2. CASE b # a
    <3>1. op[b] # Idle /\ op[b].req \in Reqs /\ op[b].req # n
      BY <1>1, <2>2 DEF IInv, Types, Calls, Reqs, Idle
    <3> QED
      BY <1>1, <2>2, <3>1 DEF IInv, Types, Calls, Account
  <2> QED
    BY <2>1, <2>2
<1>6. Answers' /\ \A e \in Emails : vault'[e].version <= sent'
  BY <1>1 DEF IInv, Types, TypeOK, Answers, Account, Pending
<1>7. Vaults'
  <2>1. \A r \in Reqs : answer'[r].status # 0 => r # n /\ req'[r] = req[r]
    BY <1>1 DEF Pending
  <2>2. Versions'
    <3>1. \A r \in Reqs : pc'[r] = "conflict" => r # n
      BY <1>1
    <3> QED
      BY <1>1, <1>6, <2>1, <3>1 DEF IInv, Vaults, Versions, Done, Account
  <2>3. CommittedOnce'
    BY <1>1, <2>1 DEF IInv, Vaults, CommittedOnce, Done, Account
  <2>4. ReadsWhatWasWritten'
    BY <1>1, <2>1 DEF IInv, Vaults, ReadsWhatWasWritten, Done, Account
  <2>5. ConflictIsReal'
    BY <1>1, <2>1 DEF IInv, Vaults, ConflictIsReal, Account
  <2> QED
    BY <2>2, <2>3, <2>4, <2>5 DEF Vaults
<1>8. Accounts'
  BY <1>1 DEF IInv, Accounts, Registering, Account, Pending
<1> QED
  BY <1>2, <1>3, <1>4, <1>5, <1>6, <1>7, <1>8 DEF IInv, Types

\* A handler goes on without an answer.
LEMMA GotoIInv ==
    ASSUME IInv, NEW r \in Reqs, NEW step \in Steps \ {"none", "answered", "create"},
           pc[r] \notin {"none", "answered", "lost"}, Goto(r, step),
           UNCHANGED <<vault, sent, req, appVars>>,
           devices' \in [Devices -> {"none", "active", "revoked"}],
           copy' \in [Reqs -> {"none", "active", "revoked"}],
           users \subseteq users', users' \subseteq Emails,
           step = "addDevice" => req[r].kind = "register" /\ Account(r) \in users' \ users,
           step = "login" => req[r].kind = "login",
           step \in {"check", "touch", "update", "work"} => req[r].kind \in WithToken,
           step = "conflict" => req[r].kind = "put" /\ req[r].version < vault[Account(r)].version,
           step = "revoke" => req[r].kind = "revoke"
    PROVE  IInv'
<1>1. /\ pc'[r] = step /\ \A s \in Reqs : s # r => pc'[s] = pc[s]
      /\ UNCHANGED answer /\ answer[r] = Pending /\ r <= sent
  BY DEF Goto, IInv, Types, TypeOK, Handlers, Unsent, Reqs
<1>2. TypeOK'
  <2>1. pc' \in [Reqs -> Steps]
    BY DEF Goto, IInv, Types, TypeOK
  <2> QED
    BY <1>1, <2>1 DEF IInv, Types, TypeOK, appVars
<1>3. Unsent' /\ Handlers' /\ Calls' /\ Answers' /\ \A e \in Emails : vault'[e].version <= sent'
  BY <1>1 DEF IInv, Types, Unsent, Handlers, Calls, Answers, Account, appVars
<1>4. Asked'
  BY DEF IInv, Types, Asked, Account
<1>5. Vaults'
  BY <1>1 DEF IInv, Vaults, Versions, CommittedOnce, ReadsWhatWasWritten, ConflictIsReal, Done, Account
<1>6. Accounts'
  BY <1>1 DEF IInv, Accounts, Registering, Account, Pending
<1> QED
  BY <1>2, <1>3, <1>4, <1>5, <1>6 DEF IInv, Types

\* A handler answers, and it is not an upload that succeeded.
LEMMA AnswerIInv ==
    ASSUME IInv, NEW r \in Reqs, NEW ans,
           pc[r] \notin {"none", "answered", "lost"}, Answer(r, ans),
           UNCHANGED <<users, vault, sent, req, copy, appVars>>,
           devices' \in [Devices -> {"none", "active", "revoked"}],
           ans.status \in {200, 204, 401, 404, 409, 500},
           ans.status = 200 =>
               /\ req[r].kind # "put"
               /\ req[r].kind = "register" => pc[r] = "addDevice"
               /\ req[r].kind \in WithNewToken => ans.token \in Tokens
               /\ req[r].kind = "get" => /\ ans.version = vault[Account(r)].version
                                         /\ ans.data = vault[Account(r)].data,
           ans.status = 409 /\ req[r].kind = "put" =>
               /\ req[r].version < vault[Account(r)].version
               /\ ans.version > req[r].version \/ ans.version = 0
    PROVE  IInv'
<1>1. /\ pc'[r] = "answered" /\ answer'[r] = ans
      /\ \A s \in Reqs : s # r => pc'[s] = pc[s] /\ answer'[s] = answer[s]
      /\ answer[r] = Pending /\ r <= sent
  BY DEF Answer, IInv, Types, TypeOK, Handlers, Unsent, Reqs
<1>2. TypeOK'
  <2>1. pc' \in [Reqs -> Steps]
    BY DEF Answer, IInv, Types, TypeOK, Steps
  <2>2. DOMAIN answer' = Reqs
    BY DEF Answer, IInv, Types, TypeOK
  <2> QED
    BY <1>1, <2>1, <2>2 DEF IInv, Types, TypeOK, appVars
<1>3. Unsent' /\ Handlers'
  BY <1>1 DEF IInv, Types, Unsent, Handlers
<1>4. Calls' /\ Asked' /\ \A e \in Emails : vault'[e].version <= sent'
  BY DEF IInv, Types, Calls, Asked, Account, appVars
<1>5. Answers'
  <2>1. r <= sent => Account(r) \in Emails
    BY DEF IInv, Types, Asked
  <2> QED
    BY <1>1, <2>1 DEF IInv, Types, TypeOK, Answers, Account, WithNewToken
<1>6. Versions' /\ CommittedOnce'
  BY <1>1 DEF IInv, Vaults, Versions, CommittedOnce, Done, Account
<1>7. ReadsWhatWasWritten'
  BY <1>1 DEF IInv, Vaults, Versions, ReadsWhatWasWritten, Done, Account
<1>8. ConflictIsReal'
  BY <1>1 DEF IInv, Vaults, ConflictIsReal, Account
<1>9. Accounts'
  BY <1>1 DEF IInv, Accounts, Registering, Account
<1> QED
  BY <1>2, <1>3, <1>4, <1>5, <1>6, <1>7, <1>8, <1>9 DEF IInv, Types, Vaults

\* A request that was answered names an account.
LEMMA AnsweredHasAccount ==
    ASSUME IInv PROVE \A r \in Reqs : answer[r].status = 200 => Account(r) \in Emails
<1> SUFFICES ASSUME NEW r \in Reqs, answer[r].status = 200 PROVE Account(r) \in Emails
  OBVIOUS
<1>1. r <= sent
  BY DEF IInv, Types, TypeOK, Unsent, Pending, Reqs
<1> QED
  BY <1>1 DEF IInv, Types, Asked

\* An upload of the successor of the version of the vault: a version that
\* nobody has uploaded or read yet.
LEMMA CommitIInv ==
    ASSUME IInv, NEW r \in Reqs, Working(r, "put"), req[r].version = vault[Account(r)].version,
           vault' = [vault EXCEPT ![Account(r)] =
                        [version |-> vault[Account(r)].version + 1, data |-> req[r].data]],
           Answer(r, [status |-> 200, version |-> vault[Account(r)].version + 1]),
           UNCHANGED <<users, devices, copy, rest>>
    PROVE  IInv'
<1> DEFINE e == Account(r)
           v == vault[e].version + 1
<1>1. /\ pc[r] = "work" /\ req[r].kind = "put" /\ req[r].version = vault[e].version
      /\ vault' = [vault EXCEPT ![e] = [version |-> v, data |-> req[r].data]]
      /\ Answer(r, [status |-> 200, version |-> v])
      /\ UNCHANGED <<users, devices, copy, sent, req, op, token, local>>
  BY DEF Working, At, rest, appVars
<1>2. /\ pc'[r] = "answered" /\ answer'[r] = [status |-> 200, version |-> v]
      /\ \A s \in Reqs : s # r => pc'[s] = pc[s] /\ answer'[s] = answer[s]
      /\ answer[r] = Pending /\ r <= sent
  BY <1>1 DEF Answer, IInv, Types, TypeOK, Handlers, Unsent, Reqs
<1>3. /\ e \in Emails /\ vault'[e] = [version |-> v, data |-> req[r].data]
      /\ \A f \in Emails : f # e => vault'[f] = vault[f]
      /\ vault[e].version \in Nat /\ v <= r /\ r <= sent /\ req[r].data \in SUBSET Items
      /\ \A f \in Emails : vault[f].version \in Nat /\ vault[f].version <= vault'[f].version
  BY <1>1, <1>2 DEF IInv, Types, TypeOK, Asked, Reqs
<1>4. TypeOK'
  <2>1. pc' \in [Reqs -> Steps] /\ DOMAIN answer' = Reqs
    BY <1>1 DEF Answer, IInv, Types, TypeOK, Steps
  <2>2. vault' \in [Emails -> [version : 0..MaxReqs, data : SUBSET Items]]
    <3>1. v \in 0..MaxReqs
      BY <1>3 DEF Reqs
    <3> QED
      BY <1>1, <1>3, <3>1 DEF IInv, Types, TypeOK
  <2> QED
    BY <1>1, <1>2, <2>1, <2>2 DEF IInv, Types, TypeOK
<1>5. Unsent' /\ Handlers'
  BY <1>1, <1>2 DEF IInv, Types, Unsent, Handlers
<1>6. Calls'
  BY <1>1 DEF IInv, Types, Calls, Account
<1>7. Asked'
  <2>1. \A s \in Reqs : s <= sent => Account(s) \in Emails
    BY DEF IInv, Types, Asked
  <2> QED
    BY <1>1, <1>3, <2>1 DEF IInv, Types, Asked, Account
<1>8. Answers' /\ \A f \in Emails : vault'[f].version <= sent'
  <2>1. \A s \in Reqs : answer[s].status = 200 => Account(s) \in Emails
    BY AnsweredHasAccount
  <2>2. Answers'
    <3> SUFFICES ASSUME NEW s \in Reqs, answer'[s].status = 200
                 PROVE  /\ req[s].kind \in WithNewToken => answer'[s].token \in Tokens
                        /\ req[s].kind \in {"get", "put"} =>
                             answer'[s].version \in Nat /\ answer'[s].version <= vault'[Account(s)].version
                        /\ req[s].kind = "get" => answer'[s].data \in SUBSET Items
      BY <1>1 DEF Answers, Account
    <3>1. CASE s = r
      BY <1>1, <1>2, <1>3, <3>1 DEF WithNewToken
    <3>2. CASE s # r
      <4>1. answer[s].status = 200 /\ answer'[s] = answer[s] /\ Account(s) \in Emails
        BY <1>2, <2>1, <3>2
      <4>2. req[s].kind \in {"get", "put"} => answer[s].version \in Nat /\ answer[s].version <= vault[Account(s)].version
        BY <4>1 DEF IInv, Types, Answers
      <4>3. vault[Account(s)].version \in Nat /\ vault'[Account(s)].version \in Nat
            /\ vault[Account(s)].version <= vault'[Account(s)].version
        BY <1>3, <4>1
      <4> QED
        BY <4>1, <4>2, <4>3 DEF IInv, Types, Answers
    <3> QED
      BY <3>1, <3>2
  <2>3. \A f \in Emails : vault'[f].version <= sent'
    BY <1>1, <1>3 DEF IInv, Types, TypeOK, Reqs
  <2> QED
    BY <2>2, <2>3
<1>9. \A s \in Reqs : req[s].kind \in {"get", "put"} /\ answer[s].status = 200 /\ Account(s) = e
                        => s # r /\ answer[s].version < v
  BY <1>2, <1>3 DEF IInv, Types, Answers, Pending
<1>10. Versions'
  <2>1. \A s \in Reqs : pc'[s] = "conflict" =>
          /\ s # r /\ req[s].version < vault[Account(s)].version /\ Account(s) \in Emails
          /\ req[s].version \in Nat
    <3> SUFFICES ASSUME NEW s \in Reqs, pc'[s] = "conflict"
                 PROVE  /\ s # r /\ req[s].version < vault[Account(s)].version /\ Account(s) \in Emails
                        /\ req[s].version \in Nat
      OBVIOUS
    <3>1. s # r /\ pc[s] = "conflict"
      BY <1>2
    <3>2. s <= sent /\ req[s].kind = "put"
      BY <3>1 DEF IInv, Types, TypeOK, Handlers, Unsent, Reqs
    <3> QED
      BY <3>1, <3>2 DEF IInv, Types, Asked, Vaults, Versions
  <2>2. \A s \in Reqs : answer[s].status = 200 => Account(s) \in Emails
    BY AnsweredHasAccount
  <2>3. \A s \in Done("put")' : answer'[s].version = vault'[Account(s)].version
                                  => vault'[Account(s)].data = req[s].data
    <3> SUFFICES ASSUME NEW s \in Reqs, req[s].kind = "put", answer'[s].status = 200,
                        answer'[s].version = vault'[Account(s)].version
                 PROVE  vault'[Account(s)].data = req[s].data
      BY <1>1 DEF Done
    <3>1. CASE s = r
      BY <1>3, <3>1
    <3>2. CASE s # r
      <4>1. answer'[s] = answer[s] /\ answer[s].status = 200 /\ Account(s) \in Emails
        BY <1>2, <2>2, <3>2
      <4>2. Account(s) # e
        BY <1>3, <1>9, <4>1
      <4> QED
        BY <1>3, <4>1, <4>2 DEF IInv, Vaults, Versions, Done
    <3> QED
      BY <3>1, <3>2
  <2>4. \A s \in Reqs : pc'[s] = "conflict" => req[s].version < vault'[Account(s)].version
    BY <1>3, <2>1
  <2> QED
    BY <1>1, <1>8, <2>3, <2>4 DEF Versions, Account
<1>11. CommittedOnce'
  BY <1>1, <1>2, <1>3, <1>9 DEF IInv, Vaults, CommittedOnce, Done, Account
<1>12. ReadsWhatWasWritten'
  BY <1>1, <1>2, <1>3, <1>9 DEF IInv, Vaults, ReadsWhatWasWritten, Done, Account
<1>13. ConflictIsReal'
  <2> SUFFICES ASSUME NEW s \in Reqs, answer'[s].status = 409, req[s].kind = "put"
               PROVE  /\ req[s].version < vault'[Account(s)].version
                      /\ answer'[s].version > req[s].version \/ answer'[s].version = 0
    BY <1>1 DEF ConflictIsReal, Account
  <2>1. s # r /\ answer'[s] = answer[s]
    BY <1>2
  <2>2. /\ req[s].version < vault[Account(s)].version
        /\ answer[s].version > req[s].version \/ answer[s].version = 0
    BY <2>1 DEF IInv, Vaults, ConflictIsReal
  <2>3. s <= sent
    BY <2>1 DEF IInv, Types, TypeOK, Unsent, Pending, Reqs
  <2>4. Account(s) \in Emails /\ req[s].version \in Nat
    BY <2>3 DEF IInv, Types, Asked
  <2>5. vault[Account(s)].version <= vault'[Account(s)].version
        /\ vault[Account(s)].version \in Nat /\ vault'[Account(s)].version \in Nat
    BY <1>3, <2>4
  <2> QED
    BY <2>1, <2>2, <2>4, <2>5
<1>14. Accounts'
  BY <1>1, <1>2 DEF IInv, Accounts, Registering, Account
<1> QED
  BY <1>4, <1>5, <1>6, <1>7, <1>8, <1>10, <1>11, <1>12, <1>13, <1>14 DEF IInv, Types, Vaults

\* Steps of the applications that send nothing, and crashes.
LEMMA QuietIInv ==
    ASSUME IInv, NEW a,
           \/ a \in Apps /\ (Return(a) \/ TimeOut(a) \/ \E x \in Items : SaveSession(a, x))
           \/ Crash
    PROVE  IInv'
<1>1. UNCHANGED <<users, devices, vault, sent, req, copy, answer>>
  BY DEF Return, TimeOut, SaveSession, Crash, dbVars, handlerVars, rest
<1>2. /\ pc' \in [Reqs -> Steps]
      /\ \A r \in Reqs : pc'[r] = pc[r] \/ (pc'[r] = "lost" /\ pc[r] \notin {"none", "answered"})
  BY DEF Return, TimeOut, SaveSession, Crash, handlerVars, Handling, IInv, Types, TypeOK, Steps
<1>3. /\ op' \in [Apps -> [call : {"idle", "register", "login", "version", "push", "pull", "revoke"},
                        req : 0..MaxReqs]]
      /\ \A b \in Apps : op'[b] = Idle \/ (op'[b] = op[b] /\ (op[b] # Idle => token'[b] = token[b]))
  <2>1. \/ op' = op /\ token' = token
        \/ op' = [op EXCEPT ![a] = Idle] /\ \A b \in Apps : b # a => token'[b] = token[b]
    BY DEF Return, TimeOut, SaveSession, Crash, appVars, rest, IInv, Types, TypeOK
  <2> QED
    BY <2>1 DEF IInv, Types, TypeOK, Idle
<1>4. token' \in [Apps -> Tokens \cup {None}] /\ local' \in [Apps -> SUBSET Items]
  <2>1. CASE a \in Apps /\ Return(a)
    <3>1. /\ op[a].req \in Reqs
          /\ answer[op[a].req].status = 200 /\ op[a].call \in {"register", "login"}
               => answer[op[a].req].token \in Tokens
          /\ answer[op[a].req].status = 200 /\ op[a].call = "pull"
               => answer[op[a].req].data \in SUBSET Items
      BY <2>1 DEF Return, IInv, Types, TypeOK, Calls, Answers, WithNewToken, Reqs
    <3> QED
      BY <2>1, <3>1 DEF Return, IInv, Types, TypeOK
  <2>2. CASE ~(a \in Apps /\ Return(a))
    BY <2>2 DEF TimeOut, SaveSession, Crash, appVars, rest, IInv, Types, TypeOK
  <2> QED
    BY <2>1, <2>2
<1>5. TypeOK'
  BY <1>1, <1>2, <1>3, <1>4 DEF IInv, Types, TypeOK
<1>6. Unsent' /\ Handlers' /\ Asked' /\ Answers' /\ \A e \in Emails : vault'[e].version <= sent'
  BY <1>1, <1>2 DEF IInv, Types, Unsent, Handlers, Asked, Answers, Account
<1>7. Calls'
  BY <1>1, <1>3 DEF IInv, Types, Calls, Account
<1>8. Vaults' /\ Accounts'
  BY <1>1, <1>2 DEF IInv, Vaults, Versions, CommittedOnce, ReadsWhatWasWritten, ConflictIsReal,
                    Done, Account, Accounts, Registering
<1> QED
  BY <1>5, <1>6, <1>7, <1>8 DEF IInv, Types

\* SyncPush names a version that the vault of its token has had.
LEMMA PushIsOfToken ==
    ASSUME IInv, NEW a \in Apps, PushExport(a)
    PROVE  LET v == answer[op[a].req].version
           IN  /\ token[a] # None /\ v \in Nat /\ local[a] \in SUBSET Items
               /\ Send(a, "push", [kind |-> "put", token |-> token[a], version |-> v, data |-> local[a]], "check")
               /\ v <= vault[token[a].email].version /\ v <= sent
<1> DEFINE v == answer[op[a].req].version
<1>1. /\ token[a] # None /\ op[a].call = "version" /\ answer[op[a].req].status = 200
      /\ Send(a, "push", [kind |-> "put", token |-> token[a], version |-> v, data |-> local[a]], "check")
  BY DEF PushExport, Answered, SendWithToken
<1>2. op[a].req \in Reqs /\ req[op[a].req].kind = "get" /\ Account(op[a].req) = token[a].email
  BY <1>1 DEF IInv, Types, TypeOK, Calls, Reqs, Idle
<1>3. v \in Nat /\ v <= vault[token[a].email].version
  BY <1>1, <1>2 DEF IInv, Types, Answers
<1>4. token[a].email \in Emails /\ local[a] \in SUBSET Items
  BY <1>1 DEF IInv, Types, TypeOK, Tokens
<1>5. v <= sent
  BY <1>3, <1>4 DEF IInv, Types, TypeOK
<1> QED
  BY <1>1, <1>3, <1>4, <1>5

\* Every step keeps the invariant.
LEMMA NextIInv == IInv /\ [Next]_vars => IInv'
<1> SUFFICES ASSUME IInv, [Next]_vars PROVE IInv'
  OBVIOUS
<1>1. ASSUME NEW a \in Apps, NEW e \in Emails, SyncRegister(a, e) \/ SyncLogin(a, e) PROVE IInv'
  BY <1>1, SendIInv DEF SyncRegister, SyncLogin, NoDevice, Kinds, WithToken
<1>2. ASSUME NEW a \in Apps, token[a] # None PROVE token[a].email \in Emails /\ token[a].dev \in Devices
  BY <1>2 DEF IInv, Types, TypeOK, Tokens
<1>3. ASSUME NEW a \in Apps, SyncPush(a) \/ SyncPull(a) PROVE IInv'
  BY <1>2, <1>3, SendIInv DEF SyncPush, SyncPull, SendWithToken, Kinds, WithToken
<1>4. ASSUME NEW a \in Apps, SyncRevokeDevice(a) PROVE IInv'
  BY <1>2, <1>4, SendIInv DEF SyncRevokeDevice, SendWithToken, Kinds, WithToken
<1>5. ASSUME NEW a \in Apps, PushExport(a) PROVE IInv'
  <2> DEFINE v == answer[op[a].req].version
             q == [kind |-> "put", token |-> token[a], version |-> v, data |-> local[a]]
  <2>1. /\ token[a] # None /\ Send(a, "push", q, "check") /\ v \in Nat /\ local[a] \in SUBSET Items
        /\ v <= vault[token[a].email].version /\ v <= sent
    BY <1>5, PushIsOfToken
  <2> HIDE DEF v
  <2> QED
    BY <1>2, <2>1, SendIInv DEF Kinds, WithToken
<1>6. ASSUME NEW a \in Apps, Return(a) \/ TimeOut(a) \/ (\E x \in Items : SaveSession(a, x)) PROVE IInv'
  BY <1>6, QuietIInv
<1>7. ASSUME NEW r \in Reqs, Handle(r) PROVE IInv'
  <2> USE DEF At, rest, dbVars
  <2>1. /\ devices \in [Devices -> {"none", "active", "revoked"}]
        /\ copy \in [Reqs -> {"none", "active", "revoked"}] /\ users \subseteq Emails
    BY DEF IInv, Types, TypeOK
  <2>2. /\ pc[r] \in {"create", "addDevice"} => req[r].kind = "register"
        /\ pc[r] = "login" => req[r].kind = "login"
        /\ pc[r] \in {"check", "touch", "update", "work"} => req[r].kind \in WithToken
        /\ pc[r] = "conflict" => req[r].kind = "put"
        /\ pc[r] = "revoke" => req[r].kind = "revoke"
    BY DEF IInv, Types, Handlers
  <2>3. pc[r] # "none" => r <= sent
    BY DEF IInv, Types, TypeOK, Unsent, Reqs
  <2>4. pc[r] # "none" => Account(r) \in Emails
    BY <2>3 DEF IInv, Types, Asked
  <2>5. CASE CreateUser(r)
    BY <2>1, <2>2, <2>4, <2>5, GotoIInv, AnswerIInv DEF CreateUser, Steps, Status, WithNewToken
  <2>6. CASE AddDevice(r)
    <3>1. devices' \in [Devices -> {"none", "active", "revoked"}]
      BY <2>1, <2>6 DEF AddDevice
    <3>2. TokenFor(r, r).token \in Tokens
      BY <2>4, <2>6 DEF AddDevice, TokenFor, Tokens, Devices
    <3> QED
      BY <2>2, <2>6, <3>1, <3>2, AnswerIInv DEF AddDevice, TokenFor, WithNewToken
  <2>7. CASE Login(r)
    <3>1. /\ pc[r] = "login" /\ req[r].kind = "login" /\ Account(r) \in Emails
          /\ UNCHANGED <<users, devices, vault, copy, rest>>
      BY <2>2, <2>4, <2>7 DEF Login
    <3>2. ASSUME NEW d \in Devices, Answer(r, TokenFor(r, d)) PROVE IInv'
      <4>1. TokenFor(r, d).status = 200 /\ TokenFor(r, d).token \in Tokens
        BY <3>1 DEF TokenFor, Tokens
      <4> QED
        BY <2>1, <3>1, <3>2, <4>1, AnswerIInv
    <3>3. ASSUME Answer(r, Status(401)) PROVE IInv'
      BY <2>1, <3>1, <3>3, AnswerIInv DEF Status
    <3> QED
      BY <2>7, <3>2, <3>3 DEF Login
  <2>8. CASE CheckDevice(r)
    BY <2>1, <2>2, <2>8, GotoIInv, AnswerIInv DEF CheckDevice, Steps, Status
  <2>9. CASE TouchRead(r)
    <3>1. req[r].token.dev \in Devices
      BY <2>2, <2>3, <2>9 DEF TouchRead, IInv, Types, Asked
    <3>2. copy' \in [Reqs -> {"none", "active", "revoked"}]
      BY <2>1, <2>9, <3>1 DEF TouchRead
    <3> QED
      BY <2>1, <2>2, <2>9, <3>2, GotoIInv DEF TouchRead, Steps
  <2>10. CASE TouchUpdate(r)
    <3>1. devices' \in [Devices -> {"none", "active", "revoked"}]
      BY <2>1, <2>10 DEF TouchUpdate
    <3> QED
      BY <2>1, <2>2, <2>10, <3>1, GotoIInv DEF TouchUpdate, Steps
  <2>11. CASE Pull(r)
    BY <2>1, <2>11, AnswerIInv DEF Pull, Working, Status, WithNewToken
  <2>12. CASE PutVault(r)
    <3>1. pc[r] = "work" /\ req[r].kind = "put"
      BY <2>12 DEF PutVault, Working
    <3>2. /\ req[r].version <= vault[Account(r)].version
          /\ vault[Account(r)].version \in Nat /\ req[r].version \in Nat
      BY <2>3, <2>4, <3>1 DEF IInv, Types, TypeOK, Asked
    <3>3. CASE /\ req[r].version = vault[Account(r)].version
               /\ vault' = [vault EXCEPT ![Account(r)] =
                              [version |-> vault[Account(r)].version + 1, data |-> req[r].data]]
               /\ Answer(r, [status |-> 200, version |-> vault[Account(r)].version + 1])
      BY <2>12, <3>3, CommitIInv DEF PutVault
    <3>4. CASE req[r].version # vault[Account(r)].version /\ UNCHANGED vault /\ Goto(r, "conflict")
      BY <2>1, <2>12, <3>1, <3>2, <3>4, GotoIInv DEF PutVault, Steps
    <3>5. CASE UNCHANGED vault /\ Answer(r, Status(500))
      BY <2>1, <2>12, <3>1, <3>5, AnswerIInv DEF PutVault, Status
    <3> QED
      BY <2>12, <3>3, <3>4, <3>5 DEF PutVault
  <2>13. CASE Conflict(r)
    <3>1. vault[Account(r)].version > req[r].version
      BY <2>2, <2>3, <2>4, <2>13 DEF Conflict, IInv, Types, TypeOK, Asked, Vaults, Versions
    <3> QED
      BY <2>1, <2>2, <2>13, <3>1, AnswerIInv DEF Conflict
  <2>14. CASE RevokeRead(r)
    BY <2>1, <2>2, <2>14, GotoIInv, AnswerIInv DEF RevokeRead, Working, Steps, Status
  <2>15. CASE RevokeUpdate(r)
    <3>1. devices' \in [Devices -> {"none", "active", "revoked"}]
      BY <2>1, <2>15 DEF RevokeUpdate
    <3> QED
      BY <2>2, <2>15, <3>1, AnswerIInv DEF RevokeUpdate, Status
  <2> QED
    BY <1>7, <2>5, <2>6, <2>7, <2>8, <2>9, <2>10, <2>11, <2>12, <2>13, <2>14, <2>15 DEF Handle
<1>8. CASE Crash
  BY <1>8, QuietIInv
<1>9. CASE UNCHANGED vars
  <2> USE <1>9 DEF vars, dbVars, handlerVars, appVars
  <2>1. TypeOK'
    BY DEF IInv, Types, TypeOK
  <2>2. Unsent' /\ Asked' /\ Handlers' /\ Calls' /\ Answers' /\ \A e \in Emails : vault'[e].version <= sent'
    BY DEF IInv, Types, Unsent, Asked, Handlers, Calls, Answers, Account
  <2>3. Vaults' /\ Accounts'
    BY DEF IInv, Vaults, Versions, CommittedOnce, ReadsWhatWasWritten, ConflictIsReal, Done,
           Account, Accounts, Registering
  <2> QED
    BY <2>1, <2>2, <2>3 DEF IInv, Types
<1> QED
  BY <1>1, <1>3, <1>4, <1>5, <1>6, <1>7, <1>8, <1>9 DEF Next

-----------------------------------------------------------------------------
(* Devices *)

\* A device is there from AddDevice on and never goes away: what a handler has
\* checked is a device, and the copy it carries is of one.
DeviceInv ==
    \A r \in Reqs :
        /\ pc[r] \in {"none", "create", "addDevice"} => devices[r] = "none"
        /\ pc[r] \in {"touch", "update", "work"} => devices[req[r].token.dev] # "none"
        /\ pc[r] = "update" => copy[r] # "none"
        /\ pc[r] = "revoke" => devices[req[r].target] # "none"

\* Only these three actions change a device.
LEMMA DeviceSteps ==
    ASSUME IInv, [Next]_vars, devices' # devices
    PROVE  \E r \in Reqs : AddDevice(r) \/ TouchUpdate(r) \/ RevokeUpdate(r)
BY DEF Next, vars, dbVars, Handle, SyncRegister, SyncLogin, SyncPush, PushExport, SyncPull,
       SyncRevokeDevice, SendWithToken, Send, Return, TimeOut, SaveSession, Crash,
       CreateUser, Login, CheckDevice, TouchRead, Pull, PutVault, Conflict, RevokeRead

\* What these change.
LEMMA DeviceChange ==
    ASSUME IInv, DeviceInv, NEW r \in Reqs, AddDevice(r) \/ TouchUpdate(r) \/ RevokeUpdate(r)
    PROVE  \A d \in Devices : devices'[d] # devices[d] =>
               /\ devices'[d] # "none"
               /\ devices[d] = "revoked" => TouchUpdate(r) /\ d = req[r].token.dev /\ copy[r] = "active"
               /\ devices[d] = "none" => AddDevice(r) /\ d = r
<1>1. devices \in [Devices -> {"none", "active", "revoked"}] /\ copy \in [Reqs -> {"none", "active", "revoked"}]
  BY DEF IInv, Types, TypeOK
<1>2. CASE AddDevice(r)
  BY <1>1, <1>2 DEF AddDevice, DeviceInv, At
<1>3. CASE TouchUpdate(r)
  BY <1>1, <1>3 DEF TouchUpdate, DeviceInv, At
<1>4. CASE RevokeUpdate(r)
  BY <1>1, <1>4 DEF RevokeUpdate, DeviceInv, At
<1> QED
  BY <1>2, <1>3, <1>4

\* Every step keeps the devices.
LEMMA NextDeviceInv == IInv /\ DeviceInv /\ [Next]_vars => DeviceInv'
<1> SUFFICES ASSUME IInv, DeviceInv, [Next]_vars PROVE DeviceInv'
  OBVIOUS
<1>0. /\ devices \in [Devices -> {"none", "active", "revoked"}] /\ pc \in [Reqs -> Steps]
      /\ copy \in [Reqs -> {"none", "active", "revoked"}] /\ DOMAIN req = Reqs /\ sent \in Nat
      /\ Reqs \subseteq Devices
  BY DEF IInv, Types, TypeOK, Devices
<1>1. ASSUME NEW a \in Apps, NEW call, NEW q, NEW step \in {"create", "login", "check"}, Send(a, call, q, step)
      PROVE  DeviceInv'
  <2>1. \A r \in Reqs : \/ pc'[r] = pc[r] /\ req'[r] = req[r]
                        \/ pc[r] = "none" /\ pc'[r] = step
    BY <1>0, <1>1 DEF Send, IInv, Types, Unsent, Reqs
  <2> QED
    BY <1>1, <2>1 DEF Send, DeviceInv, dbVars
<1>2. ASSUME NEW a \in Apps, \/ Return(a) \/ TimeOut(a) \/ \E x \in Items : SaveSession(a, x)
      PROVE  DeviceInv'
  BY <1>2 DEF Return, TimeOut, SaveSession, dbVars, handlerVars, DeviceInv
<1>3. CASE Crash
  BY <1>0, <1>3 DEF Crash, Handling, dbVars, rest, DeviceInv
<1>4. ASSUME NEW r \in Reqs, Handle(r) PROVE DeviceInv'
  <2>1. /\ \A s \in Reqs : s # r => pc'[s] = pc[s] /\ copy'[s] = copy[s]
        /\ req' = req /\ pc'[r] \notin {"none", "create"}
        /\ pc'[r] = "addDevice" => pc[r] = "create" /\ devices' = devices
        /\ pc'[r] = "touch" => devices' = devices /\ devices[req[r].token.dev] = "active"
        /\ pc'[r] = "update" => devices' = devices /\ pc[r] = "touch" /\ copy'[r] = devices[req[r].token.dev]
        /\ pc'[r] = "work" => TouchUpdate(r)
        /\ pc'[r] = "revoke" => devices' = devices /\ devices[req[r].target] # "none"
        /\ devices' = devices \/ AddDevice(r) \/ TouchUpdate(r) \/ RevokeUpdate(r)
    BY <1>0, <1>4 DEF Handle, CreateUser, AddDevice, Login, CheckDevice, TouchRead, TouchUpdate,
           Pull, PutVault, Conflict, RevokeRead, RevokeUpdate, Goto, Answer, At, Working, rest, dbVars
  <2>2. ASSUME NEW d \in Devices, devices'[d] # devices[d]
        PROVE  devices'[d] # "none" /\ (devices[d] = "none" => d = r /\ AddDevice(r))
    BY <2>1, <2>2, DeviceChange
  <2>3. AddDevice(r) => pc'[r] = "answered"
    BY <1>0 DEF AddDevice, Answer
  <2> SUFFICES ASSUME NEW s \in Reqs
               PROVE  /\ pc'[s] \in {"none", "create", "addDevice"} => devices'[s] = "none"
                      /\ pc'[s] \in {"touch", "update", "work"} => devices'[req'[s].token.dev] # "none"
                      /\ pc'[s] = "update" => copy'[s] # "none"
                      /\ pc'[s] = "revoke" => devices'[req'[s].target] # "none"
    BY DEF DeviceInv
  <2>4. /\ pc[s] \in {"touch", "update", "work"} => req[s].token.dev \in Devices
        /\ pc[s] = "revoke" => req[s].target \in Devices
    BY <1>0 DEF IInv, Types, Handlers, Asked, Unsent, WithToken, Reqs
  <2>5. CASE s # r
    <3>1. pc[s] \in {"none", "create", "addDevice"} => devices'[s] = "none"
      BY <1>0, <2>2, <2>5 DEF DeviceInv
    <3> QED
      BY <1>0, <2>1, <2>2, <2>4, <2>5, <3>1 DEF DeviceInv
  <2>6. CASE s = r
    <3>1. pc'[r] = "work" => pc[r] = "update"
      BY <2>1 DEF TouchUpdate, At
    <3> QED
      BY <1>0, <2>1, <2>2, <2>4, <2>6, <3>1 DEF DeviceInv
  <2> QED
    BY <2>5, <2>6
<1>5. CASE UNCHANGED vars
  BY <1>5 DEF vars, dbVars, handlerVars, DeviceInv
<1>6. ASSUME NEW a \in Apps,
             \/ \E e \in Emails : SyncRegister(a, e) \/ SyncLogin(a, e)
             \/ SyncPush(a) \/ PushExport(a) \/ SyncPull(a) \/ SyncRevokeDevice(a)
      PROVE  DeviceInv'
  <2>1. \E call, q : \E step \in {"create", "login", "check"} : Send(a, call, q, step)
    BY <1>6 DEF SyncRegister, SyncLogin, SyncPush, PushExport, SyncPull, SyncRevokeDevice, SendWithToken
  <2> QED
    BY <1>1, <2>1
<1> QED
  BY <1>2, <1>3, <1>4, <1>5, <1>6 DEF Next

\* The whole inductive invariant.
Inductive == IInv /\ DeviceInv

\* It holds in every state of a behaviour.
LEMMA SpecInductive == Spec => []Inductive
<1>1. Init => Inductive
  BY InitIInv DEF Init, Inductive, DeviceInv, Reqs, Devices
<1>2. Inductive /\ [Next]_vars => Inductive'
  BY NextIInv, NextDeviceInv DEF Inductive
<1> QED
  BY <1>1, <1>2, PTL DEF Spec

-----------------------------------------------------------------------------
(* The register of an account *)

\* What concerns an account: its vault, the requests for it and their answers.
Concerns(r, e) == req[r].kind \in {"get", "put"} /\ Account(r) = e

\* A step that leaves the vault and the requests, and answers nobody whom the
\* account concerns, is a stutter of its register.
LEMMA Stutters ==
    ASSUME NEW e, UNCHANGED req, UNCHANGED vault[e],
           \A r \in Reqs : Concerns(r, e) => UNCHANGED answer[r]
    PROVE  UNCHANGED Register(e)!vars
BY DEF Register!vars, Concerns, Account

\* An answer the account concerns is one of its register.
LEMMA AnswersFor ==
    ASSUME IInv, NEW e, NEW r \in Reqs, Concerns(r, e), NEW ans, Answer(r, ans), pc[r] # "answered",
           UNCHANGED req
    PROVE  Register(e)!Answer(r, ans)
<1>1. answer[r] = Pending /\ DOMAIN answer = Reqs /\ answer' = [answer EXCEPT ![r] = ans]
  BY DEF Answer, IInv, Types, TypeOK, Handlers
<1> QED
  BY <1>1 DEF Register!Answer, Register!NoAsk, Register!Pending, Pending, Concerns, Account

\* Sending a request asks the register of its account, and no other.
LEMMA SendImplements ==
    ASSUME IInv, NEW e \in Emails, NEW a, NEW call, NEW q, NEW step, Send(a, call, q, step),
           q.kind \in Kinds,
           q.kind = "put" => /\ q.version \in Nat /\ q.data \in SUBSET Items
                             /\ q.version <= vault[q.token.email].version
    PROVE  [Register(e)!Next]_(Register(e)!vars)
<1> DEFINE n == sent + 1
<1>1. n \in Reqs /\ sent \in Nat /\ DOMAIN req = Reqs
  BY DEF Send, IInv, Types, TypeOK, Reqs
<1>2. req[n] = NoReq /\ answer[n] = Pending
  BY <1>1 DEF IInv, Types, Unsent
<1>3. /\ req' = [req EXCEPT ![n] = q] /\ req'[n] = q /\ \A r \in Reqs : r # n => req'[r] = req[r]
      /\ UNCHANGED <<vault, answer>>
  BY <1>1 DEF Send, dbVars
<1> DEFINE asks(q1) == IF q1.kind \notin {"get", "put"} THEN [kind |-> "none"]
                       ELSE IF q1.token.email # e THEN [kind |-> "none"]
                       ELSE IF q1.kind = "get" THEN [kind |-> "get"]
                       ELSE [kind |-> "put", version |-> q1.version, data |-> q1.data]
           ask == [r \in Reqs |-> asks(req[r])]
           told == [r \in Reqs |-> IF req[r].kind \notin {"get", "put"} THEN Pending
                                   ELSE IF req[r].token.email # e THEN Pending ELSE answer[r]]
<1>4. ask' = [ask EXCEPT ![n] = asks(q)]
  BY <1>1, <1>3
<1>5. told' = told
  <2>1. \A r \in Reqs : told'[r] = told[r]
    BY <1>1, <1>2, <1>3 DEF NoReq
  <2> QED
    BY <2>1
<1>6. ask[n] = [kind |-> "none"]
  BY <1>1, <1>2 DEF NoReq
<1>7. CASE q.kind \in {"get", "put"} /\ q.token.email = e
  <2>1. \/ asks(q) = [kind |-> "get"]
        \/ \E v \in 0..vault[e].version, d \in SUBSET Items :
               asks(q) = [kind |-> "put", version |-> v, data |-> d]
    <3>1. vault[e].version \in Nat
      BY DEF IInv, Types, TypeOK
    <3> QED
      BY <1>7, <3>1
  <2> HIDE DEF asks
  <2>2. \/ ask' = [ask EXCEPT ![n] = [kind |-> "get"]]
        \/ \E v \in 0..vault[e].version, d \in SUBSET Items :
               ask' = [ask EXCEPT ![n] = [kind |-> "put", version |-> v, data |-> d]]
    BY <1>4, <2>1
  <2> USE DEF asks
  <2>3. PICK m \in Reqs : m = n
    BY <1>1
  <2>4. Register(e)!Ask(m)
    BY <1>3, <1>5, <1>6, <2>2, <2>3 DEF Register!Ask, Register!NoAsk, Register!Get, Register!Put, Account
  <2>5. Register(e)!Next
    BY <2>4 DEF Register!Next
  <2> QED
    BY <2>5
<1>8. CASE ~(q.kind \in {"get", "put"} /\ q.token.email = e)
  <2>1. asks(q) = ask[n]
    BY <1>6, <1>8
  <2>2. ask' = ask
    BY <1>1, <1>4, <2>1
  <2> QED
    BY <1>3, <1>5, <2>2 DEF Register!vars, Account
<1> QED
  BY <1>7, <1>8

\* A handler takes a step of the register of the account it is for, or none.
LEMMA HandleImplements ==
    ASSUME IInv, NEW e \in Emails, NEW r \in Reqs, Handle(r)
    PROVE  [Register(e)!Next]_(Register(e)!vars)
<1> USE DEF At, rest, dbVars
<1>1. UNCHANGED req /\ pc[r] # "answered" /\ \A s \in Reqs : s # r => UNCHANGED answer[s]
  BY DEF Handle, CreateUser, AddDevice, Login, CheckDevice, TouchRead, TouchUpdate, Pull, PutVault,
         Conflict, RevokeRead, RevokeUpdate, Goto, Answer, Working, IInv, Types, TypeOK
<1>2. UNCHANGED vault \/ PutVault(r)
  BY DEF Handle, CreateUser, AddDevice, Login, CheckDevice, TouchRead, TouchUpdate, Pull,
         Conflict, RevokeRead, RevokeUpdate
<1>3. r <= sent /\ Account(r) \in Emails
  <2>1. pc[r] # "none"
    BY DEF Handle, CreateUser, AddDevice, Login, CheckDevice, TouchRead, TouchUpdate, Pull, PutVault,
         Conflict, RevokeRead, RevokeUpdate, Working
  <2>2. r <= sent
    BY <2>1 DEF IInv, Types, TypeOK, Unsent, Reqs
  <2> QED
    BY <2>2 DEF IInv, Types, Asked
<1>4. ASSUME ~Concerns(r, e) PROVE UNCHANGED Register(e)!vars
  <2>1. UNCHANGED vault[e]
    BY <1>2, <1>3, <1>4 DEF PutVault, Working, Concerns, IInv, Types, TypeOK
  <2> QED
    BY <1>1, <1>4, <2>1, Stutters
<1>5. ASSUME Concerns(r, e), UNCHANGED vault, UNCHANGED answer PROVE UNCHANGED Register(e)!vars
  BY <1>1, <1>5, Stutters
<1>6. ASSUME Concerns(r, e), UNCHANGED vault, NEW st \in {401, 500}, Answer(r, Status(st))
      PROVE  Register(e)!Next
  <2>1. Register(e)!Answer(r, [status |-> st])
    BY <1>1, <1>6, AnswersFor DEF Status
  <2>2. Register(e)!Fail(r)
    BY <1>6, <2>1 DEF Register!Fail
  <2> QED
    BY <2>2 DEF Register!Next
<1>7. CASE Concerns(r, e)
  <2> DEFINE row == vault[e]
  <2>1. row.version \in Nat /\ Account(r) = e
    BY <1>7 DEF Concerns, IInv, Types, TypeOK
  <2>2. \/ pc[r] \in {"check", "touch", "update", "work"}
        \/ pc[r] = "conflict"
        \/ ~Handle(r)
    BY <1>7 DEF Concerns, Handle, CreateUser, AddDevice, Login, CheckDevice, TouchRead, TouchUpdate,
         Pull, PutVault, Conflict, RevokeRead, RevokeUpdate, Working, IInv, Types, Handlers
  <2>3. CASE CheckDevice(r) \/ TouchRead(r) \/ TouchUpdate(r)
    BY <1>5, <1>6, <1>7, <2>3 DEF CheckDevice, TouchRead, TouchUpdate, Goto
  <2>4. CASE Pull(r)
    <3>1. CASE Answer(r, [status |-> 200, version |-> row.version, data |-> row.data])
      <4> PICK ans : ans = [status |-> 200, version |-> row.version, data |-> row.data]
        OBVIOUS
      <4>1. Register(e)!Answer(r, ans)
        BY <1>1, <1>7, <3>1, AnswersFor
      <4>2. Register(e)!Read(r)
        BY <1>7, <2>4, <4>1 DEF Register!Read, Register!Answer, Register!Get, Pull, Working, Concerns, Account
      <4> QED
        BY <4>2 DEF Register!Next
    <3>2. CASE Answer(r, Status(500))
      BY <1>6, <1>7, <2>4, <3>2 DEF Pull
    <3> QED
      BY <2>1, <2>4, <3>1, <3>2 DEF Pull
  <2>5. CASE PutVault(r)
    <3>1. CASE /\ req[r].version = row.version
               /\ vault' = [vault EXCEPT ![e] = [version |-> row.version + 1, data |-> req[r].data]]
               /\ Answer(r, [status |-> 200, version |-> row.version + 1])
      <4> PICK ans : ans = [status |-> 200, version |-> row.version + 1]
        OBVIOUS
      <4>1. Register(e)!Answer(r, ans)
        BY <1>1, <1>7, <3>1, AnswersFor
      <4>2. vault'[e] = [version |-> row.version + 1, data |-> req[r].data]
        BY <3>1 DEF IInv, Types, TypeOK
      <4>3. Register(e)!Replace(r)
        BY <1>7, <2>5, <3>1, <4>1, <4>2 DEF Register!Replace, Register!Answer, PutVault, Working, Concerns, Account
      <4> QED
        BY <4>3 DEF Register!Next
    <3>2. CASE UNCHANGED vault /\ Goto(r, "conflict")
      BY <1>5, <1>7, <3>2 DEF Goto
    <3>3. CASE UNCHANGED vault /\ Answer(r, Status(500))
      BY <1>6, <1>7, <3>3
    <3> QED
      BY <2>1, <2>5, <3>1, <3>2, <3>3 DEF PutVault
  <2>6. CASE Conflict(r)
    <3>0. PICK v \in {row.version, 0} : Answer(r, [status |-> 409, version |-> v])
      BY <2>1, <2>6 DEF Conflict
    <3> PICK ans : ans = [status |-> 409, version |-> v]
      OBVIOUS
    <3>1. Register(e)!Answer(r, ans)
      BY <1>1, <1>7, <3>0, AnswersFor
    <3>2. req[r].kind = "put" /\ req[r].version < row.version
      BY <2>1, <2>6 DEF Conflict, IInv, Types, Handlers, Vaults, Versions
    <3>3. Register(e)!Conflict(r)
      BY <1>7, <2>6, <3>1, <3>2 DEF Register!Conflict, Register!Answer, Conflict, Concerns, Account
    <3> QED
      BY <3>3 DEF Register!Next
  <2> QED
    BY <1>7, <2>2, <2>3, <2>4, <2>5, <2>6 DEF Handle, CreateUser, AddDevice, Login, RevokeRead,
         RevokeUpdate, Working, Concerns
<1> QED
  BY <1>4, <1>7

\* A step of the system is, for each account, a step of its register or none.
LEMMA NextImplements ==
    ASSUME IInv, [Next]_vars, NEW e \in Emails
    PROVE  [Register(e)!Next]_(Register(e)!vars)
<1>1. ASSUME NEW a \in Apps, NEW f \in Emails, SyncRegister(a, f) \/ SyncLogin(a, f)
      PROVE  [Register(e)!Next]_(Register(e)!vars)
  BY <1>1, SendImplements DEF SyncRegister, SyncLogin, Kinds
<1>2. ASSUME NEW a \in Apps, SyncPush(a) \/ SyncPull(a) \/ SyncRevokeDevice(a)
      PROVE  [Register(e)!Next]_(Register(e)!vars)
  BY <1>2, SendImplements DEF SyncPush, SyncPull, SyncRevokeDevice, SendWithToken, Kinds
<1>3. ASSUME NEW a \in Apps, PushExport(a) PROVE [Register(e)!Next]_(Register(e)!vars)
  <2> DEFINE v == answer[op[a].req].version
             q == [kind |-> "put", token |-> token[a], version |-> v, data |-> local[a]]
  <2>1. /\ Send(a, "push", q, "check") /\ v \in Nat /\ local[a] \in SUBSET Items
        /\ v <= vault[token[a].email].version
    BY <1>3, PushIsOfToken
  <2> HIDE DEF v
  <2> QED
    BY <2>1, SendImplements DEF Kinds
<1>4. ASSUME NEW a \in Apps, Return(a) \/ TimeOut(a) \/ (\E x \in Items : SaveSession(a, x))
      PROVE  UNCHANGED Register(e)!vars
  BY <1>4, Stutters DEF Return, TimeOut, SaveSession, dbVars, handlerVars
<1>5. CASE Crash \/ UNCHANGED vars
  BY <1>5, Stutters DEF Crash, vars, dbVars, handlerVars, rest
<1> QED
  BY <1>1, <1>2, <1>3, <1>4, <1>5, HandleImplements DEF Next

-----------------------------------------------------------------------------
(* Theorems *)

\* Every table, request, answer and application of the sync server keeps its
\* type (handlers.go, store.go, sync.go).
THEOREM SyncTypeCorrect == Spec => []TypeOK
<1>1. Inductive => TypeOK
  BY DEF Inductive, IInv, Types
<1> QED
  BY <1>1, SpecInductive, PTL

\* PutVault: two uploads of an account that were answered 200 never made the
\* same version of its vault.
THEOREM OneUploadPerVersion == Spec => []CommittedOnce
<1>1. Inductive => CommittedOnce
  BY DEF Inductive, IInv, Vaults
<1> QED
  BY <1>1, SpecInductive, PTL

\* handlePull: what a pull returns is the data of the upload that made the
\* version it returns, also while uploads run.
THEOREM PullsAreUploads == Spec => []ReadsWhatWasWritten
<1>1. Inductive => ReadsWhatWasWritten
  BY DEF Inductive, IInv, Vaults
<1> QED
  BY <1>1, SpecInductive, PTL

\* Push: an upload is answered 409 only when the vault has gone on from the
\* version it was based on; the answer names a later one, or 0 when the second
\* read of the vault failed.
THEOREM ConflictsAreReal == Spec => []ConflictIsReal
<1>1. Inductive => ConflictIsReal
  BY DEF Inductive, IInv, Vaults
<1> QED
  BY <1>1, SpecInductive, PTL

\* CreateUser: of all the registrations of an email that ran together one at
\* most was answered 200.
THEOREM AccountsAreUnique == Spec => []RegisteredOnce
<1>1. Inductive => RegisteredOnce
  BY DEF Inductive, IInv, Accounts, Registering, RegisteredOnce, Done
<1> QED
  BY <1>1, SpecInductive, PTL

\* TouchDevice: a revoked device becomes active again only through a request
\* that read its row before the revocation.
THEOREM RevokedStays == Spec => RevocationSticks
<1> DEFINE Sticks == \A d \in Devices : devices[d] = "revoked" /\ Stale(d) = {} => devices'[d] = "revoked"
<1>1. Inductive /\ [Next]_vars => [Sticks]_vars
  <2> SUFFICES ASSUME Inductive, [Next]_vars, NEW d \in Devices, devices[d] = "revoked", Stale(d) = {}
               PROVE  devices'[d] = "revoked"
    OBVIOUS
  <2>1. CASE devices' = devices
    BY <2>1
  <2>2. ASSUME NEW r \in Reqs, AddDevice(r) \/ TouchUpdate(r) \/ RevokeUpdate(r)
        PROVE  devices'[d] = "revoked"
    <3>1. CASE devices'[d] # devices[d]
      <4>1. TouchUpdate(r) /\ d = req[r].token.dev /\ copy[r] = "active"
        BY <2>2, <3>1, DeviceChange DEF Inductive
      <4>2. r \in Stale(d)
        BY <4>1 DEF Stale, TouchUpdate, At
      <4> QED
        BY <4>2
    <3> QED
      BY <3>1
  <2> QED
    BY <2>1, <2>2, DeviceSteps DEF Inductive
<1> QED
  BY <1>1, SpecInductive, PTL DEF Spec, RevocationSticks

\* Handlers, store and applications together implement a register of versions
\* for each account, which is read and replaced in one step.
THEOREM ImplementsRegister == Spec => ImplementsVaultRegister
<1>1. Init => \A e \in Emails : Register(e)!Init
  <2> SUFFICES ASSUME Init, NEW e \in Emails PROVE Register(e)!Init
    OBVIOUS
  <2>1. vault[e] \in [version : Nat, data : SUBSET Items]
    BY DEF Init
  <2> QED
    BY <2>1 DEF Register!Init, Register!NoAsk, Register!Pending, Init, NoReq, Pending
<1>2. Inductive /\ [Next]_vars => [\A e \in Emails : [Register(e)!Next]_(Register(e)!vars)]_vars
  BY NextImplements DEF Inductive
<1> QED
  BY <1>1, <1>2, SpecInductive, PTL DEF Spec, ImplementsVaultRegister
=============================================================================
