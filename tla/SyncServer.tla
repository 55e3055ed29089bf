----------------------------- MODULE SyncServer -----------------------------
(***************************************************************************)
(* Cloud synchronisation: the HTTP server (server/cmd/server/main.go), its   *)
(* database (server/internal/store, one bbolt transaction for each call) and *)
(* the client in the application (app.go, SyncRegister to SyncRevokeDevice). *)
(*                                                                          *)
(* A request is handled by a goroutine of its own, step by step between      *)
(* database transactions.  The client waits for the answer at most 30 s; the *)
(* handler of a request it gave up goes on.  The server may crash: handlers  *)
(* are lost, the database stays.                                             *)
(***************************************************************************)
EXTENDS Naturals, FiniteSets

CONSTANTS
    Apps,                   \* running applications
    Emails,                 \* accounts
    Items,                  \* sessions that users may save in an application
    MaxReqs,                \* bound: requests sent
    MaxGivenUp,             \* bound: handlers whose client has given up
    MaxLost,                \* bound: no more crashes once so many handlers are lost
    None                    \* no device, no token

ASSUME SyncAssumption == /\ MaxReqs \in Nat /\ MaxGivenUp \in Nat /\ MaxLost \in Nat
                         /\ Emails \cap (1..MaxReqs) = {}
                         /\ None \notin Emails \cup (1..MaxReqs)

Reqs == 1..MaxReqs
\* newDeviceID is random: a device is known by the request that registered it,
\* or by its account if that was before.
Devices == Reqs \cup Emails
Tokens == [email : Emails, dev : Devices]

VARIABLES
    users, devices, vault,  \* the database
    sent, req,              \* requests sent; what each one asks
    pc, copy,               \* handler of each: next step, TouchDevice's copy of the status
    answer,                 \* the answer of each
    op,                     \* applications: the call in progress and its current request
    token, local            \* the token they hold, the sessions they have saved

dbVars == <<users, devices, vault>>
handlerVars == <<pc, copy, answer>>
appVars == <<op, token, local>>
vars == <<dbVars, sent, req, handlerVars, appVars>>

NoReq == [kind |-> "none"]
Pending == [status |-> 0]
Idle == [call |-> "idle", req |-> 0]

Kinds == {"register", "login", "get", "put", "revoke"}
Steps == {"none", "create", "addDevice", "login", "check", "touch", "update", "work",
          "conflict", "revoke", "answered", "lost"}

TypeOK ==
    /\ users \subseteq Emails
    /\ devices \in [Devices -> {"none", "active", "revoked"}]
    /\ vault \in [Emails -> [version : 0..MaxReqs, data : SUBSET Items]]
    /\ sent \in 0..MaxReqs
    /\ DOMAIN req = Reqs /\ \A r \in Reqs : req[r].kind \in Kinds \cup {"none"}
    /\ pc \in [Reqs -> Steps] /\ copy \in [Reqs -> {"none", "active", "revoked"}]
    /\ DOMAIN answer = Reqs
    /\ \A r \in Reqs : answer[r].status \in {0, 200, 204, 401, 404, 409, 500}
    /\ op \in [Apps -> [call : {"idle", "register", "login", "version", "push", "pull", "revoke"},
                        req : 0..MaxReqs]]
    /\ token \in [Apps -> Tokens \cup {None}]
    /\ local \in [Apps -> SUBSET Items]

\* The service is new, or an account exists and applications may be logged in.
Init ==
    /\ users \in {{}, Emails}
    /\ devices = [d \in Devices |-> IF d \in users THEN "active" ELSE "none"]
    /\ vault = [e \in Emails |-> [version |-> 0, data |-> {}]]
    /\ sent = 0 /\ req = [r \in Reqs |-> NoReq]
    /\ pc = [r \in Reqs |-> "none"] /\ copy = [r \in Reqs |-> "none"]
    /\ answer = [r \in Reqs |-> Pending]
    /\ op = [a \in Apps |-> Idle]
    /\ token \in [Apps -> {[email |-> e, dev |-> e] : e \in users} \cup {None}]
    /\ local = [a \in Apps |-> {}]

Account(r) == req[r].token.email
Owner(d) == IF d \in Emails THEN d ELSE Account(d)

-----------------------------------------------------------------------------
(* The application *)

\* Application a sends request q as part of a call.
Send(a, call, q, step) ==
    /\ sent < MaxReqs
    /\ sent' = sent + 1
    /\ req' = [req EXCEPT ![sent + 1] = q]
    /\ pc' = [pc EXCEPT ![sent + 1] = step]
    /\ op' = [op EXCEPT ![a] = [call |-> call, req |-> sent + 1]]
    /\ UNCHANGED <<dbVars, copy, answer, token, local>>

\* Registering and logging in need no token: they only name the account.
NoDevice(e) == [email |-> e, dev |-> None]

SyncRegister(a, e) ==
    op[a] = Idle /\ Send(a, "register", [kind |-> "register", token |-> NoDevice(e)], "create")

SyncLogin(a, e) ==
    op[a] = Idle /\ Send(a, "login", [kind |-> "login", token |-> NoDevice(e)], "login")

\* Calls with a token go through authRequired.
SendWithToken(a, call, q) == token[a] # None /\ Send(a, call, q, "check")

\* SyncPush first asks for the current version ...
SyncPush(a) == /\ op[a] = Idle
               /\ SendWithToken(a, "version", [kind |-> "get", token |-> token[a]])

Answered(a, call) == op[a].call = call /\ pc[op[a].req] = "answered"

\* ... and then sends what VaultExport finds, as the successor of that version.
PushExport(a) ==
    /\ Answered(a, "version") /\ answer[op[a].req].status = 200
    /\ SendWithToken(a, "push", [kind |-> "put", token |-> token[a],
                                 version |-> answer[op[a].req].version, data |-> local[a]])

SyncPull(a) ==
    op[a] = Idle /\ SendWithToken(a, "pull", [kind |-> "get", token |-> token[a]])

\* The identifiers come from a list of the account's devices.
SyncRevokeDevice(a) ==
    /\ op[a] = Idle /\ token[a] # None
    /\ \E d \in Devices :
         /\ devices[d] # "none" /\ Owner(d) = token[a].email
         /\ SendWithToken(a, "revoke", [kind |-> "revoke", token |-> token[a], target |-> d])

\* A call that got its last answer returns: register and login keep the token,
\* pull imports the sessions into the store and keeps those it has besides.
Return(a) ==
    /\ op[a] # Idle /\ pc[op[a].req] = "answered"
    /\ LET ans == answer[op[a].req]
           ok == ans.status = 200
       IN  /\ op[a].call # "version" \/ ~ok
           /\ token' = [token EXCEPT ![a] = IF ok /\ op[a].call \in {"register", "login"}
                                            THEN ans.token ELSE @]
           /\ local' = [local EXCEPT ![a] = IF ok /\ op[a].call = "pull"
                                            THEN @ \cup ans.data ELSE @]
    /\ op' = [op EXCEPT ![a] = Idle]
    /\ UNCHANGED <<dbVars, sent, req, handlerVars>>

Handling == {r \in Reqs : pc[r] \notin {"none", "answered", "lost"}}
GivenUp == Handling \ {op[a].req : a \in Apps}

\* No answer in 30 s, or it was lost, or the server is down: the call fails.
\* The handler goes on.
TimeOut(a) ==
    /\ op[a] # Idle
    /\ op[a].req \in Handling => Cardinality(GivenUp) < MaxGivenUp
    /\ op' = [op EXCEPT ![a] = Idle]
    /\ UNCHANGED <<dbVars, sent, req, handlerVars, token, local>>

\* The user saves a session, with a new random id, in one application.
SaveSession(a, x) ==
    /\ \A b \in Apps : x \notin local[b]
    /\ local' = [local EXCEPT ![a] = @ \cup {x}]
    /\ UNCHANGED <<dbVars, sent, req, handlerVars, op, token>>

-----------------------------------------------------------------------------
(* The server: one step for each database transaction of a handler *)

At(r, step) == pc[r] = step
Goto(r, step) == pc' = [pc EXCEPT ![r] = step] /\ UNCHANGED answer
Answer(r, a) == /\ pc' = [pc EXCEPT ![r] = "answered"]
                /\ answer' = [answer EXCEPT ![r] = a]
Status(s) == [status |-> s]
TokenFor(r, d) == [status |-> 200, token |-> [email |-> Account(r), dev |-> d]]

rest == <<sent, req, appVars>>

\* Mutant: the check and the insertion of CreateUser are not one transaction.
CreateUserTwice(r) ==
    /\ At(r, "create")
    /\ users' = users \cup {Account(r)} /\ Goto(r, "addDevice")
    /\ UNCHANGED <<devices, vault, copy, rest>>

\* handleRegister: the user ...
CreateUser(r) ==
    /\ At(r, "create")
    /\ IF Account(r) \in users
       THEN Answer(r, Status(409)) /\ UNCHANGED users
       ELSE \/ users' = users \cup {Account(r)} /\ Goto(r, "addDevice")
            \/ Answer(r, Status(500)) /\ UNCHANGED users
    /\ UNCHANGED <<devices, vault, copy, rest>>

\* ... then the main device; an error of the database is ignored.
AddDevice(r) ==
    /\ At(r, "addDevice")
    /\ devices' \in {[devices EXCEPT ![r] = "active"], devices}
    /\ Answer(r, TokenFor(r, r))
    /\ UNCHANGED <<users, vault, copy, rest>>

\* Mutant: handleLogin does not look whether it found a device.
LoginAnyway(r) ==
    /\ At(r, "login")
    /\ LET active == {d \in Devices : devices[d] = "active" /\ Owner(d) = Account(r)}
       IN  IF Account(r) \in users
           THEN \E d \in IF active = {} THEN {None} ELSE active : Answer(r, TokenFor(r, d))
           ELSE Answer(r, Status(401))
    /\ UNCHANGED <<dbVars, copy, rest>>

\* handleLogin with the right password: a token for the first active device.
Login(r) ==
    /\ At(r, "login")
    /\ LET active == {d \in Devices : devices[d] = "active" /\ Owner(d) = Account(r)}
       IN  IF Account(r) \in users /\ active # {}
           THEN \E d \in active : Answer(r, TokenFor(r, d))
           ELSE Answer(r, Status(401))
    /\ UNCHANGED <<dbVars, copy, rest>>

\* authRequired: the token must not have expired, its device must be active.
CheckDevice(r) ==
    /\ At(r, "check")
    /\ \/ devices[req[r].token.dev] = "active" /\ Goto(r, "touch")
       \/ Answer(r, Status(401))
    /\ UNCHANGED <<dbVars, copy, rest>>

\* TouchDevice reads the device ...
TouchRead(r) ==
    /\ At(r, "touch")
    /\ copy' = [copy EXCEPT ![r] = devices[req[r].token.dev]]
    /\ Goto(r, "update")
    /\ UNCHANGED <<dbVars, rest>>

\* Mutant: a request marks its device active.
TouchActivates(r) ==
    /\ At(r, "update")
    /\ devices' \in {[devices EXCEPT ![req[r].token.dev] = "active"], devices}
    /\ Goto(r, "work")
    /\ UNCHANGED <<users, vault, copy, rest>>

\* ... and writes the whole record back in a second transaction; an error is
\* ignored.
TouchUpdate(r) ==
    /\ At(r, "update")
    /\ devices' \in {[devices EXCEPT ![req[r].token.dev] = copy[r]], devices}
    /\ Goto(r, "work")
    /\ UNCHANGED <<users, vault, copy, rest>>

Working(r, kind) == At(r, "work") /\ req[r].kind = kind

\* Mutant: the data come from a cache that uploads do not refresh.
PullCached(r) ==
    /\ Working(r, "get")
    /\ \E d \in {vault[Account(r)].data} \cup
               {answer[s].data : s \in {q \in Reqs : req[q].kind = "get" /\ answer[q].status = 200}} :
         Answer(r, [status |-> 200, version |-> vault[Account(r)].version, data |-> d])
    /\ UNCHANGED <<dbVars, copy, rest>>

Pull(r) ==
    /\ Working(r, "get")
    /\ \/ LET row == vault[Account(r)]
          IN  Answer(r, [status |-> 200, version |-> row.version, data |-> row.data])
       \/ Answer(r, Status(500))
    /\ UNCHANGED <<dbVars, copy, rest>>

\* Mutant: the version check is not made.
PutVaultUnchecked(r) ==
    /\ Working(r, "put")
    /\ LET v == req[r].version + 1
       IN  /\ vault' = [vault EXCEPT ![Account(r)] = [version |-> v, data |-> req[r].data]]
           /\ Answer(r, [status |-> 200, version |-> v])
    /\ UNCHANGED <<users, devices, copy, rest>>

\* Mutant: a successful upload answers the version that it replaced.
PutVaultAnswersOld(r) ==
    /\ Working(r, "put")
    /\ LET e == Account(r)
           v == vault[e].version
       IN  IF req[r].version = v
           THEN /\ vault' = [vault EXCEPT ![e] = [version |-> v + 1, data |-> req[r].data]]
                /\ Answer(r, [status |-> 200, version |-> v])
           ELSE UNCHANGED vault /\ Goto(r, "conflict")
    /\ UNCHANGED <<users, devices, copy, rest>>

\* Mutant: the version an upload has to name is that of the row to come.
PutVaultNext(r) ==
    /\ Working(r, "put")
    /\ LET e == Account(r)
           v == vault[e].version + 1
       IN  \/ /\ req[r].version = v
              /\ vault' = [vault EXCEPT ![e] = [version |-> v, data |-> req[r].data]]
              /\ Answer(r, [status |-> 200, version |-> v])
           \/ /\ req[r].version # v
              /\ UNCHANGED vault /\ Goto(r, "conflict")
           \/ UNCHANGED vault /\ Answer(r, Status(500))
    /\ UNCHANGED <<users, devices, copy, rest>>

\* PutVault: compare the version and write, in one transaction.
PutVault(r) ==
    /\ Working(r, "put")
    /\ LET e == Account(r)
           v == vault[e].version + 1
       IN  \/ /\ req[r].version = vault[e].version
              /\ vault' = [vault EXCEPT ![e] = [version |-> v, data |-> req[r].data]]
              /\ Answer(r, [status |-> 200, version |-> v])
           \/ /\ req[r].version # vault[e].version
              /\ UNCHANGED vault /\ Goto(r, "conflict")
           \/ UNCHANGED vault /\ Answer(r, Status(500))
    /\ UNCHANGED <<users, devices, copy, rest>>

\* Push on a conflict: the version of now, read in another transaction.  An
\* error of that one is ignored, and the answer then names version 0.
Conflict(r) ==
    /\ At(r, "conflict")
    /\ \E v \in {vault[Account(r)].version, 0} : Answer(r, [status |-> 409, version |-> v])
    /\ UNCHANGED <<dbVars, copy, rest>>

\* handleDeviceRevoke reads the device, which must be the user's ...
RevokeRead(r) ==
    /\ Working(r, "revoke")
    /\ IF devices[req[r].target] # "none" /\ Owner(req[r].target) = Account(r)
       THEN Goto(r, "revoke") ELSE Answer(r, Status(404))
    /\ UNCHANGED <<dbVars, copy, rest>>

\* ... and writes it back as revoked; an error is ignored.
RevokeUpdate(r) ==
    /\ At(r, "revoke")
    /\ devices' \in {[devices EXCEPT ![req[r].target] = "revoked"], devices}
    /\ Answer(r, Status(204))
    /\ UNCHANGED <<users, vault, copy, rest>>

Handle(r) == \/ CreateUser(r) \/ AddDevice(r) \/ Login(r) \/ CheckDevice(r) \/ TouchRead(r)
             \/ TouchUpdate(r) \/ Pull(r) \/ PutVault(r) \/ Conflict(r)
             \/ RevokeRead(r) \/ RevokeUpdate(r)

\* The process dies and is started again: what a transaction wrote stays.
Crash ==
    /\ Handling # {} /\ Cardinality({r \in Reqs : pc[r] = "lost"}) < MaxLost
    /\ pc' = [r \in Reqs |-> IF r \in Handling THEN "lost" ELSE pc[r]]
    /\ UNCHANGED <<dbVars, copy, answer, rest>>

Next == \/ \E a \in Apps : \/ \E e \in Emails : SyncRegister(a, e) \/ SyncLogin(a, e)
                           \/ SyncPush(a) \/ PushExport(a) \/ SyncPull(a)
                           \/ SyncRevokeDevice(a)
                           \/ Return(a) \/ TimeOut(a)
                           \/ \E x \in Items : SaveSession(a, x)
        \/ \E r \in Reqs : Handle(r)
        \/ Crash

Spec == Init /\ [][Next]_vars

-----------------------------------------------------------------------------
(* Properties *)

Done(kind) == {r \in Reqs : req[r].kind = kind /\ answer[r].status = 200}

\* Two uploads of an account never both make the same version: one of two
\* devices that push on the same version is refused.
CommittedOnce ==
    \A r, s \in Done("put") :
        Account(r) = Account(s) /\ answer[r].version = answer[s].version => r = s

\* Who reads a version gets what was uploaded as that version.
ReadsWhatWasWritten ==
    \A r \in Done("get"), s \in Done("put") :
        Account(r) = Account(s) /\ answer[r].version = answer[s].version
            => answer[r].data = req[s].data

\* An upload is refused for its version only when the vault has gone on, also
\* when that was by an earlier try of the same upload whose answer was given up.
\* The answer names a later version, to merge with, or 0 if it could not be read.
ConflictIsReal ==
    \A r \in Reqs : answer[r].status = 409 /\ req[r].kind = "put" =>
        /\ req[r].version < vault[Account(r)].version
        /\ answer[r].version > req[r].version \/ answer[r].version = 0

\* An account is registered at most once, however often it is tried.
RegisteredOnce == \A r, s \in Done("register") : Account(r) = Account(s) => r = s

\* The requests that are about to write back the device they saw as active.
Stale(d) == {r \in Reqs : pc[r] = "update" /\ req[r].token.dev = d /\ copy[r] = "active"}

\* A revoked device stays revoked as long as no request of it is between the
\* two transactions of TouchDevice.
RevocationSticks ==
    [][\A d \in Devices : devices[d] = "revoked" /\ Stale(d) = {} => devices'[d] = "revoked"]_vars

\* The vault of each account is the register of VaultRegister, for every
\* interleaving of handlers, timeouts and crashes.
Register(e) == INSTANCE VaultRegister
    WITH Requests <- Reqs, Data <- SUBSET Items,
         row <- vault[e],
         ask <- [r \in Reqs |->
                   IF req[r].kind \notin {"get", "put"} THEN [kind |-> "none"]
                   ELSE IF Account(r) # e THEN [kind |-> "none"]
                   ELSE IF req[r].kind = "get" THEN [kind |-> "get"]
                   ELSE [kind |-> "put", version |-> req[r].version, data |-> req[r].data]],
         answer <- [r \in Reqs |->
                      IF req[r].kind \notin {"get", "put"} THEN Pending
                      ELSE IF Account(r) # e THEN Pending ELSE answer[r]]
ImplementsVaultRegister ==
    /\ \A e \in Emails : Register(e)!Init
    /\ [][\A e \in Emails : [Register(e)!Next]_(Register(e)!vars)]_vars

-----------------------------------------------------------------------------
(* What the documents of the code say and the code does not do. *)

\* docs/05 3.2: a device goes from active to revoked, and its token is then
\* refused at once.
RevokedForEver ==
    [][\A d \in Devices : devices[d] = "revoked" => devices'[d] = "revoked"]_vars

\* docs/05 4: of several devices that change the vault at once, the later one
\* is refused: no upload drops sessions that were uploaded (none is deleted).
NoSilentOverwrite ==
    [][\A e \in Emails : vault[e].data \subseteq vault'[e].data]_vars
=============================================================================
