--------------------------- MODULE VaultRegister ---------------------------
(***************************************************************************)
(* What the sync service promises about the vault of one account: a row with *)
(* a version, which requests read, and replace if they name the version they *)
(* replace.  Each request takes effect at one moment between its being asked *)
(* and its being answered.                                                   *)
(***************************************************************************)
EXTENDS Naturals

CONSTANTS Requests, Data

VARIABLES
    row,                \* the vault: its version and the data of that version
    ask,                \* what each request asks: nothing yet, "get" or "put"
    answer              \* the answer it got: HTTP status, version, data

vars == <<row, ask, answer>>

NoAsk == [kind |-> "none"]
Get == [kind |-> "get"]
Put(v, d) == [kind |-> "put", version |-> v, data |-> d]
Pending == [status |-> 0]

Init == /\ row \in [version : Nat, data : Data]
        /\ ask = [r \in Requests |-> NoAsk]
        /\ answer = [r \in Requests |-> Pending]

Ask(r) ==
    /\ ask[r] = NoAsk
    /\ \/ ask' = [ask EXCEPT ![r] = Get]
       \/ \E v \in 0..row.version, d \in Data : ask' = [ask EXCEPT ![r] = Put(v, d)]
    /\ UNCHANGED <<row, answer>>

Answer(r, a) == /\ ask[r] # NoAsk /\ answer[r] = Pending
                /\ answer' = [answer EXCEPT ![r] = a]
                /\ UNCHANGED ask

Read(r) ==
    /\ ask[r] = Get
    /\ Answer(r, [status |-> 200, version |-> row.version, data |-> row.data])
    /\ UNCHANGED row

Replace(r) ==
    /\ ask[r].kind = "put" /\ ask[r].version = row.version
    /\ row' = [version |-> row.version + 1, data |-> ask[r].data]
    /\ Answer(r, [status |-> 200, version |-> row.version + 1])

\* Refused because the row has moved on; the answer names its version, or 0 if
\* it could not be read.  A request that repeats one whose answer was lost is a
\* request like any other: it is refused if the first has replaced the row.
Conflict(r) ==
    /\ ask[r].kind = "put" /\ ask[r].version < row.version
    /\ \E v \in {row.version, 0} : Answer(r, [status |-> 409, version |-> v])
    /\ UNCHANGED row

\* Refused (401) or failed (500): no effect.
Fail(r) ==
    /\ \E s \in {401, 500} : Answer(r, [status |-> s])
    /\ UNCHANGED row

Next == \E r \in Requests : Ask(r) \/ Read(r) \/ Replace(r) \/ Conflict(r) \/ Fail(r)

Spec == Init /\ [][Next]_vars
=============================================================================
