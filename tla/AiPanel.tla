------------------------------ MODULE AiPanel -------------------------------
(***************************************************************************)
(* Questions to the AI: the panel of each session (AiPanel.tsx), the        *)
(* explanation a terminal asks for (askExplain in TerminalView.tsx), and    *)
(* the back end they share, app.go AiChat, AiExplain and AiCancel.          *)
(*                                                                          *)
(* There is one request at a time for the whole application: a new one      *)
(* cancels the last.  The events of a chat name no session, so every panel  *)
(* takes them all; those of an explanation do.                              *)
(***************************************************************************)
EXTENDS Naturals, FiniteSets, SequencesExt

CONSTANTS
    Panels, Terminals,      \* who asks; one of each for a session
    MaxReqs, MaxDeltas      \* bounds: requests, pieces of an answer

Views == Panels \cup Terminals
Reqs == 1..MaxReqs
NoReq == 0

VARIABLES
    \* back end
    asker,                  \* the view of each request, or NoReq
    stage,                  \* "free", "called", "streaming", "cancelled", "over"
    produced,               \* pieces emitted
    aiCancel,               \* the request it would cancel
    cancels,                \* calls of AiCancel under way
    events,                 \* emitted and not delivered: <<request, piece>>, piece 0 is its end
    \* front end
    busy,                   \* busy of a panel, explaining of a terminal
    stream,                 \* streamRef of a panel
    answer,                 \* the text shown for the last answer: pieces <<request, n>>
    mine,                   \* observation: the request the view shows
    crossed                 \* observation: an event of another one came meanwhile

backEnd == <<asker, stage, produced, aiCancel, cancels>>
view == <<busy, stream, answer, mine, crossed>>
vars == <<backEnd, events, view>>

Pieces == Reqs \X (1..MaxDeltas)

TypeOK ==
    /\ asker \in [Reqs -> Views \cup {NoReq}]
    /\ stage \in [Reqs -> {"free", "called", "streaming", "cancelled", "over"}]
    /\ produced \in [Reqs -> 0..MaxDeltas]
    /\ aiCancel \in Reqs \cup {NoReq} /\ cancels \subseteq Panels
    /\ events \in Seq(Reqs \X (0..MaxDeltas))
    /\ busy \in [Views -> BOOLEAN] /\ crossed \in [Views -> BOOLEAN]
    /\ mine \in [Views -> Reqs \cup {NoReq}]
    /\ stream \in [Views -> Seq(Pieces)] /\ answer \in [Views -> Seq(Pieces)]

Init ==
    /\ asker = [r \in Reqs |-> NoReq] /\ stage = [r \in Reqs |-> "free"]
    /\ produced = [r \in Reqs |-> 0] /\ aiCancel = NoReq /\ cancels = {} /\ events = <<>>
    /\ busy = [v \in Views |-> FALSE] /\ crossed = [v \in Views |-> FALSE]
    /\ stream = [v \in Views |-> <<>>] /\ answer = [v \in Views |-> <<>>]
    /\ mine = [v \in Views |-> NoReq]

-----------------------------------------------------------------------------
(* The user *)

\* "send" of a panel, which becomes "stop" while it is busy.
SendButton(p) == p \in Panels /\ ~busy[p]

\* The button of the hint that an error was seen.
ExplainButton(v) == v \in Terminals /\ ~busy[v]

\* send of a panel and askExplain of a terminal.
Ask(v, r) ==
    /\ SendButton(v) \/ ExplainButton(v)
    /\ stage[r] = "free" /\ \A q \in 1..(r - 1) : stage[q] # "free"
    /\ asker' = [asker EXCEPT ![r] = v]
    /\ stage' = [stage EXCEPT ![r] = "called"]
    /\ busy' = [busy EXCEPT ![v] = TRUE]
    /\ stream' = [stream EXCEPT ![v] = <<>>]
    /\ answer' = [answer EXCEPT ![v] = <<>>]
    /\ mine' = [mine EXCEPT ![v] = r] /\ crossed' = [crossed EXCEPT ![v] = FALSE]
    /\ UNCHANGED <<produced, aiCancel, cancels, events>>

\* The panel is free at once; AiCancel is not waited for.
Stop(p) ==
    /\ busy[p]
    /\ busy' = [busy EXCEPT ![p] = FALSE]
    /\ cancels' = cancels \cup {p}
    /\ UNCHANGED <<asker, stage, produced, aiCancel, events, stream, answer, mine, crossed>>

\* newSession stops what runs and clears the conversation.
NewSession(p) ==
    /\ mine[p] # NoReq
    /\ busy' = [busy EXCEPT ![p] = FALSE]
    /\ cancels' = IF busy[p] THEN cancels \cup {p} ELSE cancels
    /\ stream' = [stream EXCEPT ![p] = <<>>] /\ answer' = [answer EXCEPT ![p] = <<>>]
    /\ mine' = [mine EXCEPT ![p] = NoReq]
    /\ UNCHANGED <<asker, stage, produced, aiCancel, events, crossed>>

-----------------------------------------------------------------------------
(* The back end *)

Cancelled(st, r) == IF r # NoReq /\ st[r] = "streaming" THEN [st EXCEPT ![r] = "cancelled"] ELSE st

\* The checks of the limit, the key and the provider pass: the last request is
\* cancelled and this one starts.
Start(r) ==
    /\ stage[r] = "called"
    /\ stage' = [Cancelled(stage, aiCancel) EXCEPT ![r] = "streaming"]
    /\ aiCancel' = r
    /\ UNCHANGED <<asker, produced, cancels, events, view>>

\* A check fails and the promise is rejected.
Refuse(r) ==
    /\ stage[r] = "called"
    /\ stage' = [stage EXCEPT ![r] = "over"]
    /\ busy' = [busy EXCEPT ![asker[r]] = FALSE]
    /\ UNCHANGED <<asker, produced, aiCancel, cancels, events, stream, answer, mine, crossed>>

Produce(r) ==
    /\ stage[r] = "streaming" /\ produced[r] < MaxDeltas
    /\ produced' = [produced EXCEPT ![r] = @ + 1]
    /\ events' = Append(events, <<r, produced[r] + 1>>)
    /\ UNCHANGED <<asker, stage, aiCancel, cancels, view>>

\* Done, an error, or "interrupted": the events differ only in their text.
End(r) ==
    /\ stage[r] \in {"streaming", "cancelled"}
    /\ stage' = [stage EXCEPT ![r] = "over"]
    /\ events' = Append(events, <<r, 0>>)
    /\ UNCHANGED <<asker, produced, aiCancel, cancels, view>>

AiCancel(p) ==
    /\ p \in cancels
    /\ cancels' = cancels \ {p}
    /\ stage' = Cancelled(stage, aiCancel)
    /\ aiCancel' = NoReq
    /\ UNCHANGED <<asker, produced, events, view>>

-----------------------------------------------------------------------------
(* Events *)

\* Listeners of request r: all panels for a chat, the terminal for an explanation.
Listeners(r) == IF asker[r] \in Panels THEN Panels ELSE {asker[r]}

Crossed(r) == [v \in Views |-> crossed[v] \/ (v \in Listeners(r) /\ mine[v] \notin {NoReq, r})]

\* ai-delta, ai-explain-delta.
OnDelta ==
    /\ events # <<>> /\ Head(events)[2] # 0
    /\ LET r == Head(events)[1]
           More(text) == [v \in Views |-> IF v \in Listeners(r) THEN Append(text[v], Head(events))
                                         ELSE text[v]]
       IN  stream' = More(stream) /\ answer' = More(answer) /\ crossed' = Crossed(r)
    /\ events' = Tail(events)
    /\ UNCHANGED <<backEnd, busy, mine>>

\* ai-done, ai-error and their ai-explain counterparts.  A terminal appends to
\* the text it shows, a panel to streamRef, which the end of any chat resets.
OnEnd ==
    /\ events # <<>> /\ Head(events)[2] = 0
    /\ LET r == Head(events)[1]
       IN  /\ busy' = [v \in Views |-> busy[v] /\ v \notin Listeners(r)]
           /\ stream' = [v \in Views |-> IF v \in Listeners(r) \cap Panels THEN <<>> ELSE stream[v]]
           /\ crossed' = Crossed(r)
    /\ events' = Tail(events)
    /\ UNCHANGED <<backEnd, answer, mine>>

Next ==
    \/ \E v \in Views, r \in Reqs : Ask(v, r)
    \/ \E p \in Panels : Stop(p) \/ NewSession(p) \/ AiCancel(p)
    \/ \E r \in Reqs : Start(r) \/ Refuse(r) \/ Produce(r) \/ End(r)
    \/ OnDelta \/ OnEnd

-----------------------------------------------------------------------------

\* The pieces of r on their way.
Coming(r) == {n \in 1..MaxDeltas : <<r, n>> \in Range(events)}

\* The answer on display is the answer to the view's own question, from its
\* first piece to the last that came, as long as no event of another request
\* came meanwhile: two panels, or a stop and a new question, mix answers; an
\* explanation in a terminal is never mixed.
AnswersAreWhole ==
    \A v \in Views :
        /\ v \in Terminals => ~crossed[v]
        /\ mine[v] # NoReq /\ ~crossed[v] =>
             /\ \A i \in DOMAIN answer[v] : answer[v][i] = <<mine[v], i>>
             /\ Coming(mine[v]) = (Len(answer[v]) + 1)..produced[mine[v]]
=============================================================================
