------------------------------- MODULE VncPanel -------------------------------
(***************************************************************************)
(* The remote desktop of a session's work space, VncPanel.tsx, with app.go  *)
(* VncConnect and VncClose.  Frames are events with the id of the desktop;  *)
(* the panel draws those of the one it is connected to.  It is not told     *)
(* when a desktop ends.                                                     *)
(***************************************************************************)
EXTENDS Naturals, FiniteSets, SequencesExt

CONSTANTS
    MaxDesks,               \* bound: desktops connected one after the other
    MaxFrames,              \* bound: frames on their way
    Flights                 \* bound: pointer calls that newer ones have followed, on their way

Desks == 1..MaxDesks
NoDesk == 0
Buttons == {"left", "right"}

\* The masks of pointer calls: 1 is left, 4 right, and 8 a button the mouse has not.
Masks == (SUBSET Buttons) \cup {{"wheel"}}
PointerCalls == [desk : Desks \cup {NoDesk}, buttons : Masks]
NoCall == [desk |-> NoDesk, buttons |-> {}]

VARIABLES
    desk,                   \* of each desktop: "none", "up", "gone"
    frames,                 \* vnc-frame events on their way: desktops
    replies,                \* answers of VncConnect on their way: a desktop, or NoDesk
    placed,                 \* the panel is mounted
    shownDesk,              \* sessionIdRef
    linked, linking,        \* connected, connecting
    canvas,                 \* whose frame is drawn, or NoDesk
    mask,                   \* buttonsRef
    newest,                 \* the last call of VncPointerEvent, until it is carried out
    older,                  \* those before it that are still on their way
    server,                 \* of each desktop: the buttons it was told last
    held, missed,           \* observation: buttons held; one was let go elsewhere
    overtaken               \* observation: the desktop shown was told of an older call last

calls == <<newest, older>>
hand == <<mask, held, missed>>
mouse == <<hand, calls, server, overtaken>>
vars == <<desk, frames, replies, placed, shownDesk, linked, linking, canvas, mouse>>

TypeOK ==
    /\ desk \in [Desks -> {"none", "up", "gone"}] /\ Range(frames) \subseteq Desks
    /\ replies \subseteq Desks \cup {NoDesk} /\ placed \in BOOLEAN
    /\ shownDesk \in Desks \cup {NoDesk} /\ canvas \in Desks \cup {NoDesk}
    /\ linked \in BOOLEAN /\ linking \in BOOLEAN /\ missed \in BOOLEAN
    /\ mask \subseteq Buttons /\ held \subseteq Buttons /\ server \in [Desks -> Masks]
    /\ newest \in PointerCalls /\ older \in [Flights -> PointerCalls]
    /\ overtaken \in BOOLEAN

Init ==
    /\ desk = [d \in Desks |-> "none"] /\ frames = <<>> /\ replies = {}
    /\ placed = TRUE /\ shownDesk = NoDesk /\ linked = FALSE /\ linking = FALSE /\ canvas = NoDesk
    /\ mask = {} /\ held = {} /\ missed = FALSE /\ overtaken = FALSE
    /\ newest = NoCall /\ older = [w \in Flights |-> NoCall]
    /\ server = [d \in Desks |-> {}]

-----------------------------------------------------------------------------
(* Connections *)

\* connect: the button is off while it connects, and gone when it has.
Connect ==
    /\ placed /\ ~linked /\ ~linking /\ linking' = TRUE
    /\ \/ \E d \in Desks : /\ desk[d] = "none" /\ \A e \in Desks : desk[e] = "none" => d <= e
                           /\ desk' = [desk EXCEPT ![d] = "up"] /\ replies' = replies \cup {d}
       \/ replies' = replies \cup {NoDesk} /\ UNCHANGED desk
    /\ UNCHANGED <<frames, placed, shownDesk, linked, canvas, mouse>>

\* The answer, or the error; a panel that is gone does not care, and the
\* desktop stays.
ConnectAnswers(d) ==
    /\ d \in replies /\ replies' = replies \ {d}
    /\ IF placed
       THEN /\ linking' = FALSE
            /\ shownDesk' = IF d = NoDesk THEN shownDesk ELSE d
            /\ linked' = (d # NoDesk)
            /\ overtaken' = FALSE
       ELSE UNCHANGED <<shownDesk, linked, linking, overtaken>>
    /\ UNCHANGED <<desk, frames, placed, canvas, hand, calls, server>>

\* disconnect: the canvas is cleared; the mask is not.
Disconnect ==
    /\ placed /\ linked
    /\ desk' = [desk EXCEPT ![shownDesk] = "gone"]
    /\ shownDesk' = NoDesk /\ linked' = FALSE /\ canvas' = NoDesk
    /\ UNCHANGED <<frames, replies, placed, linking, mouse>>

\* The desktop ends by itself; nobody tells the panel.
DeskEnds(d) ==
    /\ desk[d] = "up" /\ desk' = [desk EXCEPT ![d] = "gone"]
    /\ UNCHANGED <<frames, replies, placed, shownDesk, linked, linking, canvas, mouse>>

\* The session is closed, and the panel with it; the desktop is not closed, and
\* keeps the buttons it was told.
Unmount ==
    /\ placed /\ placed' = FALSE
    /\ shownDesk' = NoDesk /\ linked' = FALSE /\ linking' = FALSE /\ canvas' = NoDesk
    /\ mask' = {} /\ missed' = FALSE
    /\ UNCHANGED <<desk, frames, replies, held, calls, server, overtaken>>

\* A panel for another session.  A bound: not before the answer to the last panel,
\* which this one does not get, is gone.
Remount ==
    /\ ~placed /\ replies = {} /\ placed' = TRUE
    /\ UNCHANGED <<desk, frames, replies, shownDesk, linked, linking, canvas, mouse>>

-----------------------------------------------------------------------------
(* Frames *)

FrameComes(d) ==
    /\ desk[d] = "up" /\ Len(frames) < MaxFrames /\ frames' = Append(frames, d)
    /\ UNCHANGED <<desk, replies, placed, shownDesk, linked, linking, canvas, mouse>>

\* The listener and renderFrame: frames of the desktop shown; those that come
\* before the answer of VncConnect are dropped.
OnFrame ==
    /\ frames # <<>> /\ frames' = Tail(frames)
    /\ canvas' = IF placed /\ Head(frames) = shownDesk THEN shownDesk ELSE canvas
    /\ UNCHANGED <<desk, replies, placed, shownDesk, linked, linking, mouse>>

-----------------------------------------------------------------------------
(* The mouse; events count while the panel is connected.  Nothing awaits a call of            *)
(* VncPointerEvent and each runs in a goroutine of its own, so a newer one may be carried out  *)
(* first.  A bound: none is made while Flights has no place for those it follows.              *)

Free == {w \in Flights : older[w] = NoCall}

\* A call for the desktop shown.
Point(buttons) ==
    /\ newest' = [desk |-> shownDesk, buttons |-> buttons]
    /\ IF newest = NoCall THEN UNCHANGED older ELSE \E w \in Free : older' = [older EXCEPT ![w] = newest]

MouseDown(b) ==
    /\ b \notin held /\ held' = held \cup {b}
    /\ IF linked THEN mask' = mask \cup {b} /\ Point(mask') ELSE UNCHANGED <<mask, calls>>
    /\ UNCHANGED <<desk, frames, replies, placed, shownDesk, linked, linking, canvas, missed, server, overtaken>>

\* Mutant: the call is made before the button is taken from the mask.
MouseUpCallsFirst(b) ==
    /\ b \in held /\ held' = held \ {b}
    /\ IF linked THEN mask' = mask \ {b} /\ Point(mask) ELSE UNCHANGED <<mask, calls>>
    /\ missed' = (missed \/ (~linked /\ b \in mask))
    /\ UNCHANGED <<desk, frames, replies, placed, shownDesk, linked, linking, canvas, server, overtaken>>

MouseUp(b) ==
    /\ b \in held /\ held' = held \ {b}
    /\ IF linked THEN mask' = mask \ {b} /\ Point(mask') ELSE UNCHANGED <<mask, calls>>
    /\ missed' = (missed \/ (~linked /\ b \in mask))
    /\ UNCHANGED <<desk, frames, replies, placed, shownDesk, linked, linking, canvas, server, overtaken>>

\* Let go outside the canvas.
MouseUpElsewhere(b) ==
    /\ b \in held /\ held' = held \ {b} /\ missed' = TRUE
    /\ UNCHANGED <<desk, frames, replies, placed, shownDesk, linked, linking, canvas, mask, calls, server, overtaken>>

MouseMove ==
    /\ linked /\ Point(mask)
    /\ UNCHANGED <<desk, frames, replies, placed, shownDesk, linked, linking, canvas, hand, server, overtaken>>

\* Two calls, up with the mask of the right button or down with one of no button, and none.
Wheel ==
    /\ linked /\ newest' = [desk |-> shownDesk, buttons |-> {}]
    /\ \E turn \in {{"right"}, {"wheel"}}, w \in Free :
         LET turned == [older EXCEPT ![w] = [desk |-> shownDesk, buttons |-> turn]]
         IN  IF newest = NoCall THEN older' = turned ELSE \E v \in Free \ {w} : older' = [turned EXCEPT ![v] = newest]
    /\ UNCHANGED <<desk, frames, replies, placed, shownDesk, linked, linking, canvas, hand, server, overtaken>>

\* App.VncPointerEvent: a desktop that ended or was closed is told nothing.
Tell(c) == server' = IF desk[c.desk] = "up" THEN [server EXCEPT ![c.desk] = c.buttons] ELSE server

CarryOut ==
    /\ \/ /\ newest # NoCall /\ Tell(newest) /\ newest' = NoCall
          /\ overtaken' = (overtaken /\ newest.desk # shownDesk)
          /\ UNCHANGED older
       \/ \E w \in Flights \ Free :
            /\ Tell(older[w]) /\ older' = [older EXCEPT ![w] = NoCall]
            /\ overtaken' = (overtaken \/ (older[w].desk = shownDesk /\ newest.desk # shownDesk))
            /\ UNCHANGED newest
    /\ UNCHANGED <<desk, frames, replies, placed, shownDesk, linked, linking, canvas, hand>>

Next ==
    \/ Connect \/ Disconnect \/ Unmount \/ Remount \/ OnFrame \/ MouseMove \/ Wheel \/ CarryOut
    \/ \E d \in Desks \cup {NoDesk} : ConnectAnswers(d)
    \/ \E d \in Desks : DeskEnds(d) \/ FrameComes(d)
    \/ \E b \in Buttons : MouseDown(b) \/ MouseUp(b) \/ MouseUpElsewhere(b)

-----------------------------------------------------------------------------

\* No call for the desktop is on its way.
Quiet(d) == newest.desk # d /\ \A w \in Flights : older[w].desk # d

\* The canvas holds a frame of the desktop the panel is connected to, or
\* nothing: never one of a desktop that was left, though its frames still come.
\* When all pointer calls for it are carried out, however many panels and
\* desktops there were before, no button is pressed there that the user does not
\* hold, unless one was let go where the panel does not see it, or an older call
\* was carried out last.
CanvasIsOfDesk ==
    /\ canvas \in {NoDesk, shownDesk} /\ (linked <=> shownDesk # NoDesk)
    /\ ~missed => mask \subseteq held
    /\ linked /\ desk[shownDesk] = "up" /\ Quiet(shownDesk) /\ ~missed /\ ~overtaken => server[shownDesk] \subseteq held
=============================================================================
