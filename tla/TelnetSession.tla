---------------------------- MODULE TelnetSession ----------------------------
(***************************************************************************)
(* The Telnet session, internal/telnetcore/session.go: a pump that takes the *)
(* commands out of what it reads, answers them and hands on the decoded rest; *)
(* Send and Resize; and Close, which the user calls or the goroutine of       *)
(* attachSession after the end signal (app.go 289).  A write holds s.mu until *)
(* the peer takes it.  The session does not close itself.                     *)
(***************************************************************************)
EXTENDS Encoding, TelnetBounds

CONSTANT
    Streams                 \* [text, mode, of]: what the peer sends, the encoding that is
                            \* configured and the one it is in

VARIABLES
    telnet,                 \* the stream of this session
    link,                   \* the connection: "up" or "down"
    at, rest,               \* bytes the pump has read, and those of them it keeps
    asks, data,             \* answers still to write, and bytes to hand on after them
    conv, message,          \* the converter, and the message in hand
    pumpAt,                 \* "read", "answer", "write", "send", "exit"
    place,                  \* of each goroutine that calls methods
    lock,                   \* owner of s.mu
    size, told, agreed,     \* the window, the last report of it to the peer, and whether it asked
    stop, shut, once,       \* s.stop and s.closed, and closeOnce
    channel, open, signal,  \* Output(), and what was posted on Done()
    screen, ranging,        \* what the consumer received, and whether it goes on
    made                    \* counts the calls

chanVars == <<channel, open, signal>>
readVars == <<telnet, at, rest, asks, data, conv, message>>
sizeVars == <<size, told, agreed>>
closeVars == <<stop, shut, once>>
consumerVars == <<screen, ranging>>
vars == <<readVars, link, pumpAt, place, lock, sizeVars, closeVars, chanVars, consumerVars, made>>

InClose == {"close_mark", "close_conn", "close_output", "close_wait"}

\* sendNAWSLocked: the width and the height that the peer reads.  The code writes the
\* rows first, where RFC 1073 has the width, and a byte 255 once, which the peer takes for
\* the start of a command.
NoReport == <<>>
Garbled == <<"iac">>
Bytes(n) == {n \div 256, n % 256}
Report(w) == IF 255 \in Bytes(w.rows) \cup Bytes(w.cols) THEN Garbled ELSE <<w.rows, w.cols>>
Reports == {NoReport} \cup {Report(w) : w \in Windows}

TypeOK ==
    /\ telnet \in Streams /\ link \in {"up", "down"} /\ at \in 0..Len(telnet.text)
    /\ pumpAt \in {"read", "answer", "write", "send", "exit"}
    /\ conv.mode \in Modes
    /\ place \in [Callers \cup {Watcher} -> {"idle", "wait", "posted", "gone", "write", "resize"} \cup InClose]
    /\ lock \in Callers \cup {Pump, NoOne}
    /\ size \in Windows /\ told \in Reports /\ agreed \in BOOLEAN
    /\ stop \in BOOLEAN /\ shut \in BOOLEAN /\ once \in {"fresh", "running", "done"}
    /\ Len(channel) <= QueueCap /\ open \in BOOLEAN /\ signal \in {"none", "error"}
    /\ ranging \in BOOLEAN /\ made \in 0..MaxCalls
    /\ pumpAt = "write" <=> lock = Pump

Init ==
    /\ telnet \in Streams /\ link = "up" /\ at = 0 /\ rest = <<>>
    /\ asks = <<>> /\ data = <<>> /\ message = <<>>
    /\ conv = NewConverter(telnet.mode)
    /\ pumpAt = "read" /\ lock = NoOne
    /\ place = [c \in Callers \cup {Watcher} |-> IF c = Watcher THEN "wait" ELSE "idle"]
    /\ size = FirstWindow /\ told = NoReport /\ agreed = FALSE
    /\ stop = FALSE /\ shut = FALSE /\ once = "fresh"
    /\ channel = <<>> /\ open = TRUE /\ signal = "none"
    /\ screen = <<>> /\ ranging = TRUE /\ made = 0

Goto(c, p) == place' = [place EXCEPT ![c] = p]

-----------------------------------------------------------------------------
(* Commands in the stream *)

Asking == {"will", "wont", "do", "dont"}

\* negotiate: what is written for an option.
Answer(cmd, opt) ==
    CASE cmd = "will" -> <<"reply">>
      [] cmd = "do" -> IF opt = "naws" THEN <<"reply", "size">> ELSE <<"reply">>
      [] OTHER -> <<>>

\* The length of the byte or command that is read first, or 0 when it is not complete.
Unit(in) ==
    LET ends == {j \in 3..Len(in) - 1 : in[j] = "iac" /\ in[j + 1] = "se"}
    IN  CASE in[1] # "iac" -> 1
          [] in[1] = "iac" /\ Len(in) = 1 -> 0
          [] in[1] = "iac" /\ Len(in) > 1 ->
               IF in[2] \in Asking THEN IF Len(in) > 2 THEN 3 ELSE 0
               ELSE IF in[2] = "sb" THEN IF ends = {} THEN 0 ELSE Min(ends) + 1
               ELSE 2

\* The data it is, and what is written for it.
UnitData(in) == IF in[1] # "iac" \/ in[2] = "iac" THEN <<in[1]>> ELSE <<>>
UnitAsks(in) == IF in[1] = "iac" /\ in[2] \in Asking THEN Answer(in[2], in[3]) ELSE <<>>

\* process: the data without the commands, the answers to them, and what is kept because
\* its command is not complete.
Process[in \in Seq(STRING)] ==
    IF in = <<>> \/ Unit(in) = 0 THEN [data |-> <<>>, asks |-> <<>>, rest |-> in]
    ELSE LET r == Process[SubSeq(in, Unit(in) + 1, Len(in))]
         IN  [data |-> UnitData(in) \o r.data, asks |-> UnitAsks(in) \o r.asks, rest |-> r.rest]

-----------------------------------------------------------------------------
(* The pump *)

\* Mutant: what was kept of a command is lost when the rest of it comes.
PumpReadFresh(n) ==
    /\ pumpAt = "read" /\ link = "up" /\ at + n <= Len(telnet.text)
    /\ LET r == Process[SubSeq(telnet.text, at + 1, at + n)]
       IN  rest' = r.rest /\ asks' = r.asks /\ data' = r.data
    /\ at' = at + n /\ pumpAt' = "answer"
    /\ UNCHANGED <<telnet, conv, message, link, place, lock, sizeVars, closeVars, chanVars, consumerVars, made>>

\* Read returns n bytes, and process takes the commands out of them.
PumpRead(n) ==
    /\ pumpAt = "read" /\ link = "up" /\ at + n <= Len(telnet.text)
    /\ LET r == Process[rest \o SubSeq(telnet.text, at + 1, at + n)]
       IN  rest' = r.rest /\ asks' = r.asks /\ data' = r.data
    /\ at' = at + n /\ pumpAt' = "answer"
    /\ UNCHANGED <<telnet, conv, message, link, place, lock, sizeVars, closeVars, chanVars, consumerVars, made>>

\* writeCmd, sendNAWSLocked: nothing is written for a session that is closed.
PumpAnswers ==
    /\ pumpAt = "answer" /\ asks # <<>> /\ lock = NoOne
    /\ IF shut THEN asks' = Tail(asks) /\ UNCHANGED <<pumpAt, lock>>
       ELSE pumpAt' = "write" /\ lock' = Pump /\ UNCHANGED asks
    /\ UNCHANGED <<telnet, at, rest, data, conv, message, link, place, sizeVars, closeVars, chanVars, consumerVars, made>>

\* The peer takes what was written, or the connection is gone.
PumpWritten ==
    /\ pumpAt = "write"
    /\ pumpAt' = "answer" /\ lock' = NoOne /\ asks' = Tail(asks)
    /\ IF Head(asks) = "size" /\ link = "up" THEN told' = Report(size) /\ agreed' = TRUE
       ELSE UNCHANGED <<told, agreed>>
    /\ UNCHANGED <<telnet, at, rest, data, conv, message, link, place, size, closeVars, chanVars, consumerVars, made>>

\* The data is decoded, unless the chunk was commands alone.
PumpDecodes ==
    /\ pumpAt = "answer" /\ asks = <<>>
    /\ IF data = <<>> THEN pumpAt' = "read" /\ UNCHANGED <<conv, message>>
       ELSE LET d == Decode(conv, data)
            IN  conv' = d.conv /\ message' = d.out /\ pumpAt' = "send"
    /\ data' = <<>>
    /\ UNCHANGED <<telnet, at, rest, asks, link, place, lock, sizeVars, closeVars, chanVars, consumerVars, made>>

PumpSend ==
    /\ pumpAt = "send" /\ Len(channel) < QueueCap
    /\ channel' = Append(channel, message) /\ message' = <<>>
    /\ pumpAt' = "read"
    /\ UNCHANGED <<telnet, at, rest, asks, data, conv, link, place, lock, sizeVars, closeVars, open, signal, consumerVars, made>>

\* The other branch of the select: no signal is posted.
PumpStop ==
    /\ pumpAt = "send" /\ stop
    /\ pumpAt' = "exit"
    /\ UNCHANGED <<readVars, link, place, lock, sizeVars, closeVars, chanVars, consumerVars, made>>

\* Read fails.
PumpEnds ==
    /\ pumpAt = "read" /\ link = "down"
    /\ pumpAt' = "exit" /\ signal' = "error"
    /\ UNCHANGED <<readVars, link, place, lock, sizeVars, closeVars, channel, open, consumerVars, made>>

-----------------------------------------------------------------------------
(* Methods *)

\* Send, and Resize to another size.
Call(c) ==
    /\ place[c] = "idle" /\ lock = NoOne /\ ~shut
    /\ made < MaxCalls /\ made' = made + 1
    /\ \/ Goto(c, "write") /\ UNCHANGED size
       \/ Goto(c, "resize") /\ size' \in Windows \ {size}
    /\ lock' = c
    /\ UNCHANGED <<readVars, link, pumpAt, told, agreed, closeVars, chanVars, consumerVars>>

\* The peer takes what was written, or the connection is gone.
CallReturns(c) ==
    /\ place[c] \in {"write", "resize"}
    /\ Goto(c, "idle") /\ lock' = NoOne
    /\ told' = IF place[c] = "resize" /\ link = "up" THEN Report(size) ELSE told
    /\ UNCHANGED <<readVars, link, pumpAt, size, agreed, closeVars, chanVars, consumerVars, made>>

Returned(c) == IF c = Watcher THEN "gone" ELSE "idle"

CloseBegin(c) ==
    /\ place[c] \in {"idle", "posted"}
    /\ \/ once = "fresh" /\ Goto(c, "close_mark") /\ once' = "running" /\ stop' = TRUE
       \/ once = "running" /\ Goto(c, "close_wait") /\ UNCHANGED <<once, stop>>
       \/ once = "done" /\ c = Watcher /\ Goto(c, "gone") /\ UNCHANGED <<once, stop>>
    /\ UNCHANGED <<readVars, link, pumpAt, lock, sizeVars, shut, chanVars, consumerVars, made>>

CloseMark(c) ==
    /\ place[c] = "close_mark" /\ lock = NoOne
    /\ shut' = TRUE /\ Goto(c, "close_conn")
    /\ UNCHANGED <<readVars, link, pumpAt, lock, sizeVars, stop, once, chanVars, consumerVars, made>>

CloseConn(c) ==
    /\ place[c] = "close_conn"
    /\ link' = "down" /\ Goto(c, "close_output")
    /\ UNCHANGED <<readVars, pumpAt, lock, sizeVars, closeVars, chanVars, consumerVars, made>>

\* pumpWg.Wait(), then close(s.output).
CloseOutput(c) ==
    /\ place[c] = "close_output" /\ pumpAt = "exit"
    /\ open' = FALSE /\ once' = "done" /\ Goto(c, Returned(c))
    /\ UNCHANGED <<readVars, link, pumpAt, lock, sizeVars, stop, shut, channel, signal, consumerVars, made>>

CloseWaited(c) ==
    /\ place[c] = "close_wait" /\ once = "done"
    /\ Goto(c, Returned(c))
    /\ UNCHANGED <<readVars, link, pumpAt, lock, sizeVars, closeVars, chanVars, consumerVars, made>>

-----------------------------------------------------------------------------
(* attachSession and the network *)

\* The goroutine gets the end signal.  After a reconnection it returns without Close.
Ended(reconnected) ==
    /\ place[Watcher] = "wait" /\ signal # "none"
    /\ Goto(Watcher, IF reconnected THEN "gone" ELSE "posted")
    /\ UNCHANGED <<readVars, link, pumpAt, lock, sizeVars, closeVars, chanVars, consumerVars, made>>

Consume ==
    /\ ranging
    /\ \/ channel # <<>> /\ screen' = screen \o Head(channel) /\ channel' = Tail(channel) /\ UNCHANGED ranging
       \/ channel = <<>> /\ ~open /\ ranging' = FALSE /\ UNCHANGED <<screen, channel>>
    /\ UNCHANGED <<readVars, link, pumpAt, place, lock, sizeVars, closeVars, open, signal, made>>

LinkLost ==
    /\ link = "up"
    /\ link' = "down"
    /\ UNCHANGED <<readVars, pumpAt, place, lock, sizeVars, closeVars, chanVars, consumerVars, made>>

\* What goes on by itself, when the peer takes what is written to it.
Turn ==
    \/ \E n \in 1..Len(telnet.text) : PumpRead(n)
    \/ PumpAnswers \/ PumpWritten \/ PumpDecodes \/ PumpSend \/ PumpStop \/ PumpEnds
    \/ \E c \in Callers : CallReturns(c)
    \/ \E c \in Callers \cup {Watcher} : CloseMark(c) \/ CloseConn(c) \/ CloseOutput(c) \/ CloseWaited(c)
    \/ place[Watcher] = "posted" /\ CloseBegin(Watcher)
    \/ Consume

Next ==
    \/ Turn
    \/ \E c \in Callers : Call(c) \/ CloseBegin(c)
    \/ \E reconnected \in BOOLEAN : Ended(reconnected)
    \/ LinkLost

Spec == Init /\ [][Next]_vars

-----------------------------------------------------------------------------

\* What the commands of Telnet leave of a stream, byte by byte.
Step(s, b) ==
    CASE s.in = "data" -> IF b = "iac" THEN [s EXCEPT !.in = "command"] ELSE [s EXCEPT !.out = Append(@, b)]
      [] s.in = "command" ->
           IF b = "iac" THEN [in |-> "data", out |-> Append(s.out, b)]
           ELSE [s EXCEPT !.in = IF b \in Asking THEN "option" ELSE IF b = "sb" THEN "sub" ELSE "data"]
      [] s.in = "option" -> [s EXCEPT !.in = "data"]
      [] s.in = "sub" -> [s EXCEPT !.in = IF b = "iac" THEN "sub iac" ELSE "sub"]
      [] s.in = "sub iac" -> [s EXCEPT !.in = IF b = "se" THEN "data" ELSE "sub"]

Run[s \in Seq(STRING)] == IF s = <<>> THEN [in |-> "data", out |-> <<>>] ELSE Step(Run[Front(s)], Last(s))

Written(s) == Run[s].out

Text(t) == IF t.of = "gbk" THEN GbkChars[Written(t.text)] ELSE Utf8Chars[Written(t.text)]

\* A GBK text that begins like one in UTF-8 is taken for that until it differs, and
\* what may become a character of UTF-8 at its end is kept.
Misleading(s) ==
    \/ \E n \in 1..Len(s) : Valid(SubSeq(s, 1, n)) /\ \E i \in 1..n : s[i] # "A"
    \/ HoldUTF8Tail(s) >= 0

\* An IAC within a subnegotiation, which is sent as two: process looks at the second one
\* with what follows.
Escaped(s) == \E i \in 1..Len(s) - 1 : Run[SubSeq(s, 1, i)].in = "sub iac" /\ s[i + 1] = "iac"

\* What a peer sends that keeps to the encoding that is configured or can be guessed.
Readable(t) ==
    LET s == Written(t.text)
    IN  /\ t.mode \in {"auto", t.of} /\ ~Escaped(t.text)
        /\ t.of = "utf-8" => Valid(s)
        /\ t.of = "gbk" => GbkTail[s] = 0 /\ (t.mode = "auto" => ~Misleading(s))

\* However the network splits the stream, in a command, in a character or between them, the
\* consumer receives its text, whole and in order, and nothing of the commands.
TextIsWhole ==
    Readable(telnet) =>
    LET received == screen \o FlattenSeq(channel) \o message
    IN  /\ IsPrefix(received, Text(telnet))
        /\ pumpAt = "read" /\ at = Len(telnet.text) => received = Text(telnet)

\* Once the peer asked for the size of the window, the last report it was sent is of the
\* last size, when nobody is about to send one; what it reads there is not the size, but
\* what Report says.
LastReportIsOfSize == agreed /\ lock = NoOne /\ link = "up" => told = Report(size)

\* The session keeps the contract of model.TermSession.
Contract == INSTANCE TermSession WITH Cap <- QueueCap, stopped <- stop, queued <- Len(channel)
ImplementsTermSession == Contract!Spec

\* Close has begun and not returned; a session that ended or was closed has a pump, or a consumer
\* of a channel that is closed.  It ends, if the peer takes what is written to it.
Unended(k) ==
    IF k = 1 THEN \E c \in Callers \cup {Watcher} : place[c] \in InClose
    ELSE (link = "down" /\ pumpAt # "exit") \/ (~open /\ ranging)
=============================================================================
