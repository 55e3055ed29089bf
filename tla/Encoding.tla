------------------------------ MODULE Encoding -------------------------------
(***************************************************************************)
(* The converter of internal/enc/enc.go, which turns the bytes of a terminal *)
(* into characters, chunk by chunk.  A byte stands for a class that UTF-8 and *)
(* GBK read differently:                                                       *)
(*   "A"  7F and below; also the second half of a GBK character               *)
(*   "L"  C2..DF, first of two in UTF-8; either half in GBK                   *)
(*   "T"  E0..EF, first of three in UTF-8; either half in GBK                 *)
(*   "C"  80..BF, a later byte in UTF-8; either half in GBK                   *)
(* and any other byte is valid in neither.  Decode is a function: the state   *)
(* of a converter is [mode, left].                                            *)
(***************************************************************************)
EXTENDS SequencesExt, Integers

Modes == {"auto", "utf-8", "gbk"}

NewConverter(mode) == [mode |-> mode, left |-> <<>>]

Bad == <<"bad">>

\* Characters are tagged with the encoding they were read in, but for ASCII.
Utf8Length(b) == CASE b = "A" -> 1 [] b = "L" -> 2 [] b = "T" -> 3 [] OTHER -> 0

\* Does the text begin with a character of UTF-8?  A byte that begins none is one bad character.
Utf8Begins(s) ==
    LET n == Utf8Length(s[1])
    IN  n > 0 /\ n <= Len(s) /\ \A j \in 2..n : s[j] = "C"

Utf8Width(s) == IF Utf8Begins(s) THEN Utf8Length(s[1]) ELSE 1

Utf8Char(s) ==
    IF ~Utf8Begins(s) THEN Bad
    ELSE (IF Utf8Width(s) = 1 THEN <<>> ELSE <<"utf-8">>) \o SubSeq(s, 1, Utf8Width(s))

Utf8Chars[s \in Seq(STRING)] ==
    IF s = <<>> THEN <<>> ELSE <<Utf8Char(s)>> \o Utf8Chars[SubSeq(s, Utf8Width(s) + 1, Len(s))]

\* utf8.Valid
Valid(s) == ~Contains(Utf8Chars[s], Bad)

Lead == {"L", "T", "C"}

\* The decoder of golang.org/x/text for complete characters.
GbkWidth(s) == IF s[1] \in Lead /\ Len(s) > 1 THEN 2 ELSE 1

GbkChar(s) ==
    IF s[1] = "A" THEN <<"A">> ELSE IF GbkWidth(s) = 2 THEN <<"gbk", s[1], s[2]>> ELSE Bad

GbkChars[s \in Seq(STRING)] ==
    IF s = <<>> THEN <<>> ELSE <<GbkChar(s)>> \o GbkChars[SubSeq(s, GbkWidth(s) + 1, Len(s))]

\* isUTF8Prefix: a first byte, and fewer later ones than it asks for.
IsUTF8Prefix(s) ==
    /\ Len(s) \in 1..3
    /\ Len(s) < Utf8Length(s[1])
    /\ \A j \in 2..Len(s) : s[j] = "C"

\* holdUTF8Tail: the length of the longest valid prefix, when only a part of a character
\* follows it; else -1.
HoldUTF8Tail(s) ==
    LET n == CHOOSE i \in 0..Len(s) :
               Valid(SubSeq(s, 1, i)) /\ \A j \in i + 1..Len(s) : ~Valid(SubSeq(s, 1, j))
    IN  IF IsUTF8Prefix(SubSeq(s, n + 1, Len(s))) THEN n ELSE -1

\* splitGBKTail: the length of what may be the first half of a character, at the end.
GbkTail[s \in Seq(STRING)] ==
    IF s = <<>> \/ (Len(s) = 1 /\ s[1] \in Lead) THEN Len(s)
    ELSE GbkTail[SubSeq(s, GbkWidth(s) + 1, Len(s))]

DecodeGBK(s) ==
    LET n == Len(s) - GbkTail[s]
    IN  [conv |-> [mode |-> "gbk", left |-> SubSeq(s, n + 1, Len(s))], out |-> GbkChars[SubSeq(s, 1, n)]]

\* decodeAuto and emitUTF8 differ in what they do with bytes that are not UTF-8.
DecodeUTF8(mode, s) ==
    LET n == IF Valid(s) THEN Len(s) ELSE HoldUTF8Tail(s)
    IN  IF n >= 0
        THEN [conv |-> [mode |-> mode, left |-> SubSeq(s, n + 1, Len(s))], out |-> Utf8Chars[SubSeq(s, 1, n)]]
        ELSE IF mode = "auto" THEN DecodeGBK(s)
        ELSE [conv |-> NewConverter(mode), out |-> Utf8Chars[s]]

Decode(conv, p) ==
    LET s == conv.left \o p
    IN  IF conv.mode = "gbk" THEN DecodeGBK(s) ELSE DecodeUTF8(conv.mode, s)
=============================================================================
