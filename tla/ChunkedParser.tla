--------------------------- MODULE ChunkedParser ---------------------------
(***************************************************************************)
(* The parser of chunked bodies (http/chunked_parser.cpp), shared by client*)
(* connections (payloads of requests) and proxy connections (responses).   *)
(*                                                                         *)
(* It is fed the buffers that reads return, wherever these happen to be    *)
(* cut, and keeps nothing between two calls but its state and the size of  *)
(* the chunk, or of what is still missing of it.  What it makes of a       *)
(* message must not depend on the cuts, and the end it finds decides where *)
(* the next request of the connection begins.                              *)
(***************************************************************************)
EXTENDS Integers, Sequences, FiniteSets

CONSTANTS Base,      \* of chunk sizes: 16 in the source
          Digits,    \* the characters for 0, 1, ..., Base - 1
          MaxRead,   \* bound on the length of a buffer
          MaxLen,    \* bound on the length of everything that is read
          MaxText    \* bound on the printable characters in it

ASSUME ChunkedParserAssumption ==
    /\ Base \in Nat \ {0, 1}
    /\ Digits \in [0 .. (Base - 1) -> STRING \ {" ", "CR", "LF"}]
    /\ MaxRead \in Nat \ {0} /\ MaxLen \in Nat /\ MaxText \in Nat

VARIABLES state,   \* _M_state
          size,    \* _M_chunk_size
          buf,     \* the buffer of the current call, from ptr on
          seen,    \* everything that has been read
          data,    \* what add_chunked_data has been given, in one piece
          result   \* what the call returns, or "more"

vars == <<state, size, buf, seen, data, result>>

\* The characters that differ for the parser: a digit, a blank or semicolon,
\* another printable character, and the two that end a line.
Digit == {Digits[d] : d \in DOMAIN Digits}
Text == Digit \cup {" ", "x"}
Char == Text \cup {"CR", "LF"}

Value(c) == CHOOSE d \in DOMAIN Digits : Digits[d] = c

TypeOK ==
    /\ state \in 0 .. 10
    /\ size \in Nat
    /\ buf \in Seq(Char) /\ seen \in Seq(Char) /\ data \in Seq(Char)
    /\ result \in {"more", "end", "invalid", "failed"}

Init ==
    /\ state = 0
    /\ size = 0
    /\ buf = <<>> /\ seen = <<>> /\ data = <<>>
    /\ result = "more"

(***************************************************************************)
(* The transitions that depend on nothing but the character: 0 chunk size, *)
(* 1 reading chunk size, 2 after chunk size, 3 CR after it, 4 chunk data,  *)
(* 5 after chunk data, 6 CR after it, 7 trailer, 8 entity header, 9 CR     *)
(* after it, 10 CR after the trailer.                                      *)
(***************************************************************************)
Transitions ==
    [ from : {0, 1}, on : Digit,  to : {1} ]
      \cup [ from : {1},      on : {" "},  to : {2} ]
      \cup [ from : {1, 2},   on : {"CR"}, to : {3} ]
      \cup [ from : {2},      on : Text,   to : {2} ]
      \cup [ from : {5},      on : {"CR"}, to : {6} ]
      \cup [ from : {6},      on : {"LF"}, to : {0} ]
      \cup [ from : {7, 8},   on : Text,   to : {8} ]
      \cup [ from : {7},      on : {"CR"}, to : {10} ]
      \cup [ from : {8},      on : {"CR"}, to : {9} ]
      \cup [ from : {9},      on : {"LF"}, to : {7} ]

\* A call of parse_chunk has something left to look at.
Parsing == result = "more" /\ buf # <<>>

\* The caller reads some more and calls parse_chunk again.
Feed ==
    /\ result = "more" /\ buf = <<>>
    /\ \E n \in 1 .. MaxRead : \E s \in [1 .. n -> Char] :
          /\ buf' = s
          /\ seen' = seen \o s
          /\ Len(seen') <= MaxLen
          /\ Cardinality({k \in DOMAIN seen' : seen'[k] \in Text}) <= MaxText
    /\ UNCHANGED <<state, size, data, result>>

\* The size is not started anew by the first digit of a chunk.
MoveOnOldSize ==
    /\ Parsing
    /\ \E t \in Transitions :
          /\ t.from = state /\ t.on = Head(buf)
          /\ state' = t.to
          /\ size' = IF t.to = 1 THEN size * Base + Value(t.on) ELSE size
    /\ buf' = Tail(buf)
    /\ UNCHANGED <<seen, data, result>>

Move ==
    /\ Parsing
    /\ \E t \in Transitions :
          /\ t.from = state /\ t.on = Head(buf)
          /\ state' = t.to
          /\ size' = IF t.to # 1 THEN size
                     ELSE (IF t.from = 0 THEN 0 ELSE size * Base) + Value(t.on)
    /\ buf' = Tail(buf)
    /\ UNCHANGED <<seen, data, result>>

\* A chunk of one character is taken for the last chunk.
SizeEndsOffByOne ==
    /\ Parsing
    /\ state = 3 /\ Head(buf) = "LF"
    /\ state' = IF size > 1 THEN 4 ELSE 7
    /\ buf' = Tail(buf)
    /\ UNCHANGED <<size, seen, data, result>>

\* The line feed after the chunk size.
SizeEnds ==
    /\ Parsing
    /\ state = 3 /\ Head(buf) = "LF"
    /\ state' = IF size > 0 THEN 4 ELSE 7
    /\ buf' = Tail(buf)
    /\ UNCHANGED <<size, seen, data, result>>

\* As much of the chunk as the buffer has.
Data ==
    /\ Parsing
    /\ state = 4
    /\ LET n == IF size <= Len(buf) THEN size ELSE Len(buf)
       IN  /\ data' = data \o SubSeq(buf, 1, n)
           /\ buf' = SubSeq(buf, n + 1, Len(buf))
           /\ IF size <= Len(buf) THEN state' = 5 /\ UNCHANGED size
              ELSE size' = size - n /\ UNCHANGED state
    /\ UNCHANGED <<seen, result>>

\* add_chunked_data fails: the data cannot be written to the file.
DataFails ==
    /\ Parsing
    /\ state = 4
    /\ result' = "failed"
    /\ UNCHANGED <<state, size, buf, seen, data>>

\* The last line feed: what is left of the buffer is not the body's.
Finish ==
    /\ Parsing
    /\ state = 10 /\ Head(buf) = "LF"
    /\ buf' = Tail(buf)
    /\ result' = "end"
    /\ UNCHANGED <<state, size, seen, data>>

Reject ==
    /\ Parsing
    /\ state # 4
    /\ ~ (state \in {3, 10} /\ Head(buf) = "LF")
    /\ ~ \E t \in Transitions : t.from = state /\ t.on = Head(buf)
    /\ result' = "invalid"
    /\ UNCHANGED <<state, size, buf, seen, data>>

Next ==
    \/ Feed
    \/ Move \/ SizeEnds \/ Data \/ Finish
    \/ DataFails \/ Reject

Spec == Init /\ [][Next]_vars

\* What the calls have consumed so far.
Consumed == SubSeq(seen, 1, Len(seen) - Len(buf))
=============================================================================
