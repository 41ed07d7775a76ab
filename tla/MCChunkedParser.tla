-------------------------- MODULE MCChunkedParser --------------------------
(***************************************************************************)
(* What a chunked body is, said of a whole string of characters, against   *)
(* what the parser makes of every such string however it is cut into       *)
(* buffers.                                                                *)
(***************************************************************************)
EXTENDS ChunkedParser

BinaryDigits == [d \in {0, 1} |-> IF d = 0 THEN "0" ELSE "1"]

\* The number a string of digits stands for.
Number(s) ==
    LET upTo[k \in 0 .. Len(s)] ==
            IF k = 0 THEN 0 ELSE upTo[k - 1] * Base + Value(s[k])
    IN  upTo[Len(s)]

\* A line end begins at the place i of s.
LineEnd(s, i) == i + 1 <= Len(s) /\ s[i] = "CR" /\ s[i + 1] = "LF"

\* The places where the line that begins at i can end.
LineEnds(s, i) ==
    {j \in i .. Len(s) : LineEnd(s, j) /\ \A k \in i .. (j - 1) : s[k] \in Text}

\* The strings of digits that the characters from i to j begin with, and that
\* are all of these or followed by an extension.
Sizes(s, i, j) ==
    {n \in (i + 1) .. j : /\ \A k \in i .. (n - 1) : s[k] \in Digit
                          /\ n = j \/ s[n] = " "}

\* Whether the lines from the place i on are a trailer and the empty line that
\* ends the body.
Trailer(s) ==
    LET trailer[i \in 1 .. (Len(s) + 1)] ==
            \/ LineEnd(s, i) /\ i + 1 = Len(s)
            \/ \E j \in LineEnds(s, i) : j > i /\ trailer[j + 2]
    IN  trailer

\* What the chunks from the place i on, the last chunk, the trailer and the
\* empty line amount to: a set of one element, or empty if they are none.
Chunks(s) ==
    LET chunks[i \in 1 .. (Len(s) + 1)] ==
            UNION {
                UNION {
                    LET count == Number(SubSeq(s, i, n - 1))
                        first == j + 2
                    IN  IF count = 0
                        THEN IF Trailer(s)[first] THEN {<<>>} ELSE {}
                        ELSE IF LineEnd(s, first + count)
                        THEN {SubSeq(s, first, first + count - 1) \o d :
                                 d \in chunks[first + count + 2]}
                        ELSE {} :
                    n \in Sizes(s, i, j)} :
                j \in LineEnds(s, i)}
    IN  chunks

Bodies(s) == Chunks(s)[1]

----------------------------------------------------------------------------
EndsWhereTheBodyEnds ==
    /\ result = "end" => data \in Bodies(Consumed)
    /\ result = "more" => Bodies(Consumed) = {}

\* What may still come.
Rests == {<<>>, <<"LF">>, <<"CR", "LF">>, <<"LF", "CR", "LF">>,
          <<"CR", "LF", "CR", "LF">>,
          <<"CR", "LF", "0", "CR", "LF", "CR", "LF">>}

RefusesNoBody ==
    result = "invalid" =>
        \A rest \in Rests : Bodies(Append(Consumed, Head(buf)) \o rest) = {}

(***************************************************************************)
(* However the body is cut into buffers, parse_chunk reports its end right *)
(* after the last line feed, never before and never later, and has then    *)
(* delivered the data of its chunks: nothing lost, doubled or reordered,   *)
(* and what follows in the buffer is left for the next request.  No body is*)
(* refused because of where it was cut, or at all: what has been refused is*)
(* the beginning of none of the bodies that a short rest makes of it.      *)
(***************************************************************************)
ChunkedAsDefined == EndsWhereTheBodyEnds /\ RefusesNoBody
=============================================================================
