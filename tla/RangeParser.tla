----------------------------- MODULE RangeParser -----------------------------
(***************************************************************************)
(* Byte ranges (http/range_parser.cpp, util/range_list.cpp): what follows  *)
(* "bytes=" in the Range header of a request for a file of a given size.   *)
(* Numbers are off_t: signed, and computed before they are compared.       *)
(***************************************************************************)
EXTENDS Integers, Sequences, SequencesExt

CONSTANTS Digits,  \* character -> its value
          Limit    \* the least number that off_t does not hold

\* off_t holds something, and digits have values.
OffsetsHold == Limit \in Nat \ {0} /\ \A c \in DOMAIN Digits : Digits[c] \in Nat

Wrap(n) == ((n + Limit) % (2 * Limit)) - Limit

Lesser(a, b) == IF a < b THEN a ELSE b

(***************************************************************************)
(* 0 initial state, 1 from, 2 whitespace after it, 3 after "-", 4 to,      *)
(* 5 whitespace after it, 6 a new range starts, 7 start of suffix length,  *)
(* 8 suffix length, 9 whitespace after it.  "number" is from, to or count, *)
(* which are never used at once, but for "from" while "to" is read.        *)
(***************************************************************************)
RangeBegins == [state |-> 0, from |-> 0, number |-> 0, ranges |-> <<>>, ok |-> TRUE]

Fails(p) == [p EXCEPT !.ok = FALSE]

\* range_list::add.
AddRange(p, from, to) ==
    IF to < from THEN Fails(p)
    ELSE [p EXCEPT !.ranges = Append(@, [from |-> from, to |-> to]), !.state = 6]

\* The suffix is longer than the file.
SuffixNotClamped(p, length) ==
    IF p.number = 0 THEN Fails(p) ELSE AddRange(p, length - p.number, length - 1)

Suffix(p, length) ==
    IF p.number = 0 THEN Fails(p)
    ELSE AddRange(p, length - Lesser(p.number, length), length - 1)

\* A comma or the end of the header.
RangeEnds(p, length) ==
    CASE p.state = 3 -> AddRange(p, p.from, length - 1)
      [] p.state \in {4, 5} -> AddRange(p, p.from, Lesser(p.number, length - 1))
      [] p.state \in {8, 9} -> Suffix(p, length)
      [] OTHER -> Fails(p)

\* A digit: the first of a number, or one more.
Digit(p, d, length) ==
    LET from == Wrap(p.from * 10 + d)
        next == Wrap(p.number * 10 + d)
    IN  CASE p.state \in {0, 6} -> [p EXCEPT !.from = d, !.state = 1]
          [] p.state = 1 -> IF from < p.from \/ from >= length THEN Fails(p) ELSE [p EXCEPT !.from = from]
          [] p.state \in {3, 7} -> [p EXCEPT !.number = d, !.state = @ + 1]
          [] p.state \in {4, 8} -> IF next < p.number THEN Fails(p) ELSE [p EXCEPT !.number = next]
          [] OTHER -> Fails(p)

Blank(p) == IF p.state \in {1, 4, 8} THEN [p EXCEPT !.state = @ + 1] ELSE p

Dash(p) == CASE p.state \in {0, 6} -> [p EXCEPT !.state = 7]
             [] p.state \in {1, 2} -> [p EXCEPT !.state = 3]
             [] OTHER -> Fails(p)

RangeStep(p, c, length) ==
    IF c \in DOMAIN Digits THEN Digit(p, Digits[c], length)
    ELSE CASE c = " " -> Blank(p) [] c = "-" -> Dash(p)
           [] c = "," -> RangeEnds(p, length) [] OTHER -> Fails(p)

ReadRanges(text, length) ==
    LET Read(p, c) == IF p.ok THEN RangeStep(p, c, length) ELSE p
    IN  FoldLeft(Read, RangeBegins, text)

ParseRanges(text, length) ==
    LET p == ReadRanges(text, length)
        q == IF ~p.ok \/ p.state = 0 THEN p ELSE RangeEnds(p, length)
    IN  [ok |-> q.ok, ranges |-> q.ranges]
=============================================================================
