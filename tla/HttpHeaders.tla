----------------------------- MODULE HttpHeaders -----------------------------
(***************************************************************************)
(* Message headers (http/http_headers.cpp): the parser that a request's or *)
(* a response's headers go through, the table it fills, and the text that  *)
(* is made of the table for a client or a backend.                         *)
(*                                                                         *)
(* The buffer that is parsed keeps everything since the first header, and  *)
(* the parser goes on in it at _M_offset with each read: what it makes of  *)
(* the buffer is a fold over its characters, wherever the reads end.       *)
(* Names are sequences of characters, in one case; the blanks and controls *)
(* that differ for the parser are " ", "CR" and "LF".                      *)
(***************************************************************************)
EXTENDS Integers, Sequences, SequencesExt

CONSTANTS Known,       \* _M_known_http_headers, sorted by name: the records
                       \* [name, type, single, multiple]
          Order,       \* characters -> Nat: how strncasecmp compares them
          NameChar,    \* characters a name can have
          MaxLineLen,  \* _M_max_line_len
          MaxSize      \* MAX_HEADERS_SIZE

\* An unknown header comes after the general, request, response and entity ones.
Headers == Append(Known, [name |-> <<>>, type |-> 4, single |-> FALSE, multiple |-> FALSE])

UnknownHeader == Len(Headers)

\* strncasecmp(name, known, Len(name)), a string that ends counting as less.
Compare(name, known) ==
    LET differ == {i \in 1 .. Len(name) : i > Len(known) \/ name[i] # known[i]}
        first  == CHOOSE i \in differ : \A j \in differ : i <= j
    IN  IF differ = {} THEN 0
        ELSE IF first > Len(known) \/ Order[name[first]] > Order[known[first]] THEN 1 ELSE -1

\* get_header: a binary search.
GetHeader(name) ==
    LET search[i \in 1 .. (Len(Known) + 1), j \in 0 .. Len(Known)] ==
            LET pivot == (i + j) \div 2
                order == Compare(name, Known[pivot].name)
            IN  IF i > j THEN UnknownHeader
                ELSE IF order = 0 /\ Len(name) = Len(Known[pivot].name) THEN pivot
                ELSE IF order < 0 \/ (order = 0 /\ Len(name) < Len(Known[pivot].name))
                THEN search[i, pivot - 1]
                ELSE search[pivot + 1, j]
    IN  search[1, Len(Known)]

Type(name) == Headers[GetHeader(name)].type

SingleToken(name) == Headers[GetHeader(name)].single

Multiple(name) == Headers[GetHeader(name)].multiple

----------------------------------------------------------------------------
(* The table: [name, value] in the order of _M_http_headers.               *)

\* search: where the header is, or where it goes.
Found(table, name, pos) ==
    pos <= Len(table) /\ table[pos].name = name /\ ~Multiple(name)

\* The types are not compared: a header goes to the end.
PlaceAtEnd(table, name) ==
    CHOOSE pos \in 1 .. (Len(table) + 1) :
        /\ Found(table, name, pos) \/ pos = Len(table) + 1
        /\ \A i \in 1 .. (pos - 1) : ~Found(table, name, i)

Place(table, name) ==
    LET Stop(pos) == \/ pos = Len(table) + 1
                     \/ Found(table, name, pos)
                     \/ Type(table[pos].name) > Type(name)
    IN  Min({pos \in 1 .. (Len(table) + 1) : Stop(pos)})

\* clean_value: each run of blanks becomes one, leading blanks are dropped.
Clean(value) ==
    LET Blank(c) == c \in {" ", "CR", "LF"}
        Keep(out, c) == IF ~Blank(c) THEN Append(out, c)
                        ELSE IF out = <<>> \/ Last(out) = " " THEN out
                        ELSE Append(out, " ")
    IN  FoldLeft(Keep, <<>>, value)

\* A value is appended to the one that is there, or replaces it.
Put(table, pos, name, value, replace) ==
    IF ~Found(table, name, pos)
    THEN InsertAt(table, pos, [name |-> name, value |-> value])
    ELSE [table EXCEPT ![pos].value = IF replace THEN value ELSE @ \o <<",", " ">> \o value]

AddHeader(table, name, value, replace) ==
    Put(table, Place(table, name), name, Clean(value), replace)

Take(table, pos, name) == IF Found(table, name, pos) THEN RemoveAt(table, pos) ELSE table

RemoveHeader(table, name) == Take(table, Place(table, name), name)

----------------------------------------------------------------------------
(* parse.  0 initial state, 1 header field, 2 whitespace after it, 3 ':'   *)
(* after it, 4 header value, 5 CR, 6 LF, 7 multiple lines value.  Offsets  *)
(* count from 1, and 0 is no token.                                        *)

Parser == [state |-> 0, token |-> 0, end |-> 0, name |-> <<>>, crlfs |-> 1,
           table |-> <<>>, result |-> "more"]

Bad(p) == [p EXCEPT !.result = "invalid"]

Done(p) == [p EXCEPT !.result = "end"]

Goto(p, state) == [p EXCEPT !.state = state]

\* The header whose value has been delimited, if it has one.
Added(p, text) ==
    IF p.token = 0 THEN p
    ELSE [p EXCEPT !.table = AddHeader(@, p.name, SubSeq(text, p.token, p.end - 1), FALSE)]

\* The value ends here unless its last word has ended before.
Ended(p, i) == IF p.end = 0 THEN [p EXCEPT !.end = i] ELSE p

Name(p, text, i) == Goto([p EXCEPT !.token = i, !.crlfs = 0], 1)

\* State 6, where the line does not go on with the last header.
NewLine(p, text, i) ==
    CASE text[i] = "CR" -> Goto(p, 5)
      [] text[i] = "LF" -> Done(p)
      [] OTHER -> Name(p, text, i)

\* State 7; of a header of one token everything else is ignored.
FoldedLine(p, text, i) ==
    LET c == text[i]
    IN  IF c = "CR" THEN Goto(p, 5)
        ELSE IF c = "LF" THEN Goto([p EXCEPT !.crlfs = 1], 6)
        ELSE IF c = " " \/ (p.token # 0 /\ SingleToken(p.name)) THEN p
        ELSE Goto([p EXCEPT !.end = 0, !.token = IF @ = 0 THEN i ELSE @], 4)

\* Where the field's name has ended, its length is _M_namelen.
Field(p, text, i) ==
    IF text[i] = ":"
    THEN Goto([p EXCEPT !.name = SubSeq(text, p.token, (IF p.state = 1 THEN i ELSE p.end) - 1),
                        !.token = 0], 3)
    ELSE IF text[i] = " " THEN IF p.state = 1 THEN Goto([p EXCEPT !.end = i], 2) ELSE p
    ELSE IF p.state = 1 /\ text[i] \in NameChar THEN p
    ELSE Bad(p)

Value(p, text, i) ==
    LET c == text[i]
    IN  IF c = "CR" THEN Goto(Ended(p, i), 5)
        ELSE IF c = "LF" THEN Goto([Ended(p, i) EXCEPT !.crlfs = 1], 6)
        ELSE IF c = " " THEN Ended(p, i)
        ELSE IF SingleToken(p.name) THEN p
        ELSE [p EXCEPT !.end = 0]

Step(p, text, i) ==
    LET c == text[i]
    IN  CASE p.state = 0 ->
                IF c \in NameChar THEN Name(p, text, i)
                ELSE IF c = "CR" THEN Goto(p, 5)
                ELSE IF c = "LF" THEN Done(p)
                ELSE Bad(p)
          [] p.state \in {1, 2} -> Field(p, text, i)
          [] p.state = 3 ->
                IF c = "CR" THEN Goto(p, 5)
                ELSE IF c = "LF" THEN Goto([p EXCEPT !.crlfs = 1], 6)
                ELSE IF c = " " THEN p
                ELSE Goto([p EXCEPT !.token = i, !.end = 0], 4)
          [] p.state = 4 -> Value(p, text, i)
          [] p.state = 5 ->
                IF c # "LF" THEN Bad(p)
                ELSE IF p.crlfs = 1 THEN Done(p)
                ELSE Goto([p EXCEPT !.crlfs = 1], 6)
          [] p.state = 6 ->
                IF c = " " THEN Goto([p EXCEPT !.crlfs = 0], 7)
                ELSE IF c \in NameChar \cup {"CR", "LF"} THEN NewLine(Added(p, text), text, i)
                ELSE Bad(p)
          [] p.state = 7 -> FoldedLine(p, text, i)

\* The limit is only looked at where the parser wants more.
Limited(p, i) == IF p.result = "more" /\ i > MaxSize THEN [p EXCEPT !.result = "too large"] ELSE p

\* What the parser has made of a text; the body begins behind it if it ends.
Parse(text) ==
    LET Read(p, i) == IF p.result # "more" THEN p ELSE Limited(Step(p, text, i), i)
    IN  FoldLeft(Read, Parser, [i \in 1 .. Len(text) |-> i])

----------------------------------------------------------------------------
(* serialize: a line that gets too long is folded at its last blank.       *)

\* The blank at which the line is folded stays in front of the next word.
KeepsTheBlank(name, value) ==
    LET Fold(f, i) ==
            LET g == IF f.used + f.len >= MaxLineLen /\ f.space # 0
                     THEN [out |-> f.out \o SubSeq(value, f.begin, f.space - 2) \o <<"CR", "LF", " ">>,
                           begin |-> f.space, used |-> 1, len |-> i - f.space, space |-> 0]
                     ELSE f
            IN  [g EXCEPT !.len = @ + 1, !.space = IF value[i] = " " THEN i ELSE @]
        folded == FoldLeft(Fold, [out |-> <<>>, begin |-> 1, used |-> Len(name) + 2, len |-> 0, space |-> 0],
                           [i \in 1 .. Len(value) |-> i])
    IN  folded.out \o SubSeq(value, folded.begin, Len(value))

Folded(name, value) ==
    LET Fold(f, i) ==
            LET g == IF f.used + f.len >= MaxLineLen /\ f.space # 0
                     THEN [out |-> f.out \o SubSeq(value, f.begin, f.space - 1) \o <<"CR", "LF", " ">>,
                           begin |-> f.space + 1, used |-> 1, len |-> i - (f.space + 1), space |-> 0]
                     ELSE f
            IN  [g EXCEPT !.len = @ + 1, !.space = IF value[i] = " " THEN i ELSE @]
        folded == FoldLeft(Fold, [out |-> <<>>, begin |-> 1, used |-> Len(name) + 2, len |-> 0, space |-> 0],
                           [i \in 1 .. Len(value) |-> i])
    IN  folded.out \o SubSeq(value, folded.begin, Len(value))

Serialize(table) ==
    LET Line(e) == e.name \o <<":", " ">> \o Folded(e.name, e.value) \o <<"CR", "LF">>
    IN  FlattenSeq([i \in 1 .. Len(table) |-> Line(table[i])]) \o <<"CR", "LF">>

\* prepare_http_request: the headers of a request as they go to a backend.
Forwarded(table, connection, close, dropped, host, backend) ==
    LET closed == AddHeader(table, connection, close, TRUE)
    IN  AddHeader(FoldLeft(RemoveHeader, closed, dropped), host, backend, TRUE)
=============================================================================
