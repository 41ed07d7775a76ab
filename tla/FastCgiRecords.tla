---------------------------- MODULE FastCgiRecords ----------------------------
(***************************************************************************)
(* FastCGI records (http/fastcgi.cpp, http/fastcgi.h): how a request is    *)
(* written for an application, and how the bytes that come back, wherever  *)
(* the reads cut them, are made into records again.                        *)
(*                                                                         *)
(* Buffers are sequences of bytes, and a number takes as many of them as   *)
(* the protocol gives it; a byte has Base values, and Align of them are    *)
(* what records are padded to.                                             *)
(***************************************************************************)
EXTENDS Integers, Sequences, SequencesExt

CONSTANTS Base,   \* 256
          Align,  \* 8
          Prefix  \* "HTTP_", as bytes

BeginRequest == 1
EndRequest == 3
Params == 4
Stdin == 5
Stdout == 6
Stderr == 7
GetValuesResult == 10
MaxType == 11

HeaderLen == 8
Base2 == Base * Base
Limit == Base2 - 1
Half == Base \div 2

Short(n) == <<n \div Base, n % Base>>

Zeros(n) == [i \in 1 .. n |-> 0]

\* fill_header, for FCGI_VERSION_1.
Header(type, id, len, padding) == <<1, type>> \o Short(id) \o Short(len) \o <<padding, 0>>

Padding(len) == IF len % Align = 0 THEN 0 ELSE Align - (len % Align)

\* begin_request: the role and the flags are the body's first three bytes.
Begin(id, role, keep) == Header(BeginRequest, id, 8, 0) \o Short(role) \o <<keep>> \o Zeros(5)

----------------------------------------------------------------------------
(* Name-value pairs: a length has one byte, or four from 128 on.           *)

Length(n) ==
    IF n < Half THEN <<n>>
    ELSE <<Half>> \o <<n \div Base2>> \o Short(n % Base2)

\* add, which refuses what the record has no room for.
AddPair(content, name, value, http) ==
    LET full == (IF http THEN Prefix ELSE <<>>) \o name
        pair == Length(Len(full)) \o Length(Len(value)) \o full \o value
    IN  [ok |-> Len(content) + Len(pair) <= Limit, content |-> content \o pair]

\* params: header, the pairs [name, value, http], end.
ParamsRecord(id, pairs) ==
    LET Add(r, p) == IF r.ok THEN AddPair(r.content, p.name, p.value, p.http) ELSE r
        all == FoldLeft(Add, [ok |-> TRUE, content |-> <<>>], pairs)
        len == Len(all.content)
    IN  [ok  |-> all.ok,
         out |-> Header(Params, id, len, Padding(len)) \o all.content \o Zeros(Padding(len))
                   \o Header(Params, id, 0, 0)]

\* decode_name_value_pairs: the pairs until one does not fit, or is too long.
Pairs(content) ==
    LET LengthSize(i) == IF i <= Len(content) /\ content[i] >= Half THEN 4 ELSE 1
        LengthAt(i) == IF content[i] < Half THEN content[i]
                       ELSE (content[i] - Half) * Base ^ 3 + content[i + 1] * Base ^ 2
                              + content[i + 2] * Base + content[i + 3]
        from[i \in 1 .. (Len(content) + 1)] ==
            LET value == i + LengthSize(i)
                name  == value + LengthSize(value)
                split == name + LengthAt(i)
                next  == split + LengthAt(value)
            IN  IF \/ i > Len(content)
                   \/ value > Len(content) \/ name - 1 > Len(content)
                   \/ LengthAt(i) > Limit \/ LengthAt(value) > Limit
                   \/ next - 1 > Len(content)
                THEN <<>>
                ELSE <<[name  |-> SubSeq(content, name, split - 1),
                        value |-> SubSeq(content, split, next - 1)]>> \o from[next]
    IN  from[1]

----------------------------------------------------------------------------
(* input_stream and fill_stream_record.                                    *)

StreamRecord(type, id, data, padding) ==
    Header(type, id, Len(data) % Base2, padding)
      \o SubSeq(data, 1, Len(data) % Base2) \o Zeros(padding)

\* The pieces before the last are written from where the first began.
BufferStays(type, id, data) ==
    LET nrecords == (Len(data) + Limit - 1) \div Limit
        Piece(s, i) ==
            LET len == s.left % Limit
            IN  [out  |-> s.out \o StreamRecord(type, id, SubSeq(data, 1, len), 0),
                 left |-> s.left - len]
        pieces == FoldLeft(Piece, [out |-> <<>>, left |-> Len(data)], [i \in 1 .. (nrecords - 1) |-> i])
    IN  pieces.out \o StreamRecord(type, id, SubSeq(data, 1, pieces.left), Padding(Len(data)))

\* The first piece is what the last record has no room for.
InputStream(type, id, data) ==
    LET nrecords == (Len(data) + Limit - 1) \div Limit
        Piece(s, i) ==
            LET len == s.left % Limit
                at  == Len(data) - s.left
            IN  [out  |-> s.out \o StreamRecord(type, id, SubSeq(data, at + 1, at + len), 0),
                 left |-> s.left - len]
        pieces == FoldLeft(Piece, [out |-> <<>>, left |-> Len(data)], [i \in 1 .. (nrecords - 1) |-> i])
        last   == SubSeq(data, Len(data) - pieces.left + 1, Len(data))
    IN  pieces.out \o StreamRecord(type, id, last, Padding(Len(data)))

\* prepare_http_request: what a request is sent as.  The payload is one piece if it
\* is in memory, an empty one too, and if it is in a file one for each read.
Request(id, pairs, pieces) ==
    Begin(id, 1, 0) \o ParamsRecord(id, pairs).out
      \o FlattenSeq([k \in DOMAIN pieces |-> InputStream(Stdin, id, pieces[k])])
      \o InputStream(Stdin, id, <<>>)

----------------------------------------------------------------------------
(* process: the records of a buffer and what is left of it.                *)

\* The padding is taken for the beginning of the next record.
ForgetsThePadding(buf) ==
    LET from[i \in 1 .. (Len(buf) + 1)] ==
            LET len  == buf[i + 4] * Base + buf[i + 5]
                next == i + HeaderLen + len
            IN  IF Len(buf) + 1 - i < HeaderLen THEN [records |-> <<>>, rest |-> SubSeq(buf, i, Len(buf))]
                ELSE IF buf[i] # 1 \/ buf[i + 1] \notin 1 .. MaxType THEN [records |-> <<>>, rest |-> <<>>]
                ELSE IF next - 1 > Len(buf) THEN [records |-> <<>>, rest |-> SubSeq(buf, i, Len(buf))]
                ELSE [from[next] EXCEPT !.records =
                        <<[type |-> buf[i + 1], content |-> SubSeq(buf, i + HeaderLen, i + HeaderLen + len - 1)]>> \o @]
    IN  from[1]

\* A record that is not one discards everything that has been read.
Records(buf) ==
    LET from[i \in 1 .. (Len(buf) + 1)] ==
            LET len  == buf[i + 4] * Base + buf[i + 5]
                next == i + HeaderLen + len + buf[i + 6]
            IN  IF Len(buf) + 1 - i < HeaderLen THEN [records |-> <<>>, rest |-> SubSeq(buf, i, Len(buf))]
                ELSE IF buf[i] # 1 \/ buf[i + 1] \notin 1 .. MaxType THEN [records |-> <<>>, rest |-> <<>>]
                ELSE IF next - 1 > Len(buf) THEN [records |-> <<>>, rest |-> SubSeq(buf, i, Len(buf))]
                ELSE [from[next] EXCEPT !.records =
                        <<[type |-> buf[i + 1], content |-> SubSeq(buf, i + HeaderLen, i + HeaderLen + len - 1)]>> \o @]
    IN  from[1]

\* The records that have a callback, which is called with their content.
HasCallback(r) ==
    \/ r.type \in {GetValuesResult, Stdout, Stderr} /\ r.content # <<>>
    \/ r.type = EndRequest /\ Len(r.content) = 8

\* What a connection has received and been called back with.
Received(conn, bytes) ==
    LET read == Records(conn.buf \o bytes)
    IN  [buf |-> read.rest, called |-> conn.called \o SelectSeq(read.records, HasCallback)]
=============================================================================
