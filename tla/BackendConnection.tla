-------------------------- MODULE BackendConnection --------------------------
(***************************************************************************)
(* A connection to a backend (http/proxy_connection.cpp and                *)
(* http/fcgi_connection.cpp) from the moment prepare_http_request has      *)
(* begun to connect it until its slot is freed: the request is sent, the   *)
(* response read, and the client (_M_client, whose fields the loop writes  *)
(* to) given an answer.                                                    *)
(*                                                                         *)
(* What the backend sends is a sequence of pieces, cut anywhere by the     *)
(* network: the status line, the rest of the headers, pieces of the body   *)
(* and the last chunk, or the two halves of each FastCGI record.  It may   *)
(* close the connection at any time, which is the piece "fin".  The two    *)
(* handlers share the states that send the request and those that answer.  *)
(***************************************************************************)
EXTENDS Integers, Sequences, FiniteSets, SequencesExt

CONSTANTS Kinds,       \* the kinds of response
          Size,        \* bound on the pieces of a response's body
          MaxRecords,  \* bound on the records its output is cut into
          Payload,     \* bound on the pieces of a request's
          ReadSize,    \* READ_BUFFER_SIZE, in pieces
          MaxMemory,   \* _M_max_payload_in_memory, in pieces
          None

\* Responses with a Content-Length, a chunked body, or a body that ends with
\* the connection; to a HEAD request; with a status that has no body; with
\* headers that are wrong or do not tell the size of the body; and those of a
\* FastCGI application.
AllKinds == {"length", "chunked", "close", "head", "empty", "refused", "fcgi"}

ASSUME BackendConnectionAssumption ==
    /\ Kinds \subseteq AllKinds
    /\ {Size, MaxRecords, Payload, MaxMemory} \subseteq Nat
    /\ ReadSize \in Nat \ {0}
    /\ None \notin {"payload", "response"}

VARIABLES resp,      \* the response
          request,   \* the pieces to send: the headers and the payload
          todo,      \* the pieces the backend has still to send
          wire,      \* those in the socket's receive buffer
          closed,    \* the backend has closed the connection
          edge,      \* something that has not yet been reported has arrived
          readable,  \* _M_readable
          writable,  \* _M_writable
          running,   \* loop has been called and has not returned
          open,      \* the connection
          state,     \* _M_state
          outp,      \* _M_outp
          sent,      \* what has been written to the socket
          body,      \* _M_client->_M_body
          inp,       \* _M_inp
          left,      \* _M_left
          out,       \* the FastCGI headers read, in _M_out
          memory,    \* _M_client->_M_payload_in_memory
          filesize,  \* _M_client->_M_filesize
          file,      \* _M_tmpfile
          stored,    \* what is in it
          theirs,    \* _M_client->_M_tmpfile
          lent,      \* the temporary files on loan from tmpfiles_cache
          answer     \* what the client is to send, or None

netVars == <<resp, request, todo, wire, closed, edge>>
flagVars == <<readable, writable>>
sendVars == <<outp, sent>>
readVars == <<body, inp, left, out>>
clientVars == <<memory, filesize, theirs>>
fileVars == <<file, stored, lent>>
vars == <<netVars, flagVars, running, open, state, sendVars, readVars, clientVars,
          fileVars, answer>>

Piece == [part : {"header", "data", "end", "record", "fin"}, n : Nat]

Of(part, n) == [k \in 1 .. n |-> [part |-> part, n |-> k]]

Data(n) == Of("data", n)

\* The status line and what follows it, or the two lines that are the headers
\* of an application.
Header == Of("header", 2)

IsFcgi == resp.kind = "fcgi"

\* size is what the headers say, data the pieces of the body that are sent.
HttpResponses ==
    [kind : Kinds \ {"fcgi"}, size : 0 .. Size, data : 0 .. Size + 1]

Sensible(r) ==
    CASE r.kind = "length" -> r.data \in {r.size, r.size + 1}
      [] r.kind \in {"chunked", "close"} -> r.data = r.size
      [] r.kind = "head" -> r.data = 0
      [] OTHER -> r.data = 0 /\ r.size = 0

\* The records of stdout an application cuts its n pieces of output into: how
\* many have been sent with each.  An empty one stands for one of stderr too.
Records(n) ==
    {ends \in UNION {[1 .. k -> 0 .. n] : k \in 1 .. MaxRecords} :
        /\ ends[Len(ends)] = n
        /\ \A i, j \in DOMAIN ends : i <= j => ends[i] <= ends[j]}

Responses ==
    {r \in HttpResponses : Sensible(r)}
      \cup (IF "fcgi" \in Kinds
            THEN [kind : {"fcgi"}, size : {Size}, data : {Size},
                  records : Records(Len(Header) + Size)]
            ELSE {})

\* The last record is FCGI_END_REQUEST.
Stream(r) ==
    CASE r.kind = "fcgi" -> Of("record", 2 * (Len(r.records) + 1))
      [] r.kind = "chunked" -> Header \o Data(r.data) \o Of("end", 1)
      [] OTHER -> Header \o Data(r.data)

Sending == {"SENDING_HEADERS", "SENDING_BODY"}
Reading == {"READING_STATUS_LINE", "READING_HEADERS", "READING_BODY",
            "READING_CHUNKED_BODY", "READING_UNKNOWN_SIZE_BODY"}
States == Sending \cup Reading \cup
            {"CONNECTING", "PROCESSING_RESPONSE", "PREPARING_ERROR_PAGE",
             "RESPONSE_COMPLETED"}

TypeOK ==
    /\ resp \in Responses
    /\ request \in Seq(Nat) /\ sent \in Seq(Nat)
    /\ todo \in Seq(Piece) /\ wire \in Seq(Piece)
    /\ closed \in BOOLEAN /\ edge \in BOOLEAN
    /\ readable \in BOOLEAN /\ writable \in BOOLEAN
    /\ running \in BOOLEAN /\ open \in BOOLEAN
    /\ state \in States
    /\ outp \in Nat
    /\ body \in Seq(Piece) /\ inp \in 0 .. Len(body)
    /\ left \in Nat
    /\ out \in Seq(Piece)
    /\ memory \in BOOLEAN /\ filesize \in Nat
    /\ file \in {"response", None} /\ stored \in Seq(Piece)
    /\ theirs \in {"payload", "response", None}
    /\ lent \subseteq {"payload", "response"}
    /\ answer \in [body : Seq(Piece)] \cup {[error |-> TRUE], None}

\* A payload is in memory, or in a file of the client's.  _M_filesize is what
\* has come of it with the last reads, if anything has.
Init ==
    /\ resp \in Responses
    /\ \E n \in 0 .. Payload : request = [k \in 1 .. n + 1 |-> k]
    /\ memory \in BOOLEAN
    /\ theirs = IF memory THEN None ELSE "payload"
    /\ lent = {theirs} \ {None}
    /\ todo = Stream(resp)
    /\ wire = <<>> /\ closed = FALSE /\ edge = FALSE
    /\ readable = FALSE /\ writable = FALSE
    /\ running = FALSE /\ open = TRUE
    /\ state = "CONNECTING"
    /\ outp = 0 /\ sent = <<>>
    /\ body = <<>> /\ inp = 0 /\ left = 0 /\ out = <<>>
    /\ filesize = 0
    /\ file = None /\ stored = <<>>
    /\ answer = None

----------------------------------------------------------------------------
(* The backend, epoll and the alarm.                                       *)

\* The backend answers as it likes, also before it has read the request.
Arrive ==
    /\ open /\ ~closed
    /\ state # "CONNECTING"
    /\ \E n \in 1 .. Len(todo) :
          /\ wire' = wire \o SubSeq(todo, 1, n)
          /\ todo' = SubSeq(todo, n + 1, Len(todo))
    /\ edge' = TRUE
    /\ UNCHANGED <<resp, request, closed, flagVars, running, open, state, sendVars,
                   readVars, clientVars, fileVars, answer>>

\* At the end of the response or before it.
BackendCloses ==
    /\ open /\ ~closed
    /\ state # "CONNECTING"
    /\ closed' = TRUE
    /\ wire' = wire \o Of("fin", 1)
    /\ edge' = TRUE
    /\ UNCHANGED <<resp, request, todo, flagVars, running, open, state, sendVars,
                   readVars, clientVars, fileVars, answer>>

\* on_event, process_connection: a report tells of all there is at the moment
\* to be read, and of room to write; room alone is reported if there was none.
Event ==
    /\ open /\ ~running
    /\ edge \/ ~writable
    /\ edge' = FALSE
    /\ readable' = (readable \/ wire # <<>>)
    /\ writable' \in IF edge THEN {writable, TRUE} ELSE {TRUE}
    /\ running' = TRUE
    /\ UNCHANGED <<resp, request, todo, wire, closed, open, state, sendVars, readVars,
                   clientVars, fileVars, answer>>

\* proxy_connection::reset, of the slot that is freed.
Freed ==
    /\ open' = FALSE
    /\ running' = FALSE
    /\ file' = None
    /\ lent' = lent \ {file}
    /\ UNCHANGED stored

\* handle_alarm: nothing has been heard of the backend for too long.
TimeOut ==
    /\ open /\ ~running
    /\ Freed
    /\ UNCHANGED <<netVars, flagVars, state, sendVars, readVars, clientVars, answer>>

\* handle_alarm: what there is of a body of unknown size is taken for all.
AlarmCompletes ==
    /\ open /\ ~running
    /\ state = "READING_UNKNOWN_SIZE_BODY"
    /\ filesize > 0
    /\ state' = "RESPONSE_COMPLETED"
    /\ running' = TRUE
    /\ UNCHANGED <<netVars, flagVars, open, sendVars, readVars, clientVars, fileVars,
                   answer>>

----------------------------------------------------------------------------
(* loop: connecting and sending                                            *)

In(s) == open /\ running /\ state = s

MustWait ==
    \/ state \in Sending /\ ~writable
    \/ state \in Reading /\ ~readable

Return ==
    /\ open /\ running
    /\ MustWait
    /\ running' = FALSE
    /\ UNCHANGED <<netVars, flagVars, open, state, sendVars, readVars, clientVars,
                   fileVars, answer>>

Connect ==
    /\ In("CONNECTING")
    /\ state' \in {"SENDING_HEADERS", "PREPARING_ERROR_PAGE"}
    /\ UNCHANGED <<netVars, flagVars, running, open, sendVars, readVars, clientVars,
                   fileVars, answer>>

\* What _M_outp counts: the headers with the payload, or the headers alone and
\* then the file, which for FastCGI holds the records of stdin.
Source ==
    IF memory THEN request
    ELSE IF state = "SENDING_HEADERS" THEN SubSeq(request, 1, 1)
    ELSE SubSeq(request, 2, Len(request))

Write(n) ==
    /\ state \in Sending /\ open /\ running
    /\ writable
    /\ outp + n <= Len(Source)
    /\ sent' = sent \o SubSeq(Source, outp + 1, outp + n)
    /\ UNCHANGED <<netVars, readable, running, open>>

\* The socket's buffer is full.
SendSome ==
    \E n \in 0 .. Len(Source) :
        /\ outp + n < Len(Source)
        /\ Write(n)
        /\ outp' = outp + n
        /\ writable' = FALSE
        /\ UNCHANGED <<state, readVars, clientVars, fileVars, answer>>

\* The client's file is forgotten, not given back.
SendRestLosesFile ==
    /\ Write(Len(Source) - outp)
    /\ IF state = "SENDING_HEADERS" /\ ~memory
       THEN /\ state' = "SENDING_BODY"
            /\ outp' = 0
            /\ UNCHANGED <<body, theirs>>
       ELSE /\ state' = (IF IsFcgi THEN "READING_HEADERS" ELSE "READING_STATUS_LINE")
            /\ outp' = Len(Source)
            /\ body' = <<>>
            /\ theirs' = None
    /\ UNCHANGED <<writable, inp, left, out, memory, filesize, fileVars, answer>>

\* The last of the headers, or of the request: the client's file is given
\* back, and its buffers are taken for the response.
SendRest ==
    /\ Write(Len(Source) - outp)
    /\ IF state = "SENDING_HEADERS" /\ ~memory
       THEN /\ state' = "SENDING_BODY"
            /\ outp' = 0
            /\ UNCHANGED <<body, theirs, lent>>
       ELSE /\ state' = (IF IsFcgi THEN "READING_HEADERS" ELSE "READING_STATUS_LINE")
            /\ outp' = Len(Source)
            /\ body' = <<>>
            /\ theirs' = None
            /\ lent' = lent \ {theirs}
    /\ UNCHANGED <<writable, inp, left, out, memory, filesize, file, stored, answer>>

----------------------------------------------------------------------------
(* loop: reading                                                           *)

\* All but "fin", which comes last.
Available == SubSeq(wire, 1, IF closed THEN Len(wire) - 1 ELSE Len(wire))

\* The pieces one read returns.
Got == SubSeq(Available, 1,
              IF Len(Available) < ReadSize THEN Len(Available) ELSE ReadSize)

\* A read of fewer than were asked for, or of none, ends with the descriptor
\* not readable; an end of file behind them is not read.
Read ==
    /\ readable
    /\ wire = <<>> \/ Got # <<>>
    /\ wire' = SubSeq(wire, Len(Got) + 1, Len(wire))
    /\ readable' = (Len(Got) = ReadSize)
    /\ UNCHANGED <<resp, request, todo, closed, edge, writable>>

\* With an end of file, or an error, whatever has been read so far is all.
ReadFailsQuietly ==
    /\ open /\ running /\ state \in Reading
    /\ readable
    /\ state' = IF state \in {"READING_BODY", "READING_UNKNOWN_SIZE_BODY"}
                THEN "RESPONSE_COMPLETED"
                ELSE "PREPARING_ERROR_PAGE"
    /\ UNCHANGED <<netVars, flagVars, running, open, sendVars, readVars, clientVars,
                   fileVars, answer>>

\* IO_ERROR: the end of file, or an error at any time.
ReadFails ==
    /\ open /\ running /\ state \in Reading
    /\ readable
    /\ state' = IF state = "READING_UNKNOWN_SIZE_BODY"
                THEN "RESPONSE_COMPLETED"
                ELSE "PREPARING_ERROR_PAGE"
    /\ UNCHANGED <<netVars, flagVars, running, open, sendVars, readVars, clientVars,
                   fileVars, answer>>

WriteFails ==
    /\ open /\ running /\ state \in Sending
    /\ writable
    /\ state' = "PREPARING_ERROR_PAGE"
    /\ UNCHANGED <<netVars, flagVars, running, open, sendVars, readVars, clientVars,
                   fileVars, answer>>

\* Of the body that has come with the headers (_M_body_offset).
Offset == Len(Header)

Rest(b) == SubSeq(b, Offset + 1, Len(b))

\* parse_headers; wrong ones can be found out here or by process_response.
ParseHeaders(b) ==
    IF Len(b) < Offset
    THEN inp' = 1 /\ state' = "READING_HEADERS"
    ELSE /\ inp' = Len(b)
         /\ \/ state' = "PROCESSING_RESPONSE"
            \/ resp.kind = "refused" /\ state' = "PREPARING_ERROR_PAGE"

\* read_status_line and read_headers.
ReadHeaders ==
    /\ In("READING_STATUS_LINE") \/ (In("READING_HEADERS") /\ ~IsFcgi)
    /\ Read
    /\ body' = body \o Got
    /\ IF body' = <<>> THEN UNCHANGED <<inp, state>> ELSE ParseHeaders(body')
    /\ UNCHANGED <<running, open, sendVars, left, out, clientVars, fileVars, answer>>

\* process_response for what needs no file: a HEAD request, a status without
\* a body, a body that has all come with the headers, or fits in the memory.
ProcessInMemory ==
    /\ In("PROCESSING_RESPONSE")
    /\ \/ resp.kind \in {"head", "empty"}
       \/ /\ resp.kind = "length"
          /\ Len(Rest(body)) >= resp.size \/ resp.size <= MaxMemory
    /\ memory' = TRUE
    /\ filesize' = resp.size
    /\ IF resp.kind = "length" /\ Len(Rest(body)) < resp.size
       THEN left' = resp.size - Len(Rest(body)) /\ state' = "READING_BODY"
       ELSE state' = "RESPONSE_COMPLETED" /\ UNCHANGED left
    /\ UNCHANGED <<netVars, flagVars, running, open, sendVars, body, inp, out, theirs,
                   fileVars, answer>>

\* parse_chunk: whether the last chunk has come, which nothing follows, and
\* the data before it (see the module ChunkedParser).
HasEnd(s) == \E k \in DOMAIN s : s[k].part = "end"

DataOf(s) == IF HasEnd(s) THEN SubSeq(s, 1, Len(s) - 1) ELSE s

\* tmpfiles_cache::open
Opened ==
    /\ file' = "response"
    /\ lent' = lent \cup {"response"}

ToFile ==
    \/ resp.kind \in {"chunked", "close"}
    \/ /\ resp.kind = "length"
       /\ Len(Rest(body)) < resp.size /\ resp.size > MaxMemory

\* process_response for what goes to a file.
ProcessToFile ==
    /\ In("PROCESSING_RESPONSE")
    /\ ToFile
    /\ memory' = FALSE
    /\ Opened
    /\ stored' = DataOf(Rest(body))
    /\ filesize' = IF resp.kind = "length" THEN resp.size ELSE Len(stored')
    /\ left' = IF resp.kind = "length" THEN resp.size - Len(stored') ELSE left
    /\ state' = CASE resp.kind = "length" -> "READING_BODY"
                  [] resp.kind = "close" -> "READING_UNKNOWN_SIZE_BODY"
                  [] HasEnd(body) -> "RESPONSE_COMPLETED"
                  [] OTHER -> "READING_CHUNKED_BODY"
    /\ body' = <<>> /\ inp' = 0
    /\ UNCHANGED <<netVars, flagVars, running, open, sendVars, out, theirs, answer>>

ProcessRefused ==
    /\ In("PROCESSING_RESPONSE") /\ resp.kind = "refused"
    /\ state' = "PREPARING_ERROR_PAGE"
    /\ UNCHANGED <<netVars, flagVars, running, open, sendVars, readVars, clientVars,
                   fileVars, answer>>

\* The last piece must be followed by another.
ReadBodyOneMore ==
    /\ In("READING_BODY") /\ ~IsFcgi
    /\ Read
    /\ LET b == body \o Got
           count == IF left < Len(b) - inp THEN left ELSE Len(b) - inp
       IN  /\ IF memory
              THEN inp' = inp + count /\ body' = b /\ UNCHANGED stored
              ELSE stored' = stored \o SubSeq(b, 1, count) /\ body' = <<>> /\ UNCHANGED inp
           /\ left' = left - count
           /\ state' = IF left = 0 THEN "RESPONSE_COMPLETED" ELSE state
    /\ UNCHANGED <<running, open, sendVars, out, clientVars, file, lent, answer>>

ReadBody ==
    /\ In("READING_BODY") /\ ~IsFcgi
    /\ Read
    /\ LET b == body \o Got
           count == IF left < Len(b) - inp THEN left ELSE Len(b) - inp
       IN  /\ IF memory
              THEN inp' = inp + count /\ body' = b /\ UNCHANGED stored
              ELSE stored' = stored \o SubSeq(b, 1, count) /\ body' = <<>> /\ UNCHANGED inp
           /\ IF count = left
              THEN state' = "RESPONSE_COMPLETED" /\ UNCHANGED left
              ELSE left' = left - count /\ UNCHANGED state
    /\ UNCHANGED <<running, open, sendVars, out, clientVars, file, lent, answer>>

ReadChunkedBody ==
    /\ In("READING_CHUNKED_BODY")
    /\ Read
    /\ stored' = stored \o DataOf(Got)
    /\ filesize' = filesize + Len(DataOf(Got))
    /\ IF HasEnd(Got)
       THEN body' = Got /\ state' = "RESPONSE_COMPLETED"
       ELSE body' = <<>> /\ UNCHANGED state
    /\ UNCHANGED <<running, open, sendVars, inp, left, out, memory, theirs, file, lent,
                   answer>>

ReadUnknownSizeBody ==
    /\ In("READING_UNKNOWN_SIZE_BODY")
    /\ Read
    /\ stored' = stored \o Got
    /\ filesize' = filesize + Len(Got)
    /\ UNCHANGED <<running, open, state, sendVars, readVars, memory, theirs, file, lent,
                   answer>>

----------------------------------------------------------------------------
(* loop: the records of a FastCGI application                              *)

\* The halves of records that are complete: a record begins at the beginning
\* of the buffer.
Whole(b) == 2 * (Len(b) \div 2)

\* How much of the output has come with so many halves of records.
OutputTo(halves) ==
    IF halves = 0 THEN 0
    ELSE IF halves \div 2 > Len(resp.records) THEN Offset + resp.size
    ELSE resp.records[halves \div 2]

Output(b) ==
    IF Whole(b) = 0 THEN <<>>
    ELSE SubSeq(Header \o Data(resp.size), OutputTo(b[1].n - 1) + 1, OutputTo(b[Whole(b)].n))

\* stdout_stream for all of some output.
TakeOutput(s) ==
    LET all == out \o s
    IN  IF state = "READING_BODY"
        THEN /\ stored' = stored \o s
             /\ filesize' = filesize + Len(s)
             /\ UNCHANGED <<out, file, lent>>
        ELSE IF Len(all) < Offset
        THEN out' = all /\ UNCHANGED <<fileVars, filesize>>
        ELSE /\ Opened
             /\ out' = SubSeq(all, 1, Offset)
             /\ stored' = Rest(all)
             /\ filesize' = Len(Rest(all))

\* read_response and process: a record that is not complete stays.
ReadRecords ==
    /\ In("READING_HEADERS") \/ In("READING_BODY")
    /\ IsFcgi
    /\ Read
    /\ LET b == body \o Got
       IN  /\ body' = SubSeq(b, Whole(b) + 1, Len(b))
           /\ TakeOutput(Output(b))
           /\ state' = IF Whole(b) # 0 /\ b[Whole(b)].n = 2 * (Len(resp.records) + 1)
                       THEN "RESPONSE_COMPLETED"
                       ELSE IF file' = None THEN "READING_HEADERS"
                       ELSE "READING_BODY"
    /\ UNCHANGED <<running, open, sendVars, inp, left, memory, theirs, answer>>

\* The temporary file cannot be opened, or not be written.
FileFails ==
    /\ open /\ running
    /\ \/ /\ state = "PROCESSING_RESPONSE" /\ ToFile
          /\ memory' = FALSE
          /\ Opened \/ UNCHANGED <<file, lent>>
       \/ /\ state \in Reading /\ readable /\ wire # <<>>
          /\ file # None \/ (IsFcgi /\ state = "READING_HEADERS")
          /\ UNCHANGED <<memory, file, lent>>
    /\ state' = "PREPARING_ERROR_PAGE"
    /\ UNCHANGED <<netVars, flagVars, running, open, sendVars, readVars, filesize, theirs,
                   stored, answer>>

----------------------------------------------------------------------------
(* loop: the answer; it returns false, and the slot is freed.              *)

PrepareErrorPage ==
    /\ In("PREPARING_ERROR_PAGE")
    /\ answer' = [error |-> TRUE]
    /\ memory' = TRUE
    /\ Freed
    /\ UNCHANGED <<netVars, flagVars, state, sendVars, readVars, filesize, theirs>>

\* What the client sends of its memory or of the file it is given.
Passed ==
    IF resp.kind = "head" THEN <<>>
    ELSE IF file # None THEN SubSeq(stored, 1, filesize)
    ELSE SubSeq(body, Offset + 1, Offset + filesize)

ResponseCompleted ==
    /\ In("RESPONSE_COMPLETED")
    /\ answer' = [body |-> Passed]
    /\ theirs' = file
    /\ file' = None
    /\ memory' = IF IsFcgi THEN FALSE ELSE memory
    /\ open' = FALSE /\ running' = FALSE
    /\ UNCHANGED <<netVars, flagVars, state, sendVars, readVars, filesize, stored, lent>>

----------------------------------------------------------------------------

Loop ==
    \/ Return
    \/ Connect \/ SendSome \/ SendRest \/ WriteFails
    \/ ReadHeaders \/ ReadFails
    \/ ProcessInMemory \/ ProcessToFile \/ ProcessRefused
    \/ ReadBody \/ ReadChunkedBody \/ ReadUnknownSizeBody \/ ReadRecords
    \/ FileFails
    \/ PrepareErrorPage \/ ResponseCompleted

Next == Loop \/ Arrive \/ BackendCloses \/ Event \/ TimeOut \/ AlarmCompletes

Spec == Init /\ [][Next]_vars

\* The loop is code of the only thread, and epoll reports what has happened; a
\* backend reads its request, so that one of the writes is the last; the
\* alarm looks at every connection.  The backend need not send anything, nor
\* need the alarm find that it has been silent for too long.
FairSpec ==
    /\ Spec
    /\ WF_vars(Loop)
    /\ WF_vars(Event)
    /\ SF_vars(SendRest)
    /\ WF_vars(AlarmCompletes)

----------------------------------------------------------------------------
(***************************************************************************)
(* The connection implements the exchange: wherever the network cuts the   *)
(* response and wherever its body is kept, the client gets the body of the *)
(* response and nothing else, all of it if the response tells its size,    *)
(* after the backend has got every byte of the request once and in order.  *)
(***************************************************************************)
Response ==
    CASE resp.kind \in {"length", "chunked", "close", "fcgi"} -> Data(resp.size)
      [] OTHER -> <<>>

Abs == INSTANCE Exchange WITH response <- Response, exact <- resp.kind # "close"

AnswersWithTheWhole == Abs!Spec

(***************************************************************************)
(* The client's file is given back before the client is handed another,    *)
(* and the response's belongs to one of the two, or has been given back:   *)
(* tmpfiles_cache is neither robbed of a file nor asked to close one twice.*)
(***************************************************************************)
FilesSettled ==
    /\ lent = {file, theirs} \ {None}
    /\ file # None => file # theirs
    /\ ~open => file = None

(***************************************************************************)
(* Once the backend has sent all of its response the client is answered:   *)
(* nothing is left in the socket or in the buffer for which the loop waits *)
(* for an event that never comes.  A body of unknown size must have some   *)
(* bytes, for the alarm completes no empty one.                            *)
(***************************************************************************)
AnswerComes ==
    open /\ todo = <<>> /\ (resp.kind = "close" => filesize > 0) ~> ~open
=============================================================================
