--------------------------- MODULE HttpConnection ---------------------------
(***************************************************************************)
(* A client's connection (http/http_connection.cpp): the states its loop   *)
(* goes through, the input buffer with its position _M_inp, and the edge-  *)
(* triggered flags _M_readable and _M_writable that decide whether the     *)
(* loop goes on or returns to the event loop.                              *)
(*                                                                         *)
(* The client sends its requests without waiting for answers.  What it     *)
(* sends is a sequence of pieces: the request line, the end of the headers,*)
(* pieces of the body, and the last chunk of a chunked body.  Reads can cut*)
(* it anywhere, and one buffer can hold the end of a request and the       *)
(* beginning of others.  The rules' handler is HTTP_HANDLER.               *)
(***************************************************************************)
EXTENDS Integers, Sequences, FiniteSets

CONSTANTS Kinds,       \* the kinds of request the client may send
          Requests,    \* bound on their number
          Sizes,       \* possible numbers of pieces of a body
          ReadSize,    \* READ_BUFFER_SIZE, in pieces
          MaxMemory,   \* _M_max_payload_in_memory, in pieces
          None

\* "local" is served from a file, "missing" and "missing post" are answered
\* 404 by not_found, "refused" is answered with an error and no keep_alive(),
\* "forward" is a GET or HEAD for a backend, "post" and "chunked" are POSTs
\* for a backend with a Content-Length or a chunked body.
AllKinds == {"local", "missing", "missing post", "refused",
             "forward", "post", "chunked"}

ASSUME HttpConnectionAssumption ==
    /\ Kinds \subseteq AllKinds
    /\ Requests \in Nat
    /\ Sizes \subseteq Nat \ {0} /\ IsFiniteSet(Sizes)
    /\ ReadSize \in Nat \ {0} /\ MaxMemory \in Nat

VARIABLES script,    \* the requests of the client
          todo,      \* the pieces it has still to send
          wire,      \* those in the socket's receive buffer
          edge,      \* a READ event has still to be reported
          readable,  \* _M_readable
          writable,  \* _M_writable
          state,     \* _M_state
          in,        \* _M_in
          inp,       \* _M_inp
          cur,       \* the request whose line has been parsed
          header,    \* _M_request_header_size
          size,      \* _M_request_body_size
          left,      \* _M_filesize while a body is read
          memory,    \* _M_payload_in_memory
          file,      \* what _M_tmpfile holds of the payload, or None
          keep,      \* _M_keep_alive
          running,   \* loop has been called and has not returned
          open,      \* the connection
          answered   \* the requests whose answer has been sent

netVars == <<script, todo, wire, edge>>
bufVars == <<in, inp>>
requestVars == <<cur, header, size, left, memory, file, keep>>
vars == <<netVars, readable, writable, state, bufVars, requestVars, running,
          open, answered>>

HasBody(kind) == kind \in {"post", "chunked", "missing post"}

Request == [kind : Kinds, size : {0} \cup Sizes, keep : BOOLEAN]

\* Sensible requests: a size only where there is a body, and one value of keep
\* where the code does not look at it.
Scripts ==
    LET sensible == {r \in Request : /\ HasBody(r.kind) <=> r.size > 0
                                     /\ r.kind = "refused" => r.keep}
    IN  UNION {[1 .. n -> sensible] : n \in 1 .. Requests}

Piece == [req : Nat, part : {"line", "headers", "data", "end"}]

Body(i, r) == [k \in 1 .. r.size |-> [req |-> i, part |-> "data"]]

Pieces(i, r) ==
    <<[req |-> i, part |-> "line"], [req |-> i, part |-> "headers"]>>
      \o Body(i, r)
      \o (IF r.kind = "chunked" THEN <<[req |-> i, part |-> "end"]>> ELSE <<>>)

\* What the client sends from its i-th request on.
StreamFrom(s, i) ==
    LET from[n \in 1 .. (Len(s) + 1)] ==
            IF n > Len(s) THEN <<>> ELSE Pieces(n, s[n]) \o from[n + 1]
    IN  from[i]

Stream(s) == StreamFrom(s, 1)

Reading == {"BEGIN_REQUEST", "READING_HEADERS", "READING_BODY", "READING_CHUNKED_BODY"}
Sending == {"SENDING_TWO_BUFFERS", "SENDING_HEADERS", "SENDING_BODY",
            "SENDING_BACKEND_HEADERS", "SENDING_BACKEND_BODY"}
States == Reading \cup Sending \cup
            {"PROCESSING_REQUEST", "PREPARING_HTTP_REQUEST", "WAITING_FOR_BACKEND",
             "PREPARING_ERROR_PAGE", "REQUEST_COMPLETED", "UNDEFINED"}

TypeOK ==
    /\ script \in Seq(Request)
    /\ todo \in Seq(Piece) /\ wire \in Seq(Piece)
    /\ edge \in BOOLEAN /\ readable \in BOOLEAN /\ writable \in BOOLEAN
    /\ state \in States
    /\ in \in Seq(Piece) /\ inp \in 0 .. Len(in)
    /\ cur \in {None} \cup (0 .. Requests)
    /\ header \in Nat /\ size \in Nat /\ left \in Nat
    /\ memory \in BOOLEAN
    /\ file \in Seq(Piece) \cup {None}
    /\ keep \in BOOLEAN /\ running \in BOOLEAN /\ open \in BOOLEAN
    /\ answered \in Seq(0 .. Requests)

\* A slot as accept finds it.
Init ==
    /\ script \in Scripts
    /\ todo = Stream(script)
    /\ wire = <<>> /\ edge = FALSE
    /\ readable = FALSE /\ writable = FALSE
    /\ state = "BEGIN_REQUEST"
    /\ in = <<>> /\ inp = 0
    /\ cur = None
    /\ header = 0 /\ size = 0 /\ left = 0
    /\ memory = FALSE /\ file = None /\ keep = FALSE
    /\ running = FALSE /\ open = TRUE
    /\ answered = <<>>

----------------------------------------------------------------------------
(* The client, epoll and the alarm.                                        *)

\* What reaches a closed socket is of no interest.
Arrive ==
    /\ open
    /\ todo # <<>>
    /\ \E n \in 1 .. Len(todo) :
          /\ wire' = wire \o SubSeq(todo, 1, n)
          /\ todo' = SubSeq(todo, n + 1, Len(todo))
    /\ edge' = TRUE
    /\ UNCHANGED <<script, readable, writable, state, bufVars, requestVars,
                   running, open, answered>>

\* on_event: what has arrived since the last report, maybe room to write too.
ReadEvent ==
    /\ open /\ ~running
    /\ edge
    /\ edge' = FALSE
    /\ readable' = TRUE
    /\ writable' \in {writable, TRUE}
    /\ running' = TRUE
    /\ UNCHANGED <<script, todo, wire, state, bufVars, requestVars, open, answered>>

\* on_event: nothing but room to write.
WriteEvent ==
    /\ open /\ ~running
    /\ ~edge /\ ~writable
    /\ writable' = TRUE
    /\ running' = TRUE
    /\ UNCHANGED <<netVars, readable, state, bufVars, requestVars, open, answered>>

\* http_connection::free, remove
Closed ==
    /\ open' = FALSE
    /\ running' = FALSE
    /\ state' = "BEGIN_REQUEST"
    /\ in' = <<>> /\ inp' = 0
    /\ readable' = FALSE /\ writable' = FALSE
    /\ cur' = None /\ file' = None /\ keep' = FALSE
    /\ UNCHANGED <<netVars, header, size, left, memory>>

\* The alarm drops the connection.
TimeOut ==
    /\ open /\ ~running
    /\ Closed
    /\ UNCHANGED answered

----------------------------------------------------------------------------
(* http_connection::loop                                                   *)

In(s) == open /\ running /\ state = s

\* The pieces one read returns; fewer than were asked for, or none, and
\* the descriptor is not readable any more.
Got == SubSeq(wire, 1, IF Len(wire) < ReadSize THEN Len(wire) ELSE ReadSize)

Read ==
    /\ readable
    /\ wire' = SubSeq(wire, Len(Got) + 1, Len(wire))
    /\ readable' = (Len(Got) = ReadSize)
    /\ UNCHANGED <<script, todo, edge, writable>>

NoRead == UNCHANGED <<netVars, readable, writable>>

\* The same without a look at what is left in the buffer.
WaitIfNotReadable ==
    \/ state \in Reading /\ ~readable
    \/ state \in Sending /\ ~writable
    \/ state = "WAITING_FOR_BACKEND"

\* The states in which the loop returns true.
MustWait ==
    \/ state \in Reading /\ ~readable /\ (state = "BEGIN_REQUEST" => inp = Len(in))
    \/ state \in Sending /\ ~writable
    \/ state = "WAITING_FOR_BACKEND"

Return ==
    /\ open /\ running
    /\ MustWait
    /\ running' = FALSE
    /\ UNCHANGED <<netVars, readable, writable, state, bufVars, requestVars,
                   open, answered>>

\* A read or a write fails, or the client has closed the connection.
IoFails ==
    /\ open /\ running
    /\ (state \in Reading /\ readable) \/ (state \in Sending /\ writable)
    /\ Closed
    /\ UNCHANGED answered

\* parse_headers, from the place p of the buffer b.
ParseHeaders(b, p) ==
    /\ in' = b
    /\ IF p < Len(b) /\ b[p + 1].part = "headers"
       THEN /\ inp' = p + 1
            /\ header' = p + 1
            /\ state' = "PROCESSING_REQUEST"
       ELSE /\ inp' = p
            /\ state' = "READING_HEADERS"
            /\ UNCHANGED header

\* parse_request_line and parse_headers.
ParseRequest(b) ==
    IF inp = Len(b)
    THEN in' = b /\ UNCHANGED <<inp, state, cur, header>>
    ELSE IF b[inp + 1].part = "line"
    THEN cur' = b[inp + 1].req /\ ParseHeaders(b, inp + 1)
    ELSE /\ in' = b
         /\ cur' = 0
         /\ state' = "PREPARING_ERROR_PAGE"
         /\ UNCHANGED <<inp, header>>

\* read_request_line: a buffer that still has something is parsed first.
BeginRequest ==
    /\ In("BEGIN_REQUEST") /\ ~MustWait
    /\ IF inp = Len(in) THEN Read /\ ParseRequest(in \o Got)
       ELSE NoRead /\ ParseRequest(in)
    /\ UNCHANGED <<size, left, memory, file, keep, running, open, answered>>

ReadHeaders ==
    /\ In("READING_HEADERS")
    /\ Read
    /\ ParseHeaders(in \o Got, inp)
    /\ UNCHANGED <<cur, size, left, memory, file, keep, running, open, answered>>

----------------------------------------------------------------------------
(* process_request                                                         *)

Kind == IF cur \in DOMAIN script THEN script[cur].kind ELSE "none"

\* A file, or a page of its own, is sent to the client.
ProcessLocal ==
    /\ In("PROCESSING_REQUEST") /\ Kind = "local"
    /\ keep' = script[cur].keep
    /\ state' \in {"SENDING_HEADERS", "SENDING_TWO_BUFFERS", "PREPARING_ERROR_PAGE"}
    /\ NoRead
    /\ UNCHANGED <<bufVars, cur, header, size, left, memory, file, running, open,
                   answered>>

\* not_found: the host or the file does not exist.
ProcessMissing ==
    /\ In("PROCESSING_REQUEST") /\ Kind \in {"missing", "missing post"}
    /\ keep' = script[cur].keep
    /\ state' = "PREPARING_ERROR_PAGE"
    /\ NoRead
    /\ UNCHANGED <<bufVars, cur, header, size, left, memory, file, running, open,
                   answered>>

\* The other errors leave _M_keep_alive at 0.
ProcessRefused ==
    /\ In("PROCESSING_REQUEST") /\ Kind = "refused"
    /\ state' = "PREPARING_ERROR_PAGE"
    /\ NoRead
    /\ UNCHANGED <<bufVars, requestVars, running, open, answered>>

----------------------------------------------------------------------------
(* process_non_local_handler, read_body, read_chunked_body                 *)

ProcessForward ==
    /\ In("PROCESSING_REQUEST") /\ Kind = "forward"
    /\ size' = 0
    /\ memory' = TRUE
    /\ state' = "PREPARING_HTTP_REQUEST"
    /\ NoRead
    /\ UNCHANGED <<bufVars, cur, header, left, file, keep, running, open, answered>>

\* What the buffer has beyond the headers.
Rest == SubSeq(in, header + 1, Len(in))

\* All of the payload is in the buffer already.
ProcessPostWhole ==
    /\ In("PROCESSING_REQUEST") /\ Kind = "post"
    /\ size' = script[cur].size
    /\ header + size' <= Len(in)
    /\ memory' = TRUE
    /\ inp' = inp + size'
    /\ state' = "PREPARING_HTTP_REQUEST"
    /\ NoRead
    /\ UNCHANGED <<in, cur, header, left, file, keep, running, open, answered>>

\* The payload on disk begins with what the next read returns.
SpillLoses ==
    /\ In("PROCESSING_REQUEST") /\ Kind = "post"
    /\ size' = script[cur].size
    /\ header + size' > Len(in)
    /\ left' = size' - Len(Rest)
    /\ memory' = (size' <= MaxMemory)
    /\ IF memory' THEN inp' = inp + Len(Rest) /\ UNCHANGED <<in, file>>
       ELSE file' = <<>> /\ in' = <<>> /\ inp' = 0
    /\ state' = "READING_BODY"
    /\ NoRead
    /\ UNCHANGED <<cur, header, keep, running, open, answered>>

\* The rest of it has to be read, into memory or into a file.
ProcessPostPart ==
    /\ In("PROCESSING_REQUEST") /\ Kind = "post"
    /\ size' = script[cur].size
    /\ header + size' > Len(in)
    /\ left' = size' - Len(Rest)
    /\ memory' = (size' <= MaxMemory)
    /\ IF memory' THEN inp' = inp + Len(Rest) /\ UNCHANGED <<in, file>>
       ELSE file' = Rest /\ in' = <<>> /\ inp' = 0
    /\ state' = "READING_BODY"
    /\ NoRead
    /\ UNCHANGED <<cur, header, keep, running, open, answered>>

ReadBody ==
    /\ In("READING_BODY")
    /\ Read
    /\ LET b == in \o Got
           count == IF left < Len(b) - inp THEN left ELSE Len(b) - inp
       IN  /\ file' = IF memory THEN file ELSE file \o SubSeq(b, 1, count)
           /\ IF count = left
              THEN /\ in' = b /\ inp' = inp + count
                   /\ state' = "PREPARING_HTTP_REQUEST"
                   /\ UNCHANGED left
              ELSE /\ left' = left - count
                   /\ IF memory THEN in' = b /\ inp' = inp + count
                      ELSE in' = <<>> /\ UNCHANGED inp
                   /\ UNCHANGED state
    /\ UNCHANGED <<cur, header, size, memory, keep, running, open, answered>>

\* parse_chunk: whether the last chunk is among some pieces, and the data
\* that comes before it (see the module ChunkedParser).
HasEnd(s) == \E k \in DOMAIN s : s[k].part = "end"

FirstBody(s) ==
    SubSeq(s, 1, Cardinality({k \in DOMAIN s : \A e \in 1 .. k : s[e].part # "end"}))

\* Some of a chunked body has come with the headers.
ProcessChunked ==
    /\ In("PROCESSING_REQUEST") /\ Kind = "chunked"
    /\ Rest # <<>>
    /\ header <= Len(in)
    /\ size' = Len(FirstBody(Rest))
    /\ file' = FirstBody(Rest)
    /\ memory' = FALSE
    /\ IF HasEnd(Rest)
       THEN /\ inp' = inp + Len(FirstBody(Rest)) + 1
            /\ state' = "PREPARING_HTTP_REQUEST"
            /\ UNCHANGED in
       ELSE /\ in' = <<>> /\ inp' = 0
            /\ state' = "READING_CHUNKED_BODY"
    /\ NoRead
    /\ UNCHANGED <<cur, header, left, keep, running, open, answered>>

\* None of it has: the buffer is emptied, but the state is not changed.
ProcessChunkedEmpty ==
    /\ In("PROCESSING_REQUEST") /\ Kind = "chunked"
    /\ header = Len(in)
    /\ size' = 0
    /\ file' = <<>>
    /\ memory' = FALSE
    /\ in' = <<>> /\ inp' = 0
    /\ NoRead
    /\ UNCHANGED <<state, cur, header, left, keep, running, open, answered>>

\* process_request is run once more on the empty buffer, and _M_in.count()
\* less the size of the headers is not a length: what parse_chunk finds beyond
\* the buffer is undefined, and nothing is said of what follows.
ProcessChunkedAgain ==
    /\ In("PROCESSING_REQUEST") /\ Kind = "chunked"
    /\ header > Len(in)
    /\ state' = "UNDEFINED"
    /\ NoRead
    /\ UNCHANGED <<bufVars, requestVars, running, open, answered>>

ReadChunkedBody ==
    /\ In("READING_CHUNKED_BODY")
    /\ Read
    /\ LET b == in \o Got
       IN  /\ size' = size + Len(FirstBody(b))
           /\ file' = file \o FirstBody(b)
           /\ IF HasEnd(b)
              THEN /\ in' = b /\ inp' = inp + Len(FirstBody(b)) + 1
                   /\ state' = "PREPARING_HTTP_REQUEST"
              ELSE in' = <<>> /\ UNCHANGED <<inp, state>>
    /\ UNCHANGED <<cur, header, left, memory, keep, running, open, answered>>

\* The temporary file cannot be opened or written.
FileFails ==
    /\ \/ /\ In("PROCESSING_REQUEST") /\ Kind \in {"post", "chunked"}
          /\ Kind = "post" => /\ header + script[cur].size > Len(in)
                              /\ script[cur].size > MaxMemory
          /\ header <= Len(in)
          /\ file' \in {None, <<>>}
          /\ memory' = FALSE
          /\ NoRead /\ UNCHANGED in
       \/ /\ In("READING_BODY") \/ In("READING_CHUNKED_BODY")
          /\ ~memory
          /\ wire # <<>> /\ Read /\ in' = in \o Got
          /\ UNCHANGED <<file, memory>>
    /\ state' = "PREPARING_ERROR_PAGE"
    /\ UNCHANGED <<inp, cur, header, size, left, keep, running, open, answered>>

----------------------------------------------------------------------------
(* The backend's part, of which the modules EventLoop and Backends say more*)

\* prepare_http_request: whether a backend has been found or not.
PrepareHttpRequest ==
    /\ In("PREPARING_HTTP_REQUEST")
    /\ keep' = script[cur].keep
    /\ state' = "WAITING_FOR_BACKEND"
    /\ NoRead
    /\ UNCHANGED <<bufVars, cur, header, size, left, memory, file, running, open,
                   answered>>

\* proxy_connection::loop: the payload's file is given back once it has been
\* sent, and the answer is in memory or in a file of its own; or there is an
\* error page, also before the payload has been sent.
BackendAnswers ==
    /\ open /\ ~running /\ state = "WAITING_FOR_BACKEND"
    /\ \/ memory' = TRUE /\ file' \in {None, file}
       \/ memory' = FALSE /\ file' = <<>>
    /\ state' = "SENDING_BACKEND_HEADERS"
    /\ running' = TRUE
    /\ NoRead
    /\ UNCHANGED <<bufVars, cur, header, size, left, keep, open, answered>>

----------------------------------------------------------------------------
(* The answer.                                                             *)

PrepareErrorPage ==
    /\ In("PREPARING_ERROR_PAGE")
    /\ state' \in {"SENDING_HEADERS", "SENDING_TWO_BUFFERS"}
    /\ NoRead
    /\ UNCHANGED <<bufVars, requestVars, running, open, answered>>

\* Where a state of sending leads to.
AfterSending ==
    CASE state = "SENDING_HEADERS" /\ Kind = "local" ->
             {"SENDING_BODY", "REQUEST_COMPLETED"}
      [] state = "SENDING_BACKEND_HEADERS" /\ ~memory -> {"SENDING_BACKEND_BODY"}
      [] OTHER -> {"REQUEST_COMPLETED"}

\* The socket's buffer is full before all of it has been written.
SendSome ==
    /\ open /\ running /\ state \in Sending
    /\ writable
    /\ writable' = FALSE
    /\ UNCHANGED <<netVars, readable, state, bufVars, requestVars, running, open,
                   answered>>

SendRest ==
    /\ open /\ running /\ state \in Sending
    /\ writable
    /\ state' \in AfterSending
    /\ UNCHANGED <<netVars, readable, writable, bufVars, requestVars, running, open,
                   answered>>

\* What is left in the buffer is not moved to its beginning.
CompletesInPlace ==
    /\ In("REQUEST_COMPLETED")
    /\ answered' = Append(answered, cur)
    /\ IF keep
       THEN /\ state' = "BEGIN_REQUEST"
            /\ inp' = 0 /\ UNCHANGED in
            /\ cur' = None /\ file' = None /\ keep' = FALSE
            /\ NoRead
            /\ UNCHANGED <<header, size, left, memory, running, open>>
       ELSE Closed

\* reset() does not give the temporary file back.
CompletesWithFile ==
    /\ In("REQUEST_COMPLETED")
    /\ answered' = Append(answered, cur)
    /\ IF keep
       THEN /\ state' = "BEGIN_REQUEST"
            /\ in' = SubSeq(in, inp + 1, Len(in)) /\ inp' = 0
            /\ cur' = None /\ keep' = FALSE
            /\ NoRead
            /\ UNCHANGED <<header, size, left, memory, file, running, open>>
       ELSE Closed

\* _M_keep_alive is not looked at.
CompletesAlways ==
    /\ In("REQUEST_COMPLETED")
    /\ answered' = Append(answered, cur)
    /\ state' = "BEGIN_REQUEST"
    /\ in' = SubSeq(in, inp + 1, Len(in)) /\ inp' = 0
    /\ cur' = None /\ file' = None /\ keep' = FALSE
    /\ NoRead
    /\ UNCHANGED <<header, size, left, memory, running, open>>

\* REQUEST_COMPLETED_STATE: close, or reset() and start with what is left in
\* the buffer.
Complete ==
    /\ In("REQUEST_COMPLETED")
    /\ answered' = Append(answered, cur)
    /\ IF keep
       THEN /\ state' = "BEGIN_REQUEST"
            /\ in' = SubSeq(in, inp + 1, Len(in)) /\ inp' = 0
            /\ cur' = None /\ file' = None /\ keep' = FALSE
            /\ NoRead
            /\ UNCHANGED <<header, size, left, memory, running, open>>
       ELSE Closed

----------------------------------------------------------------------------

\* The loop, once it has been called.
Loop ==
    \/ Return
    \/ BeginRequest \/ ReadHeaders \/ ReadBody \/ ReadChunkedBody
    \/ ProcessLocal \/ ProcessMissing \/ ProcessRefused \/ ProcessForward
    \/ ProcessPostWhole \/ ProcessPostPart
    \/ ProcessChunked \/ ProcessChunkedEmpty \/ ProcessChunkedAgain
    \/ FileFails
    \/ PrepareHttpRequest \/ PrepareErrorPage
    \/ SendSome \/ SendRest
    \/ Complete

Next == Loop \/ IoFails \/ Arrive \/ ReadEvent \/ WriteEvent \/ BackendAnswers \/ TimeOut

Spec == Init /\ [][Next]_vars

\* The loop is code of the only thread; epoll reports what has happened; a
\* client goes on reading, and every write takes something off an answer of
\* finite size, so that one of them is the last (SendRest); a client that
\* waits for a backend gets an answer or is dropped by the alarm.  Nothing
\* else is certain: not even that the rest of a request arrives.
FairSpec ==
    /\ Spec
    /\ WF_vars(Loop)
    /\ WF_vars(ReadEvent)
    /\ WF_vars(WriteEvent)
    /\ SF_vars(SendRest)
    /\ WF_vars(BackendAnswers \/ (state = "WAITING_FOR_BACKEND" /\ TimeOut))

----------------------------------------------------------------------------
(***************************************************************************)
(* README.md:19 names "Pipelining" as a feature: wherever reads have cut   *)
(* what the client sends, each request is parsed from its first byte, in   *)
(* the order of sending, and no piece of a body is taken for a request.    *)
(***************************************************************************)
Framed == cur \in {None, Len(answered) + 1}

Payload == IF memory THEN SubSeq(in, header + 1, header + size) ELSE file

(***************************************************************************)
(* What a backend is sent as the payload, from memory or from the file, is *)
(* the body of the request, all of it and in order, for as long as the     *)
(* client waits; and no temporary file stays on loan to a connection       *)
(* between requests, or to one that is closed.                             *)
(***************************************************************************)
PayloadIntact ==
    /\ state \in {"PREPARING_HTTP_REQUEST", "WAITING_FOR_BACKEND"} =>
          Payload = Body(cur, script[cur]) /\ size = script[cur].size
    /\ state = "BEGIN_REQUEST" => file = None

(***************************************************************************)
(* process_request is run on a request that is in the input buffer.        *)
(***************************************************************************)
ProcessesWhatItHas == state = "PROCESSING_REQUEST" => header <= Len(in)

(***************************************************************************)
(* The connection implements the pipeline: answers in order, one for each  *)
(* request, and none after one that closes the connection.                 *)
(***************************************************************************)
Outstanding(s) == {s[k].req : k \in {k \in DOMAIN s : s[k].part = "headers"}}

Received == Len(script) - Cardinality(Outstanding(todo) \cup Outstanding(wire))

Final == {i \in DOMAIN script : ~script[i].keep \/ script[i].kind = "refused"}

Abs == INSTANCE Pipeline WITH final <- Final, received <- Received

AnswersInOrder == Abs!Spec

(***************************************************************************)
(* No request is forgotten, neither in the buffer nor in the socket, though*)
(* epoll reports each arrival only once: when all of it has arrived, it is *)
(* answered, or the connection is closed.                                  *)
(***************************************************************************)
Arrived(i) == i \in DOMAIN script /\ \A k \in DOMAIN todo : todo[k].req # i

NoneForgotten ==
    \A i \in 1 .. Requests :
        Arrived(i) ~> ~open \/ state = "UNDEFINED" \/ i <= Len(answered)
=============================================================================
