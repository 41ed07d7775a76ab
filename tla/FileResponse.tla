----------------------------- MODULE FileResponse -----------------------------
(***************************************************************************)
(* The response that carries a file, whole or in ranges                    *)
(* (http/http_connection.cpp): what process_request prepares once it has   *)
(* the ranges, and the states of loop that send it, however the socket     *)
(* takes it and whoever calls loop again: an event, or once the ready list *)
(* (http/http_server.cpp).                                                 *)
(*                                                                         *)
(* A text is known by what it is and by its length, and what has been sent *)
(* is a sequence of stretches: of a text, or of the file.                  *)
(***************************************************************************)
EXTENDS Integers, Sequences, SequencesExt

CONSTANTS FileSizes,    \* sizes of files
          MaxRanges,    \* bound on the ranges of a request
          HeadersLen,   \* length of the status line and the headers
          TypeLen,      \* _M_typelen
          BoundaryLen   \* BOUNDARY_WIDTH

ASSUME FileResponseAssumption ==
    /\ FileSizes \subseteq Nat
    /\ {MaxRanges, TypeLen, BoundaryLen} \subseteq Nat
    /\ HeadersLen \in Nat \ {0}

VARIABLES method,     \* _M_method
          st_size,    \* of the file
          ranges,     \* _M_ranges
          announced,  \* the Content-Length header
          filesize,   \* _M_filesize
          state,      \* _M_state
          out,        \* _M_out: the text [what, len]
          outp,       \* _M_outp
          nrange,     \* _M_nrange, from 1
          writable,   \* _M_writable
          flag,       \* _M_in_ready_list
          queued,     \* in _M_ready_list
          loop,       \* "entered", "running" or "returned"
          caller,     \* who has called it: "event" or "list"
          cut,        \* history: this call has been interrupted
          sent        \* what the client has been sent

responseVars == <<method, st_size, ranges, announced, filesize, state, out, outp, nrange,
                  writable, flag, queued, loop, caller, cut, sent>>

call == <<queued, caller>>

request == <<method, st_size, ranges, announced>>

\* number::length: it stops when the next power of ten does not fit in 64 bits.
DigitsOf(n) == CHOOSE d \in 1 .. 18 : /\ d = 18 \/ n < 10 ^ d
                                      /\ \A e \in 1 .. (d - 1) : ~ (n < 10 ^ e)

\* build_part_header, which writes _M_filesize after the slash.
PartHeaderLen(range, all) ==
    (4 + BoundaryLen) + (2 + 14 + TypeLen) + (2 + 21)
      + DigitsOf(range.from) + 1 + DigitsOf(range.to) + 1 + DigitsOf(all) + 4

FooterLen == 4 + BoundaryLen + 4

Sum(lengths) ==
    LET upTo[k \in 0 .. Len(lengths)] == IF k = 0 THEN 0 ELSE upTo[k - 1] + lengths[k]
    IN  upTo[Len(lengths)]

RangeLen(range) == range.to - range.from + 1

\* compute_content_length counts the footer with each part.
FooterInEachPart(s, rs) ==
    CASE Len(rs) = 0 -> s
      [] Len(rs) = 1 -> rs[1].to - rs[1].from
      [] OTHER -> Sum([i \in 1 .. Len(rs) |-> PartHeaderLen(rs[i], s) + RangeLen(rs[i]) + FooterLen])

ContentLength(s, rs) ==
    CASE Len(rs) = 0 -> s
      [] Len(rs) = 1 -> RangeLen(rs[1])
      [] OTHER -> Sum([i \in 1 .. Len(rs) |-> PartHeaderLen(rs[i], s) + RangeLen(rs[i])]) + FooterLen

RangesOf(s) == {r \in [from : 0 .. (s - 1), to : 0 .. (s - 1)] : r.from <= r.to}

\* The ranges of a HEAD request are not looked at.
ResponseInit ==
    /\ method \in {"GET", "HEAD"}
    /\ st_size \in FileSizes
    /\ ranges \in IF method = "HEAD" THEN {<<>>}
                  ELSE UNION {[1 .. n -> RangesOf(st_size)] : n \in 0 .. MaxRanges}
    /\ announced = ContentLength(st_size, ranges)
    /\ filesize = IF method = "HEAD" THEN 0 ELSE announced
    /\ state = "SENDING_HEADERS"
    /\ out = [what |-> <<"headers", 1>>,
              len  |-> HeadersLen + IF Len(ranges) > 1 THEN PartHeaderLen(ranges[1], announced) ELSE 0]
    /\ outp = 0 /\ nrange = 1 /\ writable = TRUE
    /\ flag = FALSE /\ queued = FALSE
    /\ loop = "running" /\ caller \in {"event", "list"} /\ cut = FALSE
    /\ sent = <<>>

\* The stretch of what from a up to b follows what has been sent.
Send(what, a, b) ==
    IF sent # <<>> /\ Last(sent).what = what /\ Last(sent).to = a
    THEN [sent EXCEPT ![Len(sent)].to = b]
    ELSE Append(sent, [what |-> what, from |-> a, to |-> b])

\* The socket takes all, all but one, or the half of what it is given.
Takes(n) == {n, n - 1, (n + 1) \div 2} \ {0}

\* write and sendfile: an error that passes (EAGAIN, EINTR), or some of what is
\* left.  The limit _M_max_write is 0, which is none.
Blocks ==
    /\ writable' = FALSE
    /\ UNCHANGED <<outp, flag, cut, sent>>

Interrupted ==
    /\ flag' = TRUE /\ cut' = TRUE
    /\ UNCHANGED <<outp, writable, sent>>

Sends(what, left) ==
    /\ \E n \in Takes(left) :
          /\ sent' = Send(what, outp, outp + n)
          /\ outp' = outp + n
          /\ writable' = (n = left)
    /\ UNCHANGED <<flag, cut>>

\* loop begins with a round, and goes on while the connection is not marked
\* for the ready list.
HasRound == loop = "entered" \/ (loop = "running" /\ ~flag)

----------------------------------------------------------------------------
(* The states of loop.  What is left to do when a text or a range has been *)
(* sent is done in the same round.                                         *)

\* SENDING_HEADERS_STATE: the file begins where its first range does.
HeadersSent ==
    /\ state = "SENDING_HEADERS"
    /\ IF method = "HEAD" \/ filesize = 0
       THEN state' = "REQUEST_COMPLETED" /\ outp' = out.len
       ELSE state' = "SENDING_BODY" /\ outp' = IF ranges = <<>> THEN 0 ELSE ranges[1].from
    /\ UNCHANGED <<out, nrange>>

\* SENDING_PART_HEADER_STATE: the part is sent from the file's beginning.
RestartsTheFile ==
    /\ state = "SENDING_PART_HEADER"
    /\ state' = "SENDING_BODY" /\ outp' = 0
    /\ UNCHANGED <<out, nrange>>

PartHeaderSent ==
    /\ state = "SENDING_PART_HEADER"
    /\ state' = "SENDING_BODY" /\ outp' = ranges[nrange].from
    /\ UNCHANGED <<out, nrange>>

FooterSent ==
    /\ state = "SENDING_MULTIPART_FOOTER"
    /\ state' = "REQUEST_COMPLETED" /\ outp' = out.len
    /\ UNCHANGED <<out, nrange>>

\* SENDING_BODY_STATE: the file, its only range, or one of its ranges.
BodySent ==
    /\ state = "SENDING_BODY"
    /\ IF Len(ranges) < 2
       THEN state' = "REQUEST_COMPLETED" /\ UNCHANGED <<out, outp, nrange>>
       ELSE /\ nrange' = nrange + 1 /\ outp' = 0
            /\ IF nrange = Len(ranges)
               THEN /\ out' = [what |-> <<"footer", nrange>>, len |-> FooterLen]
                    /\ state' = "SENDING_MULTIPART_FOOTER"
               ELSE /\ out' = [what |-> <<"part", nrange + 1>>,
                               len  |-> PartHeaderLen(ranges[nrange + 1], filesize)]
                    /\ state' = "SENDING_PART_HEADER"

\* Where the text or the range that is being sent ends.
EndOfStretch ==
    IF state # "SENDING_BODY" THEN out.len
    ELSE IF ranges = <<>> THEN filesize ELSE ranges[nrange].to + 1

What == IF state = "SENDING_BODY" THEN <<"file", 0>> ELSE out.what

\* A round of loop that sends.
Write ==
    /\ state # "REQUEST_COMPLETED" /\ outp < EndOfStretch
    /\ HasRound /\ writable
    /\ loop' = "running"
    /\ Blocks \/ Interrupted \/ Sends(What, EndOfStretch - outp)
    /\ UNCHANGED <<request, filesize, state, out, nrange, call>>

\* What the same round does once everything has gone.
Finish ==
    /\ state # "REQUEST_COMPLETED" /\ outp = EndOfStretch
    /\ loop = "running"
    /\ HeadersSent \/ PartHeaderSent \/ FooterSent \/ BodySent
    /\ UNCHANGED <<request, filesize, writable, flag, loop, call, cut, sent>>

----------------------------------------------------------------------------
(* Who calls loop.  Only on_event puts a connection that is marked into    *)
(* the ready list; process_ready_list does not put it there again.         *)

MustReturn ==
    /\ state # "REQUEST_COMPLETED" /\ outp < EndOfStretch
    /\ loop # "returned" /\ (~HasRound \/ ~writable)

\* The connection is marked and is not put into the list.
ForgetsToQueue ==
    /\ MustReturn
    /\ loop' = "returned"
    /\ UNCHANGED <<request, filesize, state, out, outp, nrange, writable, flag, call, cut, sent>>

Returns ==
    /\ MustReturn
    /\ loop' = "returned"
    /\ queued' = (flag /\ caller = "event")
    /\ UNCHANGED <<request, filesize, state, out, outp, nrange, writable, flag, caller, cut, sent>>

Calls(who) ==
    /\ loop = "returned" /\ loop' = "entered"
    /\ caller' = who /\ queued' = FALSE /\ cut' = FALSE
    /\ UNCHANGED <<request, filesize, state, out, outp, nrange, sent>>

\* The mark stays, and with it every call is one round.
KeepsTheMark == queued /\ Calls("list") /\ UNCHANGED <<flag, writable>>

TakeReady == queued /\ Calls("list") /\ flag' = FALSE /\ UNCHANGED writable

\* The list is gone through before the events are waited for.  An event that
\* says "writable" comes only to a connection that was not.
WriteEvent == ~queued /\ ~writable /\ Calls("event") /\ writable' = TRUE /\ UNCHANGED flag

\* The client has sent something, which is not read in these states.
ReadEvent == ~queued /\ Calls("event") /\ UNCHANGED <<flag, writable>>

ResponseNext == Write \/ Finish \/ Returns \/ TakeReady \/ WriteEvent \/ ReadEvent

(***************************************************************************)
(* The only thread goes on.  A client that goes on reading: the socket is  *)
(* writable again, and of the attempts to send infinitely many find it so. *)
(* The events for what it sends do not keep that one away.                 *)
(***************************************************************************)
ResponseFairness ==
    /\ WF_responseVars(Write) /\ WF_responseVars(Finish)
    /\ WF_responseVars(Returns) /\ WF_responseVars(TakeReady)
    /\ SF_responseVars(WriteEvent) /\ SF_responseVars(Write /\ sent' # sent)

ResponseSpec == ResponseInit /\ [][ResponseNext]_responseVars /\ ResponseFairness

----------------------------------------------------------------------------
Text(what, len) == [what |-> what, from |-> 0, to |-> len]

Stretch(from, to) == [what |-> <<"file", 0>>, from |-> from, to |-> to]

\* What a response consists of: the headers, and behind them the file, its range
\* or its ranges.  Of several ranges each has a part header in front of it, the
\* first one in the same text as the headers, and a footer ends them.
Pieces ==
    IF method = "HEAD" \/ st_size = 0 THEN 1 ELSE IF Len(ranges) < 2 THEN 2 ELSE 2 * Len(ranges) + 1

TextOf(i) ==
    CASE i = 1 -> Text(<<"headers", 1>>,
                       HeadersLen + IF Len(ranges) > 1 THEN PartHeaderLen(ranges[1], announced) ELSE 0)
      [] i \in 2 .. Len(ranges) -> Text(<<"part", i>>, PartHeaderLen(ranges[i], announced))
      [] OTHER -> Text(<<"footer", Len(ranges)>>, FooterLen)

FileOf(i) == IF ranges = <<>> THEN Stretch(0, st_size) ELSE Stretch(ranges[i].from, ranges[i].to + 1)

Response == [k \in 1 .. Pieces |-> IF k % 2 = 1 THEN TextOf((k + 1) \div 2) ELSE FileOf(k \div 2)]

(***************************************************************************)
(* However the socket takes it, the client is sent the headers, each range *)
(* of the file in the order it was asked for, with its part header in      *)
(* front of it, and the footer: nothing twice, nothing out of place, and   *)
(* all of it before the request counts as completed.                       *)
(***************************************************************************)
PartsInOrder ==
    /\ sent # <<>> =>
          /\ Len(sent) <= Len(Response)
          /\ Front(sent) = SubSeq(Response, 1, Len(sent) - 1)
          /\ LET a == Last(sent)  b == Response[Len(sent)]
             IN  a.what = b.what /\ a.from = b.from /\ a.to <= b.to
    /\ state = "REQUEST_COMPLETED" => sent = Response

SentLen == Sum([i \in 1 .. Len(sent) |-> sent[i].to - sent[i].from])

(***************************************************************************)
(* What is sent after the headers is as long as Content-Length has said,   *)
(* or the client of a connection that is kept alive takes the next response*)
(* for the rest of this one: for the whole file and for one range.         *)
(***************************************************************************)
AnnouncedForOne ==
    state = "REQUEST_COMPLETED" /\ Len(ranges) < 2 /\ method = "GET" =>
        SentLen = HeadersLen + announced

(***************************************************************************)
(* The same for the parts of several ranges.                               *)
(***************************************************************************)
AnnouncedIsSent ==
    state = "REQUEST_COMPLETED" /\ method = "GET" => SentLen = HeadersLen + announced

(***************************************************************************)
(* By how much: compute_content_length counts in each part header the      *)
(* digits of the file's size, and build_part_header writes those of the    *)
(* length of all the parts.                                                *)
(***************************************************************************)
ShortByTheDigits ==
    state = "REQUEST_COMPLETED" /\ method = "GET" /\ Len(ranges) > 1 =>
        SentLen + Len(ranges) * DigitsOf(st_size) = HeadersLen + announced + Len(ranges) * DigitsOf(announced)

(***************************************************************************)
(* Both: where the announcement is wrong, and that it is nowhere else.     *)
(***************************************************************************)
AnnouncedAsCounted == AnnouncedForOne /\ ShortByTheDigits

\* The call from the ready list has been interrupted: the connection is marked and
\* not in the list, and writable, so that no event is due.
LeftAlone == loop = "returned" /\ caller = "list" /\ cut

(***************************************************************************)
(* A client that goes on reading is sent all of its response, with one     *)
(* exception: a connection that is interrupted once more when the ready    *)
(* list calls it is called by nobody, unless the client sends something,   *)
(* and stays as it is until the alarm drops it.  A single interruption, a  *)
(* full socket or a mark from an earlier call delays the response only.    *)
(***************************************************************************)
Completes == <>(state = "REQUEST_COMPLETED") \/ <>[]LeftAlone
=============================================================================
