----------------------- MODULE BackendConnection_proofs -----------------------
(***************************************************************************)
(* Whatever the bounds on the response, the payload, the reads and the     *)
(* memory: the temporary files of an exchange are settled, and a backend   *)
(* connection implements the exchange.  The files come first; then, after  *)
(* lemmas on the parts of a sequence and on what a response is made of,    *)
(* the invariant that says at each state which part of the response has    *)
(* come and where it is, with a lemma for each action; and the refinement. *)
(***************************************************************************)
EXTENDS BackendConnection, SequenceTheorems, TLAPS

\* The states in which the client's own file is gone.
Sent == Reading \cup {"PROCESSING_RESPONSE", "RESPONSE_COMPLETED"}

(***************************************************************************)
(* FilesSettled with what it rests on: whose the files can be, and that the*)
(* request has been sent, and the client's file given back, in every state *)
(* from which RESPONSE_COMPLETED can be reached.                           *)
(***************************************************************************)
SettledInv ==
    /\ file \in {"response", None}
    /\ theirs \in {"payload", "response", None}
    /\ open => theirs # "response"
    /\ open /\ state \in Sent => theirs = None
    /\ FilesSettled

(***************************************************************************)
(* Nothing is on loan to begin with but the client's payload.              *)
(***************************************************************************)
LEMMA SettledInit == Init => SettledInv
  BY BackendConnectionAssumption
     DEF Init, SettledInv, FilesSettled, Sent, Reading

(***************************************************************************)
(* A slot that is freed gives its file back.                               *)
(***************************************************************************)
LEMMA SettledFreed ==
    ASSUME SettledInv, Freed, UNCHANGED <<state, theirs>>
    PROVE  SettledInv'
  BY BackendConnectionAssumption DEF SettledInv, FilesSettled, Freed

(***************************************************************************)
(* A slot that opens its file, or keeps what it has, while it stays open.  *)
(***************************************************************************)
LEMMA SettledOpened ==
    ASSUME SettledInv, open, open',
           Opened \/ UNCHANGED <<file, lent>>,
           UNCHANGED theirs,
           state' \in Sent => state \in Sent
    PROVE  SettledInv'
  BY BackendConnectionAssumption DEF SettledInv, FilesSettled, Opened

(***************************************************************************)
(* Every step of the loop, of the backend and of the alarm keeps the files *)
(* settled.                                                                *)
(***************************************************************************)
LEMMA SettledNext == SettledInv /\ [Next]_vars => SettledInv'
<1> SUFFICES ASSUME SettledInv, [Next]_vars PROVE SettledInv'
  OBVIOUS
<1> USE DEF vars, netVars, flagVars, sendVars, readVars, clientVars, fileVars, In
<1>1. CASE Return
  BY <1>1, SettledOpened DEF Return
<1>2. CASE Connect
  BY <1>2, SettledOpened DEF Connect, Sent, Reading
<1>3. CASE SendSome
  BY <1>3, SettledOpened DEF SendSome, Write
<1>4. CASE SendRest
  <2>1. open /\ open'
    BY <1>4 DEF SendRest, Write
  <2>2. CASE theirs' = None /\ lent' = lent \ {theirs} /\ file' = file
    BY <2>1, <2>2, BackendConnectionAssumption DEF SettledInv, FilesSettled
  <2>3. CASE UNCHANGED <<file, lent, theirs>> /\ state' = "SENDING_BODY"
    BY <2>1, <2>3, SettledOpened DEF Sent, Reading
  <2>4. QED
    BY <1>4, <2>2, <2>3 DEF SendRest
<1>5. CASE WriteFails
  BY <1>5, SettledOpened DEF WriteFails, Sent, Reading
<1>6. CASE ReadHeaders
  BY <1>6, SettledOpened DEF ReadHeaders, ParseHeaders, Read, Sent, Reading
<1>7. CASE ReadFails
  BY <1>7, SettledOpened DEF ReadFails, Sent, Reading
<1>8. CASE ProcessInMemory
  BY <1>8, SettledOpened DEF ProcessInMemory, Sent
<1>9. CASE ProcessToFile
  BY <1>9, SettledOpened DEF ProcessToFile, Sent
<1>10. CASE ProcessRefused
  BY <1>10, SettledOpened DEF ProcessRefused, Sent
<1>11. CASE ReadBody
  BY <1>11, SettledOpened DEF ReadBody, Read, Sent, Reading
<1>12. CASE ReadChunkedBody
  BY <1>12, SettledOpened DEF ReadChunkedBody, Read, Sent, Reading
<1>13. CASE ReadUnknownSizeBody
  BY <1>13, SettledOpened DEF ReadUnknownSizeBody, Read
<1>14. CASE ReadRecords
  <2>1. Opened \/ UNCHANGED <<file, lent>>
    BY <1>14 DEF ReadRecords, TakeOutput
  <2>2. QED
    BY <1>14, <2>1, SettledOpened DEF ReadRecords, Read, Sent, Reading
<1>15. CASE FileFails
  BY <1>15, SettledOpened DEF FileFails, Sent, Reading
<1>16. CASE PrepareErrorPage
  BY <1>16, SettledFreed DEF PrepareErrorPage
<1>17. CASE ResponseCompleted
  BY <1>17, BackendConnectionAssumption
     DEF ResponseCompleted, SettledInv, FilesSettled, Sent
<1>18. CASE Arrive
  BY <1>18, SettledOpened DEF Arrive
<1>19. CASE BackendCloses
  BY <1>19, SettledOpened DEF BackendCloses
<1>20. CASE Event
  BY <1>20, SettledOpened DEF Event
<1>21. CASE TimeOut
  BY <1>21, SettledFreed DEF TimeOut
<1>22. CASE AlarmCompletes
  BY <1>22, SettledOpened DEF AlarmCompletes, Sent, Reading
<1>23. CASE UNCHANGED vars
  BY <1>23 DEF SettledInv, FilesSettled
<1>24. QED
  BY <1>1, <1>2, <1>3, <1>4, <1>5, <1>6, <1>7, <1>8, <1>9, <1>10, <1>11, <1>12,
     <1>13, <1>14, <1>15, <1>16, <1>17, <1>18, <1>19, <1>20, <1>21, <1>22, <1>23
     DEF Next, Loop

(***************************************************************************)
(* proxy_connection and fcgi_connection always leave each temporary file   *)
(* with exactly one owner or give it back.                                 *)
(***************************************************************************)
THEOREM FilesAlwaysSettled == Spec => []FilesSettled
<1>1. SettledInv => FilesSettled
  BY DEF SettledInv
<1>2. QED
  BY SettledInit, SettledNext, <1>1, PTL DEF Spec

----------------------------------------------------------------------------
(***************************************************************************)
(* The parts of a sequence.                                                *)
(***************************************************************************)

\* What comes after the first a elements, up to the first b.
Part(s, a, b) == SubSeq(s, a + 1, b)

(***************************************************************************)
(* The length of a part, and what is in it.                                *)
(***************************************************************************)
LEMMA PartIs ==
    ASSUME NEW T, NEW s \in Seq(T), NEW a \in Nat, NEW b \in Nat, a <= b, b <= Len(s)
    PROVE  /\ Part(s, a, b) \in Seq(T)
           /\ Len(Part(s, a, b)) = b - a
           /\ \A i \in 1 .. b - a : Part(s, a, b)[i] = s[a + i]
<1>1. \A i \in a + 1 .. b : s[i] \in T
  BY LenProperties
<1>2. a + 1 \in Int /\ b \in Int
  OBVIOUS
<1>3. /\ SubSeq(s, a + 1, b) \in Seq(T)
      /\ Len(SubSeq(s, a + 1, b)) = IF a + 1 <= b THEN b - (a + 1) + 1 ELSE 0
      /\ \A i \in 1 .. b - (a + 1) + 1 : SubSeq(s, a + 1, b)[i] = s[(a + 1) + i - 1]
  BY <1>1, <1>2, SubSeqProperties
<1> HIDE DEF Part
<1>4. /\ Part(s, a, b) \in Seq(T)
      /\ Len(Part(s, a, b)) = b - a
  BY <1>3 DEF Part
<1>5. ASSUME NEW i \in 1 .. b - a PROVE Part(s, a, b)[i] = s[a + i]
  <2>1. i \in 1 .. b - (a + 1) + 1 /\ (a + 1) + i - 1 = a + i
    OBVIOUS
  <2>2. Part(s, a, b)[i] = s[(a + 1) + i - 1]
    BY <1>3, <2>1 DEF Part
  <2>3. QED
    BY <2>1, <2>2
<1>6. QED
  BY <1>4, <1>5

(***************************************************************************)
(* A part of a part.                                                       *)
(***************************************************************************)
LEMMA PartOfPart ==
    ASSUME NEW T, NEW s \in Seq(T), NEW a \in Nat, NEW b \in Nat, a <= b, b <= Len(s),
           NEW c \in Nat, NEW d \in Nat, c <= d, a + d <= b
    PROVE  Part(Part(s, a, b), c, d) = Part(s, a + c, a + d)
<1> DEFINE p == Part(s, a, b)
           q == Part(p, c, d)
           r == Part(s, a + c, a + d)
<1>1. p \in Seq(T) /\ Len(p) = b - a /\ \A i \in 1 .. b - a : p[i] = s[a + i]
  BY PartIs
<1> HIDE DEF p
<1>2. p \in Seq(T) /\ c \in Nat /\ d \in Nat /\ c <= d /\ d <= Len(p)
  BY <1>1
<1>3. q \in Seq(T) /\ Len(q) = d - c /\ \A i \in 1 .. d - c : q[i] = p[c + i]
  BY ONLY <1>2, PartIs, ZenonT(40)
<1>4. /\ s \in Seq(T) /\ a + c \in Nat /\ a + d \in Nat
      /\ a + c <= a + d /\ a + d <= Len(s)
  OBVIOUS
<1>5. /\ r \in Seq(T) /\ Len(r) = (a + d) - (a + c)
      /\ \A i \in 1 .. (a + d) - (a + c) : r[i] = s[(a + c) + i]
  BY ONLY <1>4, PartIs, ZenonT(40)
<1> HIDE DEF q, r
<1>6. ASSUME NEW i \in 1 .. Len(q) PROVE q[i] = r[i]
  <2>1. q[i] = p[c + i] /\ c + i \in 1 .. b - a
    BY <1>3
  <2>2. p[c + i] = s[a + (c + i)]
    BY <1>1, <2>1
  <2>3. r[i] = s[(a + c) + i] /\ (a + c) + i = a + (c + i)
    BY <1>3, <1>5
  <2>4. QED
    BY <2>1, <2>2, <2>3
<1>7. Len(q) = Len(r)
  BY <1>3, <1>5
<1>8. q = r
  BY <1>3, <1>5, <1>6, <1>7, SeqEqual
<1>9. QED
  BY <1>8 DEF p, q, r

(***************************************************************************)
(* Two parts, one of which follows the other.                              *)
(***************************************************************************)
LEMMA PartsJoined ==
    ASSUME NEW T, NEW s \in Seq(T), NEW a \in Nat, NEW b \in Nat, NEW c \in Nat,
           a <= b, b <= c, c <= Len(s)
    PROVE  Part(s, a, b) \o Part(s, b, c) = Part(s, a, c)
<1> DEFINE p == Part(s, a, b)
           q == Part(s, b, c)
           r == Part(s, a, c)
           j == p \o q
<1>0. /\ s \in Seq(T) /\ Len(s) \in Nat /\ a \in Nat /\ b \in Nat /\ c \in Nat
      /\ a <= b /\ b <= c /\ a <= c /\ b <= Len(s) /\ c <= Len(s)
  BY LenProperties
<1>1. p \in Seq(T) /\ Len(p) = b - a /\ \A i \in 1 .. b - a : p[i] = s[a + i]
  BY ONLY <1>0, PartIs, ZenonT(40)
<1>2. q \in Seq(T) /\ Len(q) = c - b /\ \A i \in 1 .. c - b : q[i] = s[b + i]
  BY ONLY <1>0, PartIs, ZenonT(40)
<1>3. r \in Seq(T) /\ Len(r) = c - a /\ \A i \in 1 .. c - a : r[i] = s[a + i]
  BY ONLY <1>0, PartIs, ZenonT(40)
<1> HIDE DEF p, q, r
<1>4. /\ j \in Seq(T) /\ Len(j) = Len(p) + Len(q)
      /\ \A i \in 1 .. Len(p) + Len(q) :
            j[i] = IF i <= Len(p) THEN p[i] ELSE q[i - Len(p)]
  BY <1>1, <1>2, ConcatProperties
<1> HIDE DEF j
<1>5. ASSUME NEW i \in 1 .. Len(j) PROVE j[i] = r[i]
  <2>1. i \in 1 .. c - a /\ i \in 1 .. Len(p) + Len(q)
    BY <1>1, <1>2, <1>4
  <2>2. r[i] = s[a + i]
    BY <1>3, <2>1
  <2>3. CASE i <= b - a
    <3>1. j[i] = p[i] /\ i \in 1 .. b - a
      BY <1>1, <1>4, <2>1, <2>3
    <3>2. QED
      BY <1>1, <2>2, <3>1
  <2>4. CASE i > b - a
    <3>1. j[i] = q[i - (b - a)] /\ i - (b - a) \in 1 .. c - b
      BY <1>1, <1>4, <2>1, <2>4
    <3>2. q[i - (b - a)] = s[b + (i - (b - a))]
      BY <1>2, <3>1
    <3>3. b + (i - (b - a)) = a + i
      BY <2>1
    <3>4. QED
      BY <2>2, <3>1, <3>2, <3>3
  <2>5. QED
    BY <2>1, <2>3, <2>4
<1>6. Len(j) = Len(r)
  BY <1>1, <1>2, <1>3, <1>4
<1>7. j = r
  BY <1>3, <1>4, <1>5, <1>6, SeqEqual
<1>8. QED
  BY <1>7 DEF j, p, q, r

(***************************************************************************)
(* All of a sequence.                                                      *)
(***************************************************************************)
LEMMA PartAll ==
    ASSUME NEW T, NEW s \in Seq(T)
    PROVE  Part(s, 0, Len(s)) = s
<1> DEFINE p == Part(s, 0, Len(s))
<1>1. Len(s) \in Nat /\ 0 \in Nat /\ 0 <= Len(s) /\ Len(s) <= Len(s)
  BY LenProperties
<1>2. /\ p \in Seq(T) /\ Len(p) = Len(s) - 0
      /\ \A i \in 1 .. Len(s) - 0 : p[i] = s[0 + i]
  BY <1>1, PartIs
<1> HIDE DEF p
<1>3. Len(p) = Len(s) /\ \A i \in 1 .. Len(p) : p[i] = s[i]
  BY <1>1, <1>2
<1>4. p = s
  BY <1>2, <1>3, SeqEqual
<1>5. QED
  BY <1>4 DEF p

(***************************************************************************)
(* Nothing of it.                                                          *)
(***************************************************************************)
LEMMA PartNone ==
    ASSUME NEW s, NEW a \in Nat
    PROVE  Part(s, a, a) = <<>>
  BY SubSeqEmpty, a + 1 \in Int, a \in Int, a < a + 1 DEF Part

----------------------------------------------------------------------------
(***************************************************************************)
(* The response and its pieces.                                            *)
(***************************************************************************)

Pieces == Stream(resp)

\* The output of an application.
Full(n) == Header \o Data(n)

(***************************************************************************)
(* The pieces of a kind are numbered.                                      *)
(***************************************************************************)
LEMMA OfIs ==
    ASSUME NEW part \in {"header", "data", "end", "record", "fin"}, NEW n \in Nat
    PROVE  /\ Of(part, n) \in Seq(Piece)
           /\ Len(Of(part, n)) = n
           /\ \A k \in 1 .. n : Of(part, n)[k] = [part |-> part, n |-> k]
<1>1. \A k \in 1 .. n : [part |-> part, n |-> k] \in Piece
  BY DEF Piece
<1>2. QED
  BY <1>1 DEF Of

(***************************************************************************)
(* What a response can be.                                                 *)
(***************************************************************************)
LEMMA ResponseIs ==
    ASSUME resp \in Responses
    PROVE  /\ resp.kind \in AllKinds
           /\ resp.size \in Nat
           /\ ~IsFcgi => resp.data \in Nat
           /\ resp.kind = "length" => resp.data = resp.size \/ resp.data = resp.size + 1
           /\ resp.kind \in {"chunked", "close"} => resp.data = resp.size
           /\ resp.kind \in {"empty", "refused"} => resp.size = 0
           /\ IsFcgi => resp.records \in Records(2 + resp.size)
<1>1. CASE resp \in HttpResponses /\ Sensible(resp)
  <2>1. resp.kind \in AllKinds /\ resp.size \in Nat /\ resp.data \in Nat /\ ~IsFcgi
    BY <1>1, BackendConnectionAssumption DEF HttpResponses, IsFcgi
  <2>2. resp.kind = "length" => resp.data \in {resp.size, resp.size + 1}
    BY <1>1 DEF Sensible
  <2>3. resp.kind \in {"chunked", "close"} => resp.data = resp.size
    BY <1>1 DEF Sensible
  <2>4. resp.kind \in {"empty", "refused"} => resp.size = 0
    BY <1>1 DEF Sensible
  <2>5. QED
    BY <2>1, <2>2, <2>3, <2>4
<1>2. CASE ~(resp \in HttpResponses /\ Sensible(resp))
  <2>1. Len(Header) = 2
    BY OfIs DEF Header
  <2>2. /\ "fcgi" \in Kinds
        /\ resp \in [kind : {"fcgi"}, size : {Size}, data : {Size}, records : Records(2 + Size)]
    BY <1>2, <2>1 DEF Responses
  <2>3. /\ resp.kind = "fcgi" /\ resp.size = Size /\ resp.records \in Records(2 + Size)
        /\ resp.data = Size
    BY <2>2
  <2>4. QED
    BY <2>2, <2>3, BackendConnectionAssumption DEF AllKinds, IsFcgi
<1>3. QED
  BY <1>1, <1>2

(***************************************************************************)
(* The output an application has sent with each record never becomes less. *)
(***************************************************************************)
LEMMA RecordsAre ==
    ASSUME NEW n \in Nat, NEW r \in Records(n)
    PROVE  /\ r \in Seq(0 .. n)
           /\ Len(r) \in Nat /\ Len(r) > 0
           /\ r[Len(r)] = n
           /\ \A i, j \in 1 .. Len(r) : i <= j => r[i] <= r[j]
<1>1. PICK k \in 1 .. MaxRecords : r \in [1 .. k -> 0 .. n]
  BY DEF Records
<1>2. k \in Nat /\ k > 0
  BY <1>1, BackendConnectionAssumption
<1>3. r \in Seq(0 .. n) /\ Len(r) = k /\ DOMAIN r = 1 .. k
  BY <1>1, <1>2
<1>4. r[Len(r)] = n /\ \A i, j \in DOMAIN r : i <= j => r[i] <= r[j]
  BY DEF Records
<1>5. QED
  BY <1>2, <1>3, <1>4

(***************************************************************************)
(* The headers and what follows them.                                      *)
(***************************************************************************)
LEMMA FullIs ==
    ASSUME NEW n \in Nat
    PROVE  /\ Full(n) \in Seq(Piece)
           /\ Len(Full(n)) = 2 + n
           /\ \A k \in 1 .. 2 + n : Full(n)[k].part # "end"
           /\ \A k \in 1 .. n : Full(n)[2 + k] = [part |-> "data", n |-> k]
<1> DEFINE h == Of("header", 2)
           d == Of("data", n)
           f == h \o d
<1>1. h \in Seq(Piece) /\ Len(h) = 2 /\ \A k \in 1 .. 2 : h[k] = [part |-> "header", n |-> k]
  BY OfIs
<1>2. d \in Seq(Piece) /\ Len(d) = n /\ \A k \in 1 .. n : d[k] = [part |-> "data", n |-> k]
  BY OfIs
<1> HIDE DEF h, d
<1>3. /\ f \in Seq(Piece)
      /\ Len(f) = Len(h) + Len(d)
      /\ \A i \in 1 .. Len(h) + Len(d) : f[i] = IF i <= Len(h) THEN h[i] ELSE d[i - Len(h)]
  <2>1. h \in Seq(Piece) /\ d \in Seq(Piece)
    BY <1>1, <1>2
  <2>2. QED
    BY ONLY <2>1, ConcatProperties, ZenonT(40)
<1> HIDE DEF f
<1>4. ASSUME NEW k \in 1 .. n PROVE f[2 + k] = [part |-> "data", n |-> k]
  <2>1. 2 + k \in 1 .. Len(h) + Len(d) /\ ~(2 + k <= Len(h)) /\ (2 + k) - Len(h) = k
    BY <1>1, <1>2
  <2>2. f[2 + k] = d[(2 + k) - Len(h)]
    BY <1>3, <2>1
  <2>3. QED
    BY <1>2, <2>1, <2>2
<1>5. ASSUME NEW k \in 1 .. 2 + n PROVE f[k].part # "end"
  <2>1. CASE k <= 2
    <3>1. k \in 1 .. 2 /\ k \in 1 .. Len(h) + Len(d) /\ k <= Len(h)
      BY <1>1, <1>2, <2>1
    <3>2. f[k] = [part |-> "header", n |-> k]
      BY <1>1, <1>3, <3>1
    <3>3. QED
      BY <3>2
  <2>2. CASE k > 2
    <3>1. k - 2 \in 1 .. n /\ 2 + (k - 2) = k
      BY <2>2
    <3>2. f[k] = [part |-> "data", n |-> k - 2]
      BY <1>4, <3>1
    <3>3. QED
      BY <3>2
  <2>3. QED
    BY <2>1, <2>2
<1>6. f = Full(n)
  BY DEF f, h, d, Full, Header, Data
<1>7. f \in Seq(Piece) /\ Len(f) = 2 + n
  BY <1>1, <1>2, <1>3
<1>8. QED
  BY <1>4, <1>5, <1>6, <1>7

(***************************************************************************)
(* What follows the headers is the data from the first on.                 *)
(***************************************************************************)
LEMMA DataIs ==
    ASSUME NEW n \in Nat, NEW k \in Nat, k <= n, NEW s \in Seq(Piece), 2 + n <= Len(s),
           \A i \in 1 .. n : s[2 + i] = [part |-> "data", n |-> i]
    PROVE  Part(s, 2, 2 + k) = Data(k)
<1> DEFINE two == 2
           p == Part(s, two, two + k)
           d == Of("data", k)
<1>0. two = 2
  OBVIOUS
<1> HIDE DEF two
<1>1. /\ s \in Seq(Piece) /\ two \in Nat /\ two + k \in Nat
      /\ two <= two + k /\ two + k <= Len(s)
  BY <1>0, LenProperties
<1>2. /\ p \in Seq(Piece) /\ Len(p) = (two + k) - two
      /\ \A i \in 1 .. (two + k) - two : p[i] = s[two + i]
  BY ONLY <1>1, PartIs, ZenonT(40)
<1>3. d \in Seq(Piece) /\ Len(d) = k /\ \A i \in 1 .. k : d[i] = [part |-> "data", n |-> i]
  BY OfIs
<1> HIDE DEF p, d
<1>4. Len(p) = k /\ Len(p) = Len(d)
  BY <1>0, <1>2, <1>3
<1>5. ASSUME NEW i \in 1 .. Len(p) PROVE p[i] = d[i]
  <2>1. i \in 1 .. (two + k) - two /\ i \in 1 .. k
    BY <1>0, <1>4
  <2>2. p[i] = s[2 + i] /\ d[i] = [part |-> "data", n |-> i]
    BY <1>0, <1>2, <1>3, <2>1
  <2>3. i \in 1 .. n
    BY <2>1
  <2>4. QED
    BY <2>2, <2>3
<1>6. p = d
  BY <1>2, <1>3, <1>4, <1>5, SeqEqual
<1>7. QED
  BY <1>0, <1>6 DEF p, d, Data

(***************************************************************************)
(* The pieces of a response over HTTP: the last chunk comes last, and what *)
(* comes between it and the headers is the data.                           *)
(***************************************************************************)
LEMMA StreamIs ==
    ASSUME resp \in Responses, ~IsFcgi
    PROVE  /\ Pieces \in Seq(Piece)
           /\ Len(Pieces) = IF resp.kind = "chunked" THEN 3 + resp.data ELSE 2 + resp.data
           /\ \A k \in 1 .. 2 + resp.data : Pieces[k].part # "end"
           /\ resp.kind = "chunked" => Pieces[Len(Pieces)].part = "end"
           /\ \A k \in 0 .. resp.data : Part(Pieces, 2, 2 + k) = Data(k)
<1> DEFINE n == resp.data
           f == Full(n)
           e == Of("end", 1)
           s == Pieces
<1>1. n \in Nat
  BY ResponseIs
<1> HIDE DEF n
<1>2. /\ f \in Seq(Piece) /\ Len(f) = 2 + n
      /\ \A k \in 1 .. 2 + n : f[k].part # "end"
      /\ \A k \in 1 .. n : f[2 + k] = [part |-> "data", n |-> k]
  BY <1>1, FullIs
<1>3. e \in Seq(Piece) /\ Len(e) = 1 /\ e[1] = [part |-> "end", n |-> 1]
  <2>1. e \in Seq(Piece) /\ Len(e) = 1 /\ \A k \in 1 .. 1 : e[k] = [part |-> "end", n |-> k]
    BY ONLY OfIs, 1 \in Nat
  <2>2. QED
    BY <2>1
<1>4. s = IF resp.kind = "chunked" THEN f \o e ELSE f
  BY DEF Pieces, Stream, Full, IsFcgi, n
<1> HIDE DEF f, e, s
<1>5. /\ s \in Seq(Piece)
      /\ Len(s) = IF resp.kind = "chunked" THEN 3 + n ELSE 2 + n
      /\ \A k \in 1 .. 2 + n : s[k] = f[k]
      /\ resp.kind = "chunked" => s[3 + n].part = "end"
  <2>1. CASE resp.kind = "chunked"
    <3>1. /\ s \in Seq(Piece) /\ Len(s) = Len(f) + Len(e)
          /\ \A i \in 1 .. Len(f) + Len(e) : s[i] = IF i <= Len(f) THEN f[i] ELSE e[i - Len(f)]
      <4>1. f \in Seq(Piece) /\ e \in Seq(Piece) /\ s = f \o e
        BY <1>2, <1>3, <1>4, <2>1
      <4>2. QED
        BY ONLY <4>1, ConcatProperties, ZenonT(40)
    <3>2. Len(s) = 3 + n /\ \A k \in 1 .. 2 + n : s[k] = f[k]
      BY <1>1, <1>2, <1>3, <3>1
    <3>3. 3 + n \in 1 .. Len(f) + Len(e) /\ ~(3 + n <= Len(f)) /\ (3 + n) - Len(f) = 1
      BY <1>1, <1>2, <1>3
    <3>4. s[3 + n] = e[(3 + n) - Len(f)]
      BY <3>1, <3>3
    <3>5. s[3 + n].part = "end"
      BY <1>3, <3>3, <3>4
    <3>6. QED
      BY <2>1, <3>1, <3>2, <3>5
  <2>2. CASE resp.kind # "chunked"
    BY <1>2, <1>4, <2>2
  <2>3. QED
    BY <2>1, <2>2
<1>6. \A k \in 1 .. 2 + n : s[k].part # "end"
  BY <1>2, <1>5
<1>7. ASSUME NEW k \in 0 .. n PROVE Part(s, 2, 2 + k) = Data(k)
  <2>1. \A i \in 1 .. n : s[2 + i] = [part |-> "data", n |-> i]
    <3>1. ASSUME NEW i \in 1 .. n PROVE s[2 + i] = [part |-> "data", n |-> i]
      <4>1. 2 + i \in 1 .. 2 + n
        BY <1>1
      <4>2. QED
        BY <1>2, <1>5, <4>1
    <3>2. QED
      BY <3>1
  <2>2. n \in Nat /\ k \in Nat /\ k <= n /\ s \in Seq(Piece) /\ 2 + n <= Len(s)
    BY <1>1, <1>5
  <2>3. QED
    BY ONLY <2>1, <2>2, DataIs
<1>8. resp.kind = "chunked" => s[Len(s)].part = "end"
  BY <1>5
<1>9. QED
  BY <1>5, <1>6, <1>7, <1>8 DEF s, n

(***************************************************************************)
(* The pieces of an application's response are the halves of its records.  *)
(***************************************************************************)
LEMMA HalvesAre ==
    ASSUME resp \in Responses, IsFcgi
    PROVE  /\ Pieces \in Seq(Piece)
           /\ Len(Pieces) = 2 * (Len(resp.records) + 1)
           /\ \A k \in 1 .. Len(Pieces) : Pieces[k].n = k
<1> DEFINE all == 2 * (Len(resp.records) + 1)
           e == Of("record", all)
<1>1. all \in Nat
  BY ResponseIs, RecordsAre, 2 + resp.size \in Nat
<1>2. Pieces = e
  BY DEF Pieces, Stream, IsFcgi
<1> HIDE DEF all
<1>3. /\ e \in Seq(Piece) /\ Len(e) = all
      /\ \A k \in 1 .. all : e[k] = [part |-> "record", n |-> k]
  BY <1>1, OfIs
<1> HIDE DEF e
<1>4. ASSUME NEW k \in 1 .. Len(e) PROVE e[k].n = k
  <2>1. e[k] = [part |-> "record", n |-> k]
    BY <1>3
  <2>2. QED
    BY <2>1
<1>5. QED
  BY <1>2, <1>3, <1>4 DEF all

(***************************************************************************)
(* The end of a part, if it has one: that of the response.                 *)
(***************************************************************************)
LEMMA EndIs ==
    ASSUME resp \in Responses, ~IsFcgi,
           NEW a \in Nat, NEW b \in Nat, a <= b, b <= Len(Pieces), a <= 2 + resp.data
    PROVE  /\ HasEnd(Part(Pieces, a, b)) <=> b = 3 + resp.data
           /\ DataOf(Part(Pieces, a, b))
                = Part(Pieces, a, IF b = 3 + resp.data THEN 2 + resp.data ELSE b)
<1> DEFINE p == Part(Pieces, a, b)
           n == resp.data
<1>1. n \in Nat
  BY ResponseIs
<1>2. /\ Pieces \in Seq(Piece)
      /\ Len(Pieces) = IF resp.kind = "chunked" THEN 3 + n ELSE 2 + n
      /\ \A k \in 1 .. 2 + n : Pieces[k].part # "end"
      /\ resp.kind = "chunked" => Pieces[Len(Pieces)].part = "end"
  BY StreamIs
<1> HIDE DEF n
<1>3. p \in Seq(Piece) /\ Len(p) = b - a /\ \A i \in 1 .. b - a : p[i] = Pieces[a + i]
  BY <1>2, PartIs
<1> HIDE DEF p
<1>4. DOMAIN p = 1 .. b - a
  BY <1>3
<1>5. CASE b = 3 + n
  <2>1. b - a \in 1 .. b - a /\ a + (b - a) = b /\ b = Len(Pieces) /\ resp.kind = "chunked"
    <3>1. resp.kind = "chunked" /\ Len(Pieces) = 3 + n
      BY <1>1, <1>2, <1>5
    <3>2. b - a > 0
      BY <1>1, <1>5 DEF n
    <3>3. QED
      BY <1>5, <3>1, <3>2
  <2>2. p[b - a].part = "end"
    BY <1>2, <1>3, <2>1
  <2>3. HasEnd(p)
    BY <1>4, <2>1, <2>2 DEF HasEnd
  <2>4. DataOf(p) = Part(p, 0, (b - a) - 1)
    BY <1>3, <2>3 DEF DataOf, Part
  <2>5. Part(p, 0, (b - a) - 1) = Part(Pieces, a, 2 + n)
    <3>1. /\ (b - a) - 1 \in Nat /\ 0 \in Nat /\ 0 <= (b - a) - 1
          /\ a + ((b - a) - 1) <= b /\ a + ((b - a) - 1) = 2 + n /\ a + 0 = a
      BY <1>1, <1>5 DEF n
    <3>2. Pieces \in Seq(Piece) /\ a \in Nat /\ b \in Nat /\ a <= b /\ b <= Len(Pieces)
      BY <1>2
    <3>3. Part(p, 0, (b - a) - 1) = Part(Pieces, a + 0, a + ((b - a) - 1))
      BY ONLY <3>1, <3>2, PartOfPart DEF p
    <3>4. QED
      BY <3>1, <3>3
  <2>6. QED
    BY <1>5, <2>3, <2>4, <2>5 DEF p, n
<1>6. CASE b # 3 + n
  <2>1. b <= 2 + n
    BY <1>1, <1>2, <1>6
  <2>2. ASSUME NEW i \in 1 .. b - a PROVE p[i].part # "end"
    <3>1. a + i \in 1 .. 2 + n
      BY <1>1, <2>1
    <3>2. QED
      BY <1>2, <1>3, <3>1
  <2>3. ~HasEnd(p)
    BY <1>4, <2>2 DEF HasEnd
  <2>4. QED
    BY <1>6, <2>3 DEF DataOf, p, n
<1>7. QED
  BY <1>5, <1>6

----------------------------------------------------------------------------
(***************************************************************************)
(* What has come of the response.                                          *)
(***************************************************************************)

\* How much of the response has been read from the socket.
Come == Len(Pieces) - Len(todo) - Len(Available)

\* The end of what can be read.
Readable == IF closed THEN Len(wire) - 1 ELSE Len(wire)

\* What has not been read is the rest of the response.
Unread ==
    /\ closed => Len(wire) > 0
    /\ Len(todo) + Len(Available) <= Len(Pieces)
    /\ Available = Part(Pieces, Come, Come + Len(Available))
    /\ todo = Part(Pieces, Come + Len(Available), Len(Pieces))

(***************************************************************************)
(* The pieces are a sequence, and so is what can be read.                  *)
(***************************************************************************)
LEMMA PiecesAre ==
    ASSUME resp \in Responses
    PROVE  Pieces \in Seq(Piece) /\ Len(Pieces) \in Nat
<1>1. Pieces \in Seq(Piece)
  BY StreamIs, HalvesAre
<1>2. QED
  BY <1>1

(***************************************************************************)
(* What can be read is all that is in the socket but the end of file.      *)
(***************************************************************************)
LEMMA AvailableIs ==
    ASSUME wire \in Seq(Piece), closed => Len(wire) > 0
    PROVE  /\ Readable \in Nat /\ Readable <= Len(wire)
           /\ Available \in Seq(Piece) /\ Len(Available) = Readable
           /\ Available = Part(wire, 0, Readable)
<1>1. Readable \in Nat /\ Readable <= Len(wire) /\ 0 \in Nat /\ 0 <= Readable
  BY DEF Readable
<1>2. Available = Part(wire, 0, Readable)
  BY DEF Available, Part, Readable
<1>3. /\ Part(wire, 0, Readable) \in Seq(Piece)
      /\ Len(Part(wire, 0, Readable)) = Readable - 0
  BY <1>1, PartIs
<1>4. QED
  BY <1>1, <1>2, <1>3

(***************************************************************************)
(* A read moves on by what it returns, which is the next part.             *)
(***************************************************************************)
LEMMA ReadIs ==
    ASSUME resp \in Responses, todo \in Seq(Piece), wire \in Seq(Piece), Unread, Read
    PROVE  /\ Come \in Nat /\ Come' \in Nat /\ Come <= Come' /\ Come' <= Len(Pieces)
           /\ Come' = Come + Len(Got)
           /\ Got \in Seq(Piece) /\ Got = Part(Pieces, Come, Come')
           /\ wire' \in Seq(Piece)
           /\ Unread'
<1> DEFINE L == Len(Pieces)
           m == Readable
           c == Come
           g == IF m < ReadSize THEN m ELSE ReadSize
           w == Len(wire)
<1>1. Pieces \in Seq(Piece) /\ L \in Nat
  BY PiecesAre
<1>2. closed => Len(wire) > 0
  BY DEF Unread
<1>3. /\ m \in Nat /\ m <= w /\ w \in Nat
      /\ Available \in Seq(Piece) /\ Len(Available) = m
      /\ Available = Part(wire, 0, m)
  BY <1>2, AvailableIs
<1>4. Len(todo) \in Nat /\ c \in Nat /\ c + m <= L /\ c = L - Len(todo) - m
  BY <1>1, <1>3 DEF Unread, Come
<1>5. Available = Part(Pieces, c, c + m) /\ todo = Part(Pieces, c + m, L)
  BY <1>3 DEF Unread
<1>6. g \in Nat /\ g <= m
  BY <1>3, BackendConnectionAssumption
<1>7. Got = Part(Available, 0, g)
  BY <1>3 DEF Got, Part
<1> HIDE DEF L, m, c, g, w
<1>8. Got = Part(Pieces, c, c + g)
  <2>1. /\ Pieces \in Seq(Piece) /\ c \in Nat /\ c + m \in Nat /\ c <= c + m /\ c + m <= Len(Pieces)
        /\ 0 \in Nat /\ g \in Nat /\ 0 <= g /\ c + g <= c + m /\ c + 0 = c
    BY <1>1, <1>3, <1>4, <1>6 DEF L
  <2>2. Part(Part(Pieces, c, c + m), 0, g) = Part(Pieces, c + 0, c + g)
    BY ONLY <2>1, PartOfPart
  <2>3. QED
    BY <1>5, <1>7, <2>1, <2>2
<1>9. Got \in Seq(Piece) /\ Len(Got) = g
  <2>1. Pieces \in Seq(Piece) /\ c \in Nat /\ c + g \in Nat /\ c <= c + g /\ c + g <= Len(Pieces)
    BY <1>1, <1>3, <1>4, <1>6 DEF L
  <2>2. Part(Pieces, c, c + g) \in Seq(Piece) /\ Len(Part(Pieces, c, c + g)) = (c + g) - c
    BY ONLY <2>1, PartIs, ZenonT(40)
  <2>3. QED
    BY <1>4, <1>6, <1>8, <2>2
<1>10. wire' = Part(wire, g, w) /\ UNCHANGED <<resp, todo, closed>>
  BY <1>9 DEF Read, Part, w
<1>11. wire' \in Seq(Piece) /\ Len(wire') = w - g
  <2>1. wire \in Seq(Piece) /\ g \in Nat /\ w \in Nat /\ g <= w /\ w <= Len(wire)
    BY <1>3, <1>6 DEF w
  <2>2. Part(wire, g, w) \in Seq(Piece) /\ Len(Part(wire, g, w)) = w - g
    BY ONLY <2>1, PartIs, ZenonT(40)
  <2>3. QED
    BY <1>10, <2>2
<1>12. /\ closed' => Len(wire') > 0
       /\ Readable' = m - g
  BY <1>2, <1>3, <1>6, <1>10, <1>11 DEF Readable, m, w
<1>13. Available' = Part(wire', 0, m - g)
  <2>1. Available' = SubSeq(wire', 1, Readable')
    BY DEF Available, Readable
  <2>2. QED
    BY <1>12, <2>1 DEF Part
<1>14. Available' = Part(wire, g, m)
  <2>1. /\ wire \in Seq(Piece) /\ g \in Nat /\ w \in Nat /\ g <= w /\ w <= Len(wire)
        /\ 0 \in Nat /\ m - g \in Nat /\ 0 <= m - g /\ g + (m - g) <= w
        /\ g + 0 = g /\ g + (m - g) = m
    BY <1>3, <1>6 DEF w
  <2>2. Part(Part(wire, g, w), 0, m - g) = Part(wire, g + 0, g + (m - g))
    BY ONLY <2>1, PartOfPart
  <2>3. QED
    BY <1>10, <1>13, <2>1, <2>2
<1>15. Part(wire, g, m) = Part(Available, g, m)
  <2>1. /\ wire \in Seq(Piece) /\ 0 \in Nat /\ m \in Nat /\ 0 <= m /\ m <= Len(wire)
        /\ g \in Nat /\ m \in Nat /\ g <= m /\ 0 + m <= m
        /\ 0 + g = g /\ 0 + m = m
    BY <1>3, <1>6 DEF w
  <2>2. Part(Part(wire, 0, m), g, m) = Part(wire, 0 + g, 0 + m)
    BY ONLY <2>1, PartOfPart
  <2>3. QED
    BY <1>3, <2>1, <2>2
<1>16. Available' = Part(Pieces, c + g, c + m)
  <2>1. /\ Pieces \in Seq(Piece) /\ c \in Nat /\ c + m \in Nat /\ c <= c + m /\ c + m <= Len(Pieces)
        /\ g \in Nat /\ m \in Nat /\ g <= m /\ c + m <= c + m
    BY <1>1, <1>3, <1>4, <1>6 DEF L
  <2>2. Part(Part(Pieces, c, c + m), g, m) = Part(Pieces, c + g, c + m)
    BY ONLY <2>1, PartOfPart
  <2>3. QED
    BY <1>5, <1>14, <1>15, <2>2
<1>17. Len(Available') = m - g
  <2>1. /\ Pieces \in Seq(Piece) /\ c + g \in Nat /\ c + m \in Nat /\ c + g <= c + m
        /\ c + m <= Len(Pieces)
    BY <1>1, <1>3, <1>4, <1>6 DEF L
  <2>2. Len(Part(Pieces, c + g, c + m)) = (c + m) - (c + g)
    BY ONLY <2>1, PartIs, ZenonT(40)
  <2>3. QED
    BY <1>3, <1>4, <1>6, <1>16, <2>2
<1>18. Pieces' = Pieces
  BY <1>10 DEF Pieces
<1>19. Come' = c + g
  <2>1. Come' = L - Len(todo) - (m - g)
    BY <1>10, <1>17, <1>18 DEF Come, L
  <2>2. QED
    BY <1>1, <1>3, <1>4, <1>6, <2>1
<1>20. Unread'
  <2>1. Come' + Len(Available') = c + m
    BY <1>3, <1>4, <1>6, <1>17, <1>19
  <2>2. Available' = Part(Pieces', Come', Come' + Len(Available'))
    BY <1>16, <1>18, <1>19, <2>1
  <2>3. todo' = Part(Pieces', Come' + Len(Available'), Len(Pieces'))
    BY <1>5, <1>10, <1>18, <2>1 DEF L
  <2>4. Len(todo') + Len(Available') <= Len(Pieces')
    BY <1>1, <1>3, <1>4, <1>6, <1>10, <1>17, <1>18 DEF L
  <2>5. QED
    BY <1>12, <2>2, <2>3, <2>4 DEF Unread
<1>21. c + g \in Nat /\ c <= c + g /\ c + g <= L
  BY <1>1, <1>3, <1>4, <1>6
<1>22. c = Come /\ L = Len(Pieces)
  BY DEF c, L
<1>23. QED
  BY <1>4, <1>8, <1>9, <1>11, <1>19, <1>20, <1>21, <1>22

(***************************************************************************)
(* A step that neither reads nor hears of the backend.                     *)
(***************************************************************************)
LEMMA NothingRead ==
    ASSUME Unread, UNCHANGED <<resp, todo, wire, closed>>
    PROVE  Come' = Come /\ Unread'
<1>1. Available' = Available /\ Pieces' = Pieces
  BY DEF Available, Pieces
<1>2. Come' = Come
  BY <1>1 DEF Come
<1>3. QED
  BY <1>1, <1>2 DEF Unread

(***************************************************************************)
(* What arrives follows what is in the socket.                             *)
(***************************************************************************)
LEMMA ArriveKeeps ==
    ASSUME resp \in Responses, todo \in Seq(Piece), wire \in Seq(Piece),
           closed \in BOOLEAN, Unread, Arrive
    PROVE  /\ Come' = Come /\ Unread'
           /\ todo' \in Seq(Piece) /\ wire' \in Seq(Piece)
<1> DEFINE L == Len(Pieces)
           c == Come
           w == Len(wire)
           t == Len(todo)
<1>1. Pieces \in Seq(Piece) /\ L \in Nat /\ t \in Nat /\ w \in Nat
  BY PiecesAre
<1>2. PICK n \in 1 .. t : wire' = wire \o SubSeq(todo, 1, n) /\ todo' = SubSeq(todo, n + 1, t)
  BY DEF Arrive
<1>3. ~closed /\ ~closed' /\ resp' = resp
  BY DEF Arrive
<1>4. Available = Part(wire, 0, w) /\ Part(wire, 0, w) = wire
  <2>1. Part(wire, 0, w) = wire
    BY PartAll
  <2>2. QED
    BY <1>3, <2>1 DEF Available, Part
<1>5. c \in Nat /\ c + w <= L /\ c = L - t - w
  <2>1. Len(Available) = w
    BY <1>4
  <2>2. c = L - t - w /\ t + w <= L
    BY <2>1 DEF Unread, Come
  <2>3. QED
    BY ONLY <1>1, <2>2
<1>6. wire = Part(Pieces, c, c + w) /\ todo = Part(Pieces, c + w, L)
  BY <1>4 DEF Unread
<1>7. n \in Nat /\ n <= t /\ c + w + n <= L
  BY <1>1, <1>2, <1>5
<1>8. L = Len(Pieces)
  OBVIOUS
<1> HIDE DEF L, c, w, t
<1>9. SubSeq(todo, 1, n) = Part(Pieces, c + w, c + w + n)
  <2>1. /\ Pieces \in Seq(Piece) /\ c + w \in Nat /\ L \in Nat /\ c + w <= L /\ L <= Len(Pieces)
        /\ 0 \in Nat /\ n \in Nat /\ 0 <= n /\ (c + w) + n <= L
        /\ (c + w) + 0 = c + w
    BY <1>1, <1>5, <1>7, <1>8
  <2>2. Part(Part(Pieces, c + w, L), 0, n) = Part(Pieces, (c + w) + 0, (c + w) + n)
    BY ONLY <2>1, PartOfPart
  <2>3. SubSeq(todo, 1, n) = Part(todo, 0, n)
    BY DEF Part
  <2>4. QED
    BY <1>6, <2>1, <2>2, <2>3
<1>10. todo' = Part(Pieces, c + w + n, L)
  <2>1. /\ Pieces \in Seq(Piece) /\ c + w \in Nat /\ L \in Nat /\ c + w <= L /\ L <= Len(Pieces)
        /\ n \in Nat /\ t \in Nat /\ n <= t /\ (c + w) + t <= L
        /\ (c + w) + t = L
    BY <1>1, <1>5, <1>7, <1>8
  <2>2. Part(Part(Pieces, c + w, L), n, t) = Part(Pieces, (c + w) + n, (c + w) + t)
    BY ONLY <2>1, PartOfPart
  <2>3. todo' = Part(todo, n, t)
    BY <1>2 DEF Part
  <2>4. QED
    BY <1>6, <2>1, <2>2, <2>3
<1>11. wire' = Part(Pieces, c, c + w + n)
  <2>1. /\ Pieces \in Seq(Piece) /\ c \in Nat /\ c + w \in Nat /\ c + w + n \in Nat
        /\ c <= c + w /\ c + w <= c + w + n /\ c + w + n <= Len(Pieces)
    BY <1>1, <1>5, <1>7, <1>8
  <2>2. Part(Pieces, c, c + w) \o Part(Pieces, c + w, c + w + n) = Part(Pieces, c, c + w + n)
    BY ONLY <2>1, PartsJoined, ZenonT(40)
  <2>3. QED
    BY <1>2, <1>6, <1>9, <2>2
<1>12. todo' \in Seq(Piece) /\ Len(todo') = L - (c + w + n)
  <2>1. /\ Pieces \in Seq(Piece) /\ c + w + n \in Nat /\ L \in Nat
        /\ c + w + n <= L /\ L <= Len(Pieces)
    BY <1>1, <1>5, <1>7, <1>8
  <2>2. /\ Part(Pieces, c + w + n, L) \in Seq(Piece)
        /\ Len(Part(Pieces, c + w + n, L)) = L - (c + w + n)
    BY ONLY <2>1, PartIs, ZenonT(40)
  <2>3. QED
    BY <1>10, <2>2
<1>13. wire' \in Seq(Piece) /\ Len(wire') = w + n
  <2>1. /\ Pieces \in Seq(Piece) /\ c \in Nat /\ c + w + n \in Nat
        /\ c <= c + w + n /\ c + w + n <= Len(Pieces)
    BY <1>1, <1>5, <1>7, <1>8
  <2>2. /\ Part(Pieces, c, c + w + n) \in Seq(Piece)
        /\ Len(Part(Pieces, c, c + w + n)) = (c + w + n) - c
    BY ONLY <2>1, PartIs, ZenonT(40)
  <2>3. QED
    BY <1>1, <1>5, <1>7, <1>11, <2>2
<1>14. Available' = wire'
  <2>1. Available' = Part(wire', 0, Len(wire'))
    BY <1>3 DEF Available, Part
  <2>2. QED
    BY <1>13, <2>1, PartAll
<1>15. Pieces' = Pieces
  BY <1>3 DEF Pieces
<1>16. Come' = c
  <2>1. Come' = L - (L - (c + w + n)) - (w + n)
    BY <1>8, <1>12, <1>13, <1>14, <1>15 DEF Come
  <2>2. QED
    BY <1>1, <1>5, <1>7, <2>1
<1>17. Unread'
  <2>1. Come' + Len(Available') = c + w + n
    BY <1>1, <1>5, <1>7, <1>13, <1>14, <1>16
  <2>2. Available' = Part(Pieces', Come', Come' + Len(Available'))
    BY <1>11, <1>14, <1>15, <1>16, <2>1
  <2>3. todo' = Part(Pieces', Come' + Len(Available'), Len(Pieces'))
    BY <1>8, <1>10, <1>15, <2>1
  <2>4. Len(todo') + Len(Available') <= Len(Pieces')
    BY <1>1, <1>5, <1>7, <1>8, <1>12, <1>13, <1>14, <1>15
  <2>5. QED
    BY <1>3, <2>2, <2>3, <2>4 DEF Unread
<1>18. Come' = Come
  BY <1>16 DEF c
<1>19. QED
  BY <1>12, <1>13, <1>17, <1>18

(***************************************************************************)
(* The end of file is behind what can be read.                             *)
(***************************************************************************)
LEMMA BackendClosesKeeps ==
    ASSUME wire \in Seq(Piece), Unread, BackendCloses
    PROVE  Come' = Come /\ Unread' /\ wire' \in Seq(Piece)
<1> DEFINE f == Of("fin", 1)
           w == Len(wire)
           j == wire \o f
           p == Part(j, 0, w)
<1>1. f \in Seq(Piece) /\ Len(f) = 1
  BY ONLY OfIs, 1 \in Nat
<1>2. w \in Nat
  OBVIOUS
<1> HIDE DEF f
<1>3. /\ j \in Seq(Piece) /\ Len(j) = Len(wire) + Len(f)
      /\ \A i \in 1 .. Len(wire) + Len(f) :
            j[i] = IF i <= Len(wire) THEN wire[i] ELSE f[i - Len(wire)]
  BY <1>1, ConcatProperties
<1> HIDE DEF j
<1>4. /\ p \in Seq(Piece) /\ Len(p) = w - 0 /\ \A i \in 1 .. w - 0 : p[i] = j[0 + i]
  <2>1. j \in Seq(Piece) /\ 0 \in Nat /\ w \in Nat /\ 0 <= w /\ w <= Len(j)
    BY <1>1, <1>2, <1>3
  <2>2. QED
    BY ONLY <2>1, PartIs, ZenonT(40)
<1> HIDE DEF p
<1>5. Len(p) = Len(wire) /\ \A i \in 1 .. Len(p) : p[i] = wire[i]
  BY <1>1, <1>2, <1>3, <1>4
<1>6. p = wire
  BY <1>4, <1>5, SeqEqual
<1>7. wire' = j /\ ~closed /\ closed' /\ UNCHANGED <<resp, todo>>
  BY DEF BackendCloses, j, f
<1>8. Len(j) = w + 1
  BY <1>1, <1>3
<1>9. Available' = p
  <2>1. Available' = SubSeq(j, 1, Len(j) - 1)
    BY <1>7 DEF Available
  <2>2. Len(j) - 1 = w
    BY <1>2, <1>8
  <2>3. QED
    BY <2>1, <2>2 DEF p, Part
<1>10. Available = wire
  <2>1. Available = Part(wire, 0, Len(wire))
    BY <1>7 DEF Available, Part
  <2>2. QED
    BY <2>1, PartAll
<1>11. Available' = Available /\ Pieces' = Pieces
  BY <1>6, <1>7, <1>9, <1>10 DEF Pieces
<1>12. Come' = Come
  BY <1>7, <1>11 DEF Come
<1>13. Len(wire') > 0
  BY <1>2, <1>7, <1>8
<1>14. Unread'
  BY <1>7, <1>11, <1>12, <1>13 DEF Unread
<1>15. QED
  BY <1>3, <1>7, <1>12, <1>14

----------------------------------------------------------------------------
(***************************************************************************)
(* The invariant of the exchange.                                          *)
(***************************************************************************)

\* The piece of the request that the file does not hold.
Begun == IF state = "SENDING_BODY" THEN 1 ELSE 0

\* What has been sent of the request.
Sends ==
    /\ Len(request) > 0
    /\ state = "CONNECTING" => outp = 0 /\ sent = <<>>
    /\ state = "SENDING_BODY" => ~memory
    /\ state \in Sending => outp <= Len(Source) /\ sent = Part(request, 0, Begun + outp)
    /\ state \in Sent => sent = request

NothingYet == Come = 0 /\ body = <<>> /\ inp = 0 /\ out = <<>> /\ file = None

\* All that has been read is in the client's buffer.
Gathered == body = Part(Pieces, 0, Come)

\* The body is gathered behind its headers, or written to a file.
InMemory == memory /\ file = None /\ inp = Come /\ Gathered

ToDisk ==
    /\ ~memory /\ file = "response"
    /\ body = <<>> /\ inp = 0
    /\ Come - 2 <= resp.size
    /\ stored = Data(Come - 2)

\* What the complete records have brought, of which an application's headers
\* are the first two pieces.
Complete == 2 * (Come \div 2)

OutputCome == OutputTo(Complete)

HeadersOf ==
    /\ file = None
    /\ OutputCome < 2
    /\ out = Part(Full(resp.size), 0, OutputCome)

BodyOf ==
    /\ file = "response"
    /\ OutputCome >= 2
    /\ filesize = OutputCome - 2
    /\ stored = Data(filesize)

\* The responses that have a body.
Bodied == {"length", "chunked", "close", "fcgi"}

\* What is to be passed on is the body, or what has come of it.
Passes(passed) ==
    \/ resp.kind \notin Bodied /\ passed = <<>>
    \/ /\ resp.kind \in Bodied
       /\ \E n \in 0 .. resp.size :
             /\ resp.kind # "close" => n = resp.size
             /\ passed = Data(n)

\* What has been read, and where it is, in each state.
Stage ==
    /\ state \in {"CONNECTING", "READING_STATUS_LINE"} \cup Sending => NothingYet
    /\ state = "READING_STATUS_LINE" => ~IsFcgi
    /\ state = "READING_HEADERS" /\ ~IsFcgi => Gathered /\ Come < 2 /\ file = None
    /\ state = "PROCESSING_RESPONSE" =>
          ~IsFcgi /\ Gathered /\ Come >= 2 /\ inp = Come /\ file = None
    /\ state = "READING_BODY" /\ ~IsFcgi =>
          /\ resp.kind = "length" /\ filesize = resp.size
          /\ Come >= 2 /\ left > 0 /\ left + (Come - 2) = resp.size
          /\ InMemory \/ ToDisk
    /\ state = "READING_CHUNKED_BODY" =>
          resp.kind = "chunked" /\ Come >= 2 /\ ToDisk /\ filesize = Come - 2
    /\ state = "READING_UNKNOWN_SIZE_BODY" =>
          resp.kind = "close" /\ Come >= 2 /\ ToDisk /\ filesize = Come - 2
    /\ state \in {"READING_HEADERS", "READING_BODY"} /\ IsFcgi =>
          /\ Come < Len(Pieces)
          /\ body = Part(Pieces, Complete, Come) /\ inp = 0
          /\ IF state = "READING_HEADERS" THEN HeadersOf ELSE BodyOf
    /\ state = "RESPONSE_COMPLETED" => Passes(Passed)

ExchangeInv ==
    /\ TypeOK
    /\ open => answer = None /\ Unread /\ Sends /\ Stage

(***************************************************************************)
(* Nothing has been read or sent to begin with.                            *)
(***************************************************************************)
LEMMA ExchangeInit == Init => ExchangeInv
<1> SUFFICES ASSUME Init PROVE ExchangeInv
  OBVIOUS
<1>1. resp \in Responses /\ todo = Pieces /\ wire = <<>> /\ closed = FALSE
  BY DEF Init, Pieces
<1>2. Pieces \in Seq(Piece) /\ Len(Pieces) \in Nat
  BY <1>1, PiecesAre
<1>3. PICK n \in 0 .. Payload : request = [k \in 1 .. n + 1 |-> k]
  BY DEF Init
<1>4. n \in Nat
  BY <1>3, BackendConnectionAssumption
<1>5. request \in Seq(Nat) /\ Len(request) = n + 1
  BY <1>3, <1>4
<1>6. Available = <<>>
  <2>1. Available = SubSeq(wire, 1, 0)
    BY <1>1 DEF Available
  <2>2. QED
    BY <2>1, SubSeqEmpty
<1>7. Come = 0
  <2>1. Len(<<>>) = 0
    OBVIOUS
  <2>2. Come = Len(Pieces) - Len(Pieces) - 0
    BY <1>1, <1>6, <2>1 DEF Come
  <2>3. QED
    BY <1>2, <2>2
<1>8. Unread
  <2>1. Part(Pieces, 0, 0) = <<>> /\ Part(Pieces, 0, Len(Pieces)) = Pieces
    BY <1>2, PartNone, PartAll
  <2>2. QED
    BY <1>1, <1>2, <1>6, <1>7, <2>1 DEF Unread
<1>9. TypeOK
  <2>1. <<>> \in Seq(Piece) /\ <<>> \in Seq(Nat) /\ Len(<<>>) = 0
    OBVIOUS
  <2>2. /\ state \in States /\ inp \in 0 .. Len(body)
        /\ theirs \in {"payload", "response", None}
        /\ lent \subseteq {"payload", "response"}
    BY <2>1, BackendConnectionAssumption DEF Init, States
  <2>3. QED
    BY <1>1, <1>2, <1>5, <2>1, <2>2 DEF Init, TypeOK
<1>10. Sends
  BY <1>4, <1>5 DEF Init, Sends, Sending, Sent, Reading
<1>11. Stage
  BY <1>7 DEF Init, Stage, NothingYet, Sending
<1>12. QED
  BY <1>8, <1>9, <1>10, <1>11 DEF Init, ExchangeInv

(***************************************************************************)
(* A step that leaves the client and the connection as they are.           *)
(***************************************************************************)
LEMMA ExchangeKept ==
    ASSUME ExchangeInv, open, TypeOK', Unread', Come' = Come,
           UNCHANGED <<resp, request, state, sendVars, readVars, memory, filesize,
                       file, stored, answer>>
    PROVE  ExchangeInv'
<1> USE DEF sendVars, readVars
<1>1. UNCHANGED <<Pieces, IsFcgi, Source, Begun, Complete, OutputCome, Passed>>
  BY DEF Pieces, IsFcgi, Source, Begun, Complete, OutputCome, OutputTo, Passed
<1>2. Sends'
  BY <1>1 DEF ExchangeInv, Sends
<1>3. /\ NothingYet' <=> NothingYet
      /\ Gathered' <=> Gathered
      /\ InMemory' <=> InMemory
      /\ ToDisk' <=> ToDisk
      /\ HeadersOf' <=> HeadersOf
      /\ BodyOf' <=> BodyOf
  BY <1>1 DEF NothingYet, Gathered, InMemory, ToDisk, HeadersOf, BodyOf
<1>4. Passes(Passed) => Passes(Passed)'
  BY <1>1 DEF Passes
<1>5. Stage'
  BY <1>1, <1>3, <1>4 DEF ExchangeInv, Stage
<1>6. QED
  BY <1>2, <1>5 DEF ExchangeInv

(***************************************************************************)
(* A step that gives up.                                                   *)
(***************************************************************************)
LEMMA ExchangeFails ==
    ASSUME ExchangeInv, open, TypeOK', Unread', UNCHANGED <<request, answer>>,
           state' = "PREPARING_ERROR_PAGE"
    PROVE  ExchangeInv'
<1>1. Sends'
  BY DEF ExchangeInv, Sends, Sending, Sent, Reading
<1>2. Stage'
  BY DEF Stage, Sending
<1>3. QED
  BY <1>1, <1>2 DEF ExchangeInv

(***************************************************************************)
(* A step that ends the exchange.                                          *)
(***************************************************************************)
LEMMA ExchangeEnds ==
    ASSUME TypeOK', ~open'
    PROVE  ExchangeInv'
  BY DEF ExchangeInv

----------------------------------------------------------------------------
(***************************************************************************)
(* The network, epoll and the alarm.                                       *)
(***************************************************************************)
LEMMA ExchangeNetwork ==
    ASSUME ExchangeInv, Arrive \/ BackendCloses \/ Event \/ Return
    PROVE  ExchangeInv'
<1> USE DEF sendVars, readVars, clientVars, fileVars, netVars, flagVars
<1>1. /\ open /\ resp \in Responses /\ todo \in Seq(Piece) /\ wire \in Seq(Piece)
      /\ closed \in BOOLEAN /\ Unread
  BY DEF ExchangeInv, TypeOK, Arrive, BackendCloses, Event, Return
<1>2. CASE Arrive
  <2>1. Come' = Come /\ Unread' /\ todo' \in Seq(Piece) /\ wire' \in Seq(Piece)
    BY <1>1, <1>2, ArriveKeeps
  <2>2. TypeOK'
    BY <1>2, <2>1 DEF ExchangeInv, TypeOK, Arrive
  <2>3. QED
    BY <1>1, <1>2, <2>1, <2>2, ExchangeKept DEF Arrive
<1>3. CASE BackendCloses
  <2>1. Come' = Come /\ Unread' /\ wire' \in Seq(Piece)
    BY <1>1, <1>3, BackendClosesKeeps
  <2>2. TypeOK'
    BY <1>3, <2>1 DEF ExchangeInv, TypeOK, BackendCloses
  <2>3. QED
    BY <1>1, <1>3, <2>1, <2>2, ExchangeKept DEF BackendCloses
<1>4. CASE Event
  <2>1. Come' = Come /\ Unread'
    BY <1>1, <1>4, NothingRead DEF Event
  <2>2. writable' \in BOOLEAN /\ readable' \in BOOLEAN
    BY <1>4 DEF ExchangeInv, TypeOK, Event
  <2>3. TypeOK'
    BY <1>4, <2>2 DEF ExchangeInv, TypeOK, Event
  <2>4. QED
    BY <1>1, <1>4, <2>1, <2>3, ExchangeKept DEF Event
<1>5. CASE Return
  <2>1. Come' = Come /\ Unread'
    BY <1>1, <1>5, NothingRead DEF Return
  <2>2. TypeOK'
    BY <1>5 DEF ExchangeInv, TypeOK, Return
  <2>3. QED
    BY <1>1, <1>5, <2>1, <2>2, ExchangeKept DEF Return
<1>6. QED
  BY <1>2, <1>3, <1>4, <1>5

(***************************************************************************)
(* The steps after which there will be an error page.                      *)
(***************************************************************************)
LEMMA ExchangeErrors ==
    ASSUME ExchangeInv,
           WriteFails \/ ProcessRefused \/ FileFails
             \/ (Connect /\ state' = "PREPARING_ERROR_PAGE")
             \/ (ReadFails /\ state' = "PREPARING_ERROR_PAGE")
    PROVE  ExchangeInv'
<1> USE DEF sendVars, readVars, clientVars, fileVars, netVars, flagVars, In
<1>1. /\ open /\ state' = "PREPARING_ERROR_PAGE"
      /\ UNCHANGED <<netVars, flagVars, sendVars, readVars, running, open, answer>>
      /\ UNCHANGED <<filesize, theirs, stored>>
      /\ UNCHANGED memory \/ memory' = FALSE
      /\ Opened \/ UNCHANGED <<file, lent>>
  BY DEF WriteFails, ProcessRefused, FileFails, Connect, ReadFails
<1>2. Unread'
  BY <1>1, NothingRead DEF ExchangeInv
<1>3. state' \in States
  BY <1>1 DEF States
<1>4. file' \in {"response", None} /\ lent' \subseteq {"payload", "response"}
  BY <1>1 DEF ExchangeInv, TypeOK, Opened
<1>5. TypeOK'
  BY <1>1, <1>3, <1>4 DEF ExchangeInv, TypeOK
<1>6. QED
  BY <1>1, <1>2, <1>5, ExchangeFails

(***************************************************************************)
(* A connection has been made.                                             *)
(***************************************************************************)
LEMMA ExchangeConnect ==
    ASSUME ExchangeInv, Connect
    PROVE  ExchangeInv'
<1> USE DEF sendVars, readVars, clientVars, fileVars, netVars, flagVars, In
<1>1. CASE state' = "PREPARING_ERROR_PAGE"
  BY <1>1, ExchangeErrors
<1>2. CASE state' = "SENDING_HEADERS"
  <2>1. Come' = Come /\ Unread'
    BY NothingRead DEF Connect, ExchangeInv
  <2>2. TypeOK'
    <3>1. state' \in States
      BY <1>2 DEF States, Sending
    <3>2. QED
      BY <3>1 DEF Connect, ExchangeInv, TypeOK
  <2>3. Sends'
    <3>1. outp' = 0 /\ sent' = <<>> /\ request' = request /\ Len(request) > 0 /\ Begun' = 0
      BY <1>2 DEF Connect, ExchangeInv, Sends, Begun
    <3>2. Part(request, 0, 0) = <<>>
      BY PartNone
    <3>3. Len(Source') \in Nat
      <4>1. request \in Seq(Nat) /\ Source' = IF memory THEN request ELSE SubSeq(request, 1, 1)
        BY <1>2 DEF Connect, Source, ExchangeInv, TypeOK
      <4>2. Part(request, 0, 1) \in Seq(Nat)
        BY <3>1, <4>1, PartIs, 1 \in Nat
      <4>3. QED
        BY <4>1, <4>2 DEF Part
    <3>4. QED
      BY <1>2, <3>1, <3>2, <3>3 DEF Sends, Sending, Sent, Reading
  <2>4. Stage'
    BY <1>2, <2>1 DEF Connect, ExchangeInv, Stage, NothingYet, Sending
  <2>5. QED
    BY <2>1, <2>2, <2>3, <2>4 DEF Connect, ExchangeInv
<1>3. QED
  BY <1>1, <1>2 DEF Connect

----------------------------------------------------------------------------
(***************************************************************************)
(* Sending.  What is counted by _M_outp is a part of the request.          *)
(***************************************************************************)
LEMMA SourceIs ==
    ASSUME request \in Seq(Nat), Len(request) > 0, state \in Sending
    PROVE  /\ Source = Part(request, Begun, Begun + Len(Source)) \/ (memory /\ Begun = 1)
           /\ Len(Source) \in Nat
           /\ memory => Source = request
           /\ ~memory /\ state = "SENDING_HEADERS" => Len(Source) = 1
           /\ ~memory /\ state = "SENDING_BODY" => Len(Source) = Len(request) - 1
<1>1. Len(request) \in Nat
  BY LenProperties
<1>2. CASE memory
  <2>1. Source = request
    BY <1>2 DEF Source
  <2>2. Part(request, 0, Len(request)) = request
    BY PartAll
  <2>3. Begun = 0 \/ Begun = 1
    BY DEF Begun
  <2>4. QED
    BY <1>1, <1>2, <2>1, <2>2, <2>3
<1>3. CASE ~memory /\ state = "SENDING_HEADERS"
  <2>1. Source = Part(request, 0, 1) /\ Begun = 0
    BY <1>3 DEF Source, Part, Begun
  <2>2. request \in Seq(Nat) /\ 0 \in Nat /\ 1 \in Nat /\ 0 <= 1 /\ 1 <= Len(request)
    BY <1>1
  <2>3. Len(Part(request, 0, 1)) = 1 - 0
    BY ONLY <2>2, PartIs, ZenonT(40)
  <2>4. Len(Source) = 1 /\ Begun + Len(Source) = 1
    BY <2>1, <2>3
  <2>5. Part(request, Begun, Begun + Len(Source)) = Part(request, 0, 1)
    BY <2>1, <2>4
  <2>6. QED
    BY <1>3, <2>1, <2>4, <2>5
<1>4. CASE ~memory /\ state = "SENDING_BODY"
  <2>1. Source = Part(request, 1, Len(request)) /\ Begun = 1
    BY <1>4 DEF Source, Part, Begun
  <2>2. /\ request \in Seq(Nat) /\ 1 \in Nat /\ Len(request) \in Nat
        /\ 1 <= Len(request) /\ Len(request) <= Len(request)
    BY <1>1
  <2>3. Len(Part(request, 1, Len(request))) = Len(request) - 1
    BY ONLY <2>2, PartIs, ZenonT(40)
  <2>4. 1 + (Len(request) - 1) = Len(request)
    BY <1>1
  <2>5. QED
    BY <1>1, <1>4, <2>1, <2>3, <2>4
<1>5. QED
  BY <1>2, <1>3, <1>4 DEF Sending

(***************************************************************************)
(* A write moves on by what it has written.                                *)
(***************************************************************************)
LEMMA WriteIs ==
    ASSUME TypeOK, Sends, NEW n \in Nat, Write(n)
    PROVE  /\ Len(Source) \in Nat /\ outp + n <= Len(Source)
           /\ Begun + Len(Source) <= Len(request)
           /\ sent = Part(request, 0, Begun + outp)
           /\ sent' = Part(request, 0, Begun + outp + n)
           /\ sent' \in Seq(Nat)
<1>1. /\ request \in Seq(Nat) /\ Len(request) \in Nat /\ Len(request) > 0
      /\ state \in Sending /\ outp \in Nat
  BY LenProperties DEF TypeOK, Sends, Write
<1>2. /\ sent = Part(request, 0, Begun + outp)
      /\ outp + n <= Len(Source)
      /\ sent' = sent \o SubSeq(Source, outp + 1, outp + n)
  BY <1>1 DEF Sends, Write
<1>3. ~(memory /\ Begun = 1)
  BY DEF Sends, Begun
<1>4. Source = Part(request, Begun, Begun + Len(Source)) /\ Len(Source) \in Nat
  BY <1>1, <1>3, SourceIs
<1>5. Begun \in Nat /\ Begun + Len(Source) <= Len(request)
  <2>1. Begun = 0 \/ Begun = 1
    BY DEF Begun
  <2>2. CASE memory
    BY <1>1, <1>3, <2>1, <2>2, SourceIs
  <2>3. CASE ~memory /\ state = "SENDING_HEADERS"
    <3>1. Begun = 0 /\ Len(Source) = 1
      BY <1>1, <2>3, SourceIs DEF Begun
    <3>2. QED
      BY <1>1, <3>1
  <2>4. CASE ~memory /\ state = "SENDING_BODY"
    <3>1. Begun = 1 /\ Len(Source) = Len(request) - 1
      BY <1>1, <2>4, SourceIs DEF Begun
    <3>2. QED
      BY <1>1, <3>1
  <2>5. QED
    BY <1>1, <2>2, <2>3, <2>4 DEF Sending
<1> DEFINE o == Begun
           w == Len(Source)
<1> HIDE DEF o, w
<1>6. SubSeq(Source, outp + 1, outp + n) = Part(request, Begun + outp, Begun + outp + n)
  <2>1. /\ request \in Seq(Nat) /\ o \in Nat /\ o + w \in Nat /\ o <= o + w
        /\ o + w <= Len(request)
        /\ outp \in Nat /\ outp + n \in Nat /\ outp <= outp + n /\ o + (outp + n) <= o + w
        /\ o + (outp + n) = o + outp + n
    BY <1>1, <1>2, <1>4, <1>5 DEF o, w
  <2>2. Part(Part(request, o, o + w), outp, outp + n) = Part(request, o + outp, o + (outp + n))
    BY ONLY <2>1, PartOfPart
  <2>3. SubSeq(Source, outp + 1, outp + n) = Part(Source, outp, outp + n)
    BY DEF Part
  <2>4. QED
    BY <1>4, <2>1, <2>2, <2>3 DEF o, w
<1>7. sent' = Part(request, 0, Begun + outp + n)
  <2>1. /\ request \in Seq(Nat) /\ 0 \in Nat /\ o + outp \in Nat /\ o + outp + n \in Nat
        /\ 0 <= o + outp /\ o + outp <= o + outp + n /\ o + outp + n <= Len(request)
    BY <1>1, <1>2, <1>4, <1>5 DEF o, w
  <2>2. Part(request, 0, o + outp) \o Part(request, o + outp, o + outp + n)
          = Part(request, 0, o + outp + n)
    BY ONLY <2>1, PartsJoined, ZenonT(40)
  <2>3. QED
    BY <1>2, <1>6, <2>2 DEF o
<1>8. sent' \in Seq(Nat)
  <2>1. /\ request \in Seq(Nat) /\ 0 \in Nat /\ o + outp + n \in Nat
        /\ 0 <= o + outp + n /\ o + outp + n <= Len(request)
    BY <1>1, <1>2, <1>4, <1>5 DEF o, w
  <2>2. Part(request, 0, o + outp + n) \in Seq(Nat)
    BY ONLY <2>1, PartIs, ZenonT(40)
  <2>3. QED
    BY <1>7, <2>2 DEF o
<1>9. QED
  BY <1>2, <1>4, <1>5, <1>7, <1>8

(***************************************************************************)
(* Some of it is sent.                                                     *)
(***************************************************************************)
LEMMA ExchangeSendSome ==
    ASSUME ExchangeInv, SendSome
    PROVE  ExchangeInv'
<1> USE DEF sendVars, readVars, clientVars, fileVars
<1>1. PICK n \in 0 .. Len(Source) : /\ outp + n < Len(Source) /\ Write(n) /\ outp' = outp + n
                                   /\ writable' = FALSE
                                   /\ UNCHANGED <<state, readVars, clientVars, fileVars, answer>>
  BY DEF SendSome
<1>2. open /\ open' /\ running' = running /\ UNCHANGED <<netVars, readable>> /\ state \in Sending
  BY <1>1 DEF Write
<1>3. TypeOK /\ Sends /\ Unread /\ answer = None
  BY <1>2 DEF ExchangeInv
<1>4. n \in Nat /\ outp \in Nat
  BY <1>1, <1>3 DEF TypeOK
<1>5. /\ sent' = Part(request, 0, Begun + outp + n) /\ sent' \in Seq(Nat)
      /\ Len(Source) \in Nat
  BY <1>1, <1>3, <1>4, WriteIs
<1>6. Come' = Come /\ Unread'
  BY <1>2, <1>3, NothingRead DEF netVars
<1>7. TypeOK'
  <2>1. outp' = outp + n /\ writable' = FALSE
    BY <1>1
  <2>2. outp' \in Nat
    BY <1>4, <2>1
  <2>3. writable' \in BOOLEAN
    BY <2>1
  <2>4. QED
    BY <1>1, <1>2, <1>3, <1>5, <2>2, <2>3 DEF TypeOK, netVars
<1>8. Sends'
  <2>1. UNCHANGED <<request, Source, Begun>>
    BY <1>1, <1>2 DEF netVars, Source, Begun
  <2>2. Begun + outp + n = Begun + outp'
    BY <1>1, <1>4 DEF Begun
  <2>3. outp' <= Len(Source)
    BY <1>1, <1>4, <1>5
  <2>4. QED
    BY <1>1, <1>2, <1>3, <1>5, <2>1, <2>2, <2>3 DEF Sends, Sending, Sent, Reading
<1>9. Stage'
  BY <1>1, <1>2, <1>6 DEF ExchangeInv, Stage, NothingYet, Sending
<1>10. QED
  BY <1>1, <1>3, <1>6, <1>7, <1>8, <1>9 DEF ExchangeInv

(***************************************************************************)
(* The rest of it is sent: the headers, or all of the request.             *)
(***************************************************************************)
LEMMA ExchangeSendRest ==
    ASSUME ExchangeInv, SendRest
    PROVE  ExchangeInv'
<1> DEFINE n == Len(Source) - outp
<1>1. open /\ open' /\ running' = running /\ UNCHANGED <<netVars, readable>> /\ state \in Sending
  BY DEF SendRest, Write
<1>2. TypeOK /\ Sends /\ Unread /\ answer = None /\ answer' = None
  BY <1>1 DEF ExchangeInv, SendRest
<1>3. /\ request \in Seq(Nat) /\ Len(request) \in Nat /\ Len(request) > 0
      /\ outp \in Nat /\ outp <= Len(Source) /\ resp \in Responses
  BY <1>1, <1>2, LenProperties DEF TypeOK, Sends
<1>4. n \in Nat /\ Len(Source) \in Nat
  BY <1>1, <1>3, SourceIs
<1>5. Write(n)
  BY DEF SendRest
<1>6. sent' = Part(request, 0, Begun + outp + n) /\ sent' \in Seq(Nat)
  BY <1>2, <1>4, <1>5, WriteIs
<1>7. Begun + outp + n = Begun + Len(Source)
  BY <1>3, <1>4 DEF Begun
<1> HIDE DEF n
<1>8. Come' = Come /\ Unread'
  BY <1>1, <1>2, NothingRead DEF netVars
<1>9. NothingYet
  BY <1>1, <1>2 DEF ExchangeInv, Stage
<1>10. CASE state = "SENDING_HEADERS" /\ ~memory
  <2>1. /\ state' = "SENDING_BODY" /\ outp' = 0
        /\ UNCHANGED <<body, theirs, lent, writable, inp, left, out, memory, filesize, file,
                       stored>>
    BY <1>10 DEF SendRest
  <2>2. TypeOK'
    <3>1. state' \in States
      BY <2>1 DEF States, Sending
    <3>2. QED
      BY <1>1, <1>2, <1>6, <2>1, <3>1 DEF TypeOK, netVars
  <2>3. Sends'
    <3>1. sent' = Part(request, 0, 1)
      <4>1. Begun = 0 /\ Len(Source) = 1
        BY <1>1, <1>3, <1>10, SourceIs DEF Begun
      <4>2. QED
        BY <1>6, <1>7, <4>1
    <3>2. Begun' + outp' = 1
      BY <2>1 DEF Begun
    <3>3. Len(Source') \in Nat
      <4>1. Source' = Part(request, 1, Len(request))
        BY <1>1, <1>10, <2>1 DEF Source, netVars, Part
      <4>2. 1 \in Nat /\ 1 <= Len(request) /\ Len(request) <= Len(request)
        BY <1>3
      <4>3. Part(request, 1, Len(request)) \in Seq(Nat)
        BY <1>3, <4>2, PartIs
      <4>4. QED
        BY <4>1, <4>3
    <3>4. QED
      BY <1>1, <1>3, <1>10, <2>1, <3>1, <3>2, <3>3 DEF Sends, netVars, Sending, Sent, Reading
  <2>4. Stage'
    BY <1>8, <1>9, <2>1 DEF Stage, NothingYet, Sending
  <2>5. QED
    BY <1>2, <1>8, <2>2, <2>3, <2>4 DEF ExchangeInv
<1>11. CASE ~(state = "SENDING_HEADERS" /\ ~memory)
  <2>1. /\ state' = (IF IsFcgi THEN "READING_HEADERS" ELSE "READING_STATUS_LINE")
        /\ outp' = Len(Source) /\ body' = <<>> /\ theirs' = None /\ lent' = lent \ {theirs}
        /\ UNCHANGED <<writable, inp, left, out, memory, filesize, file, stored>>
    BY <1>11 DEF SendRest
  <2>2. TypeOK'
    <3>1. state' \in States
      BY <2>1 DEF States, Reading
    <3>2. <<>> \in Seq(Piece)
      OBVIOUS
    <3>3. UNCHANGED body
      BY <1>9, <2>1 DEF NothingYet
    <3>4. QED
      BY <1>1, <1>2, <1>4, <1>6, <2>1, <3>1, <3>2, <3>3 DEF TypeOK, netVars
  <2>3. sent' = request
    <3>1. Begun + Len(Source) = Len(request)
      <4>1. CASE memory
        <5>1. Begun = 0 /\ Source = request
          BY <1>1, <1>2, <1>3, <4>1, SourceIs DEF Begun, Sends
        <5>2. QED
          BY <1>3, <5>1
      <4>2. CASE ~memory
        <5>1. state = "SENDING_BODY"
          BY <1>1, <1>11, <4>2 DEF Sending
        <5>2. Begun = 1 /\ Len(Source) = Len(request) - 1
          BY <1>1, <1>3, <4>2, <5>1, SourceIs DEF Begun
        <5>3. QED
          BY <1>3, <5>2
      <4>3. QED
        BY <4>1, <4>2
    <3>2. Part(request, 0, Len(request)) = request
      BY <1>3, PartAll
    <3>3. QED
      BY <1>6, <1>7, <3>1, <3>2
  <2>4. Sends'
    BY <1>1, <1>3, <2>1, <2>3 DEF Sends, netVars, Sending, Sent, Reading
  <2>5. UNCHANGED <<resp, Pieces, IsFcgi>> /\ IsFcgi \in BOOLEAN
    BY <1>1 DEF netVars, Pieces, IsFcgi
  <2>6. Come' = 0 /\ body' = <<>> /\ inp' = 0 /\ out' = <<>> /\ file' = None
    BY <1>8, <1>9, <2>1 DEF NothingYet
  <2>7. CASE ~IsFcgi
    <3>1. state' = "READING_STATUS_LINE"
      BY <2>1, <2>7
    <3>2. Stage'
      BY <2>5, <2>6, <2>7, <3>1 DEF Stage, NothingYet, Sending
    <3>3. QED
      BY <1>2, <1>8, <2>2, <2>4, <3>2 DEF ExchangeInv
  <2>8. CASE IsFcgi
    <3>1. state' = "READING_HEADERS"
      BY <2>1, <2>8
    <3>2. Complete' = 0
      BY <2>6 DEF Complete
    <3>3. OutputCome' = 0
      BY <3>2 DEF OutputCome, OutputTo
    <3>4. Part(Pieces, 0, 0) = <<>> /\ Part(Full(resp.size), 0, 0) = <<>>
      BY PartNone
    <3>5. 0 < Len(Pieces)
      <4>1. /\ Len(Pieces) = 2 * (Len(resp.records) + 1)
        BY <1>3, <2>8, HalvesAre
      <4>2. Len(resp.records) \in Nat
        BY <1>3, <2>8, ResponseIs, RecordsAre, 2 + resp.size \in Nat
      <4>3. QED
        BY <4>1, <4>2
    <3>6. HeadersOf'
      BY <2>5, <2>6, <3>3, <3>4 DEF HeadersOf
    <3>7. Stage'
      BY <2>5, <2>6, <2>8, <3>1, <3>2, <3>4, <3>5, <3>6 DEF Stage, Sending
    <3>8. QED
      BY <1>2, <1>8, <2>2, <2>4, <3>7 DEF ExchangeInv
  <2>9. QED
    BY <2>7, <2>8
<1>12. QED
  BY <1>10, <1>11

----------------------------------------------------------------------------
(***************************************************************************)
(* Where the body is.                                                      *)
(***************************************************************************)

(***************************************************************************)
(* What follows the headers in the buffer is a part of the response, and   *)
(* the first of it the body.                                               *)
(***************************************************************************)
LEMMA RestIs ==
    ASSUME resp \in Responses, NEW c \in Nat, 2 <= c, c <= Len(Pieces)
    PROVE  /\ Part(Pieces, 0, c) \in Seq(Piece) /\ Len(Part(Pieces, 0, c)) = c
           /\ Rest(Part(Pieces, 0, c)) = Part(Pieces, 2, c)
           /\ Len(Part(Pieces, 2, c)) = c - 2
           /\ Part(Pieces, 2, c) \in Seq(Piece)
<1> DEFINE b == Part(Pieces, 0, c)
           two == 2
<1>0. two = 2
  OBVIOUS
<1>1. Pieces \in Seq(Piece)
  BY PiecesAre
<1>2. b \in Seq(Piece) /\ Len(b) = c - 0
  <2>1. Pieces \in Seq(Piece) /\ 0 \in Nat /\ c \in Nat /\ 0 <= c /\ c <= Len(Pieces)
    BY <1>1
  <2>2. QED
    BY ONLY <2>1, PartIs, ZenonT(40)
<1>3. Offset = 2
  BY OfIs DEF Offset, Header
<1> HIDE DEF two
<1>4. Rest(b) = Part(b, two, c)
  BY <1>0, <1>2, <1>3 DEF Rest, Part
<1>5. /\ Pieces \in Seq(Piece) /\ 0 \in Nat /\ c \in Nat /\ 0 <= c /\ c <= Len(Pieces)
      /\ two \in Nat /\ two <= c /\ 0 + c <= c /\ 0 + c = c /\ 0 + two = two
  BY <1>0, <1>1
<1>6. Part(Part(Pieces, 0, c), two, c) = Part(Pieces, 0 + two, 0 + c)
  BY ONLY <1>5, PartOfPart
<1>7. Part(Pieces, two, c) \in Seq(Piece) /\ Len(Part(Pieces, two, c)) = c - two
  BY ONLY <1>5, PartIs, ZenonT(40)
<1>8. QED
  BY <1>0, <1>2, <1>4, <1>5, <1>6, <1>7

(***************************************************************************)
(* The first of it is the body.                                            *)
(***************************************************************************)
LEMMA MemoryIs ==
    ASSUME resp \in Responses, ~IsFcgi, NEW c \in Nat, c <= Len(Pieces),
           NEW n \in Nat, n <= resp.data, 2 + n <= c
    PROVE  SubSeq(Part(Pieces, 0, c), Offset + 1, Offset + n) = Data(n)
<1> DEFINE two == 2
<1>0. two = 2 /\ Offset = two
  BY OfIs DEF Offset, Header
<1>1. Pieces \in Seq(Piece)
  BY PiecesAre
<1>2. Part(Pieces, 2, 2 + n) = Data(n)
  BY StreamIs, ResponseIs
<1> HIDE DEF two
<1>3. /\ Pieces \in Seq(Piece) /\ 0 \in Nat /\ c \in Nat /\ 0 <= c /\ c <= Len(Pieces)
      /\ two \in Nat /\ two + n \in Nat /\ two <= two + n /\ 0 + (two + n) <= c
      /\ 0 + (two + n) = two + n /\ 0 + two = two
  BY <1>0, <1>1
<1>4. Part(Part(Pieces, 0, c), two, two + n) = Part(Pieces, 0 + two, 0 + (two + n))
  BY ONLY <1>3, PartOfPart
<1>5. Part(Part(Pieces, 0, c), two, two + n)
        = SubSeq(Part(Pieces, 0, c), Offset + 1, Offset + n)
  BY <1>0 DEF Part
<1>6. QED
  BY <1>0, <1>2, <1>3, <1>4, <1>5

(***************************************************************************)
(* Of data that is passed on or added to, all is data.                     *)
(***************************************************************************)
LEMMA DataAll ==
    ASSUME NEW n \in Nat
    PROVE  /\ Data(n) \in Seq(Piece) /\ Len(Data(n)) = n
           /\ SubSeq(Data(n), 1, n) = Data(n)
<1>1. Data(n) \in Seq(Piece) /\ Len(Data(n)) = n
  BY OfIs DEF Data
<1>2. Part(Data(n), 0, n) = Data(n)
  BY <1>1, PartAll
<1>3. QED
  BY <1>1, <1>2 DEF Part

(***************************************************************************)
(* The data begins with less of it.                                        *)
(***************************************************************************)
LEMMA DataBegins ==
    ASSUME NEW n \in Nat, NEW k \in 0 .. n
    PROVE  SubSeq(Data(n), 1, k) = Data(k)
<1> DEFINE d == Data(n)
           e == Data(k)
           p == Part(d, 0, k)
<1>1. d \in Seq(Piece) /\ Len(d) = n /\ \A i \in 1 .. n : d[i] = [part |-> "data", n |-> i]
  BY OfIs DEF Data
<1>2. e \in Seq(Piece) /\ Len(e) = k /\ \A i \in 1 .. k : e[i] = [part |-> "data", n |-> i]
  BY OfIs, k \in Nat DEF Data
<1> HIDE DEF d, e
<1>3. p \in Seq(Piece) /\ Len(p) = k - 0 /\ \A i \in 1 .. k - 0 : p[i] = d[0 + i]
  <2>1. d \in Seq(Piece) /\ 0 \in Nat /\ k \in Nat /\ 0 <= k /\ k <= Len(d)
    BY <1>1
  <2>2. QED
    BY ONLY <2>1, PartIs, ZenonT(40)
<1> HIDE DEF p
<1>4. \A i \in 1 .. Len(p) : p[i] = e[i]
  BY <1>1, <1>2, <1>3
<1>5. p = e
  BY <1>2, <1>3, <1>4, SeqEqual
<1>6. QED
  BY <1>5 DEF p, d, e, Part

(***************************************************************************)
(* The next part of the response continues the data.                       *)
(***************************************************************************)
LEMMA DataGrows ==
    ASSUME resp \in Responses, ~IsFcgi,
           NEW a \in Nat, NEW b \in Nat, 2 <= a, a <= b, b <= 2 + resp.data
    PROVE  /\ Data(a - 2) \o Part(Pieces, a, b) = Data(b - 2)
           /\ Len(Part(Pieces, a, b)) = b - a
           /\ Part(Pieces, a, b) \in Seq(Piece)
<1> DEFINE two == 2
<1>0. two = 2
  OBVIOUS
<1>1. Pieces \in Seq(Piece) /\ resp.data \in Nat /\ 2 + resp.data <= Len(Pieces)
  BY StreamIs, ResponseIs
<1>2. /\ a - 2 \in 0 .. resp.data /\ 2 + (a - 2) = a
      /\ b - 2 \in 0 .. resp.data /\ 2 + (b - 2) = b
  BY <1>1
<1>3. Part(Pieces, 2, a) = Data(a - 2)
  BY <1>2, StreamIs
<1>4. Part(Pieces, 2, b) = Data(b - 2)
  BY <1>2, StreamIs
<1> HIDE DEF two
<1>5. /\ Pieces \in Seq(Piece) /\ two \in Nat /\ a \in Nat /\ b \in Nat
      /\ two <= a /\ a <= b /\ b <= Len(Pieces)
  BY <1>0, <1>1
<1>6. Part(Pieces, two, a) \o Part(Pieces, a, b) = Part(Pieces, two, b)
  BY ONLY <1>5, PartsJoined, ZenonT(40)
<1>7. Part(Pieces, a, b) \in Seq(Piece) /\ Len(Part(Pieces, a, b)) = b - a
  BY ONLY <1>5, PartIs, ZenonT(40)
<1>8. QED
  BY <1>0, <1>3, <1>4, <1>6, <1>7

(***************************************************************************)
(* What is in the file is passed on.                                       *)
(***************************************************************************)
LEMMA DiskPasses ==
    ASSUME resp \in Responses, resp.kind \in Bodied,
           file = "response", filesize \in 0 .. resp.size, stored = Data(filesize),
           resp.kind # "close" => filesize = resp.size
    PROVE  Passes(Passed)
<1>1. filesize \in Nat
  BY ResponseIs
<1>2. SubSeq(stored, 1, filesize) = Data(filesize)
  BY <1>1, DataAll
<1>3. Passed = Data(filesize)
  BY <1>2, BackendConnectionAssumption DEF Passed, Bodied
<1>4. QED
  BY <1>3 DEF Passes

----------------------------------------------------------------------------
(***************************************************************************)
(* Reading the headers.                                                    *)
(***************************************************************************)
LEMMA ExchangeReadHeaders ==
    ASSUME ExchangeInv, ReadHeaders
    PROVE  ExchangeInv'
<1> USE DEF sendVars, readVars, clientVars, fileVars
<1>1. /\ open /\ open' /\ Read /\ ~IsFcgi
      /\ state \in {"READING_STATUS_LINE", "READING_HEADERS"}
      /\ UNCHANGED <<running, sendVars, left, out, clientVars, fileVars, answer>>
  BY DEF ReadHeaders, In, ExchangeInv, Stage
<1>2. TypeOK /\ Unread /\ Sends /\ Stage /\ answer = None
  BY <1>1 DEF ExchangeInv
<1>3. /\ resp \in Responses /\ todo \in Seq(Piece) /\ wire \in Seq(Piece)
      /\ UNCHANGED <<resp, request, todo, closed, edge, writable>>
  BY <1>1, <1>2 DEF TypeOK, Read
<1>4. /\ Come \in Nat /\ Come' \in Nat /\ Come <= Come' /\ Come' <= Len(Pieces)
      /\ Got = Part(Pieces, Come, Come') /\ wire' \in Seq(Piece) /\ Unread'
  BY <1>1, <1>2, <1>3, ReadIs
<1>5. Pieces \in Seq(Piece) /\ Len(Pieces) \in Nat /\ Pieces' = Pieces
  BY <1>3, PiecesAre DEF Pieces
<1>6. body = Part(Pieces, 0, Come) /\ file = None /\ Come < 2
  <2>1. Part(Pieces, 0, 0) = <<>>
    BY PartNone
  <2>2. QED
    BY <1>1, <1>2, <2>1 DEF Stage, NothingYet, Gathered
<1>7. body' = Part(Pieces, 0, Come')
  <2>1. /\ Pieces \in Seq(Piece) /\ 0 \in Nat /\ Come \in Nat /\ Come' \in Nat
        /\ 0 <= Come /\ Come <= Come' /\ Come' <= Len(Pieces)
    BY <1>4, <1>5
  <2>2. Part(Pieces, 0, Come) \o Part(Pieces, Come, Come') = Part(Pieces, 0, Come')
    BY ONLY <2>1, PartsJoined, ZenonT(40)
  <2>3. QED
    BY <1>4, <1>6, <2>2 DEF ReadHeaders
<1>8. body' \in Seq(Piece) /\ Len(body') = Come'
  BY <1>4, <1>5, <1>7, PartIs, 0 \in Nat
<1>9. /\ \/ body' = <<>> /\ UNCHANGED <<inp, state>>
         \/ Come' < 2 /\ body' # <<>> /\ inp' = 1 /\ state' = "READING_HEADERS"
         \/ Come' >= 2 /\ inp' = Come' /\ state' = "PROCESSING_RESPONSE"
         \/ Come' >= 2 /\ inp' = Come' /\ state' = "PREPARING_ERROR_PAGE"
  <2>1. Offset = 2
    BY OfIs DEF Offset, Header
  <2>2. QED
    BY <1>4, <1>8, <2>1 DEF ReadHeaders, ParseHeaders
<1>10. TypeOK'
  <2>1. state' \in States
    BY <1>2, <1>9 DEF TypeOK, States, Reading
  <2>2. inp' \in 0 .. Len(body')
    <3>1. CASE body' = <<>> /\ UNCHANGED <<inp, state>>
      <4>1. Come' = 0 /\ Come = 0
        BY <1>4, <1>8, <3>1
      <4>2. body = <<>>
        BY <1>6, <4>1, PartNone
      <4>3. QED
        BY <1>2, <3>1, <4>2 DEF TypeOK
    <3>2. CASE ~(body' = <<>>)
      <4>1. Len(body') > 0
        BY <1>8, <3>2
      <4>2. QED
        BY <1>4, <1>8, <1>9, <3>2, <4>1
    <3>3. QED
      BY <1>9, <3>1, <3>2, <1>8, <1>4
  <2>3. readable' \in BOOLEAN
    BY <1>1 DEF Read
  <2>4. QED
    BY <1>1, <1>2, <1>3, <1>4, <1>8, <2>1, <2>2, <2>3 DEF TypeOK
<1>11. IsFcgi' = IsFcgi
  BY <1>3 DEF IsFcgi
<1>12. Sends'
  BY <1>1, <1>2, <1>3, <1>9 DEF Sends, Sending, Sent, Reading
<1>13. Stage'
  <2>1. CASE body' = <<>> /\ UNCHANGED <<inp, state>>
    <3>1. Come' = 0
      BY <1>8, <2>1
    <3>2. QED
      BY <1>1, <1>2, <1>3, <1>5, <1>6, <1>7, <1>11, <2>1, <3>1
         DEF Stage, NothingYet, Gathered, Sending
  <2>2. CASE Come' < 2 /\ state' = "READING_HEADERS"
    BY <1>1, <1>5, <1>6, <1>7, <1>11, <2>2 DEF Stage, Gathered, Sending
  <2>3. CASE Come' >= 2 /\ inp' = Come' /\ state' = "PROCESSING_RESPONSE"
    BY <1>1, <1>5, <1>6, <1>7, <1>11, <2>3 DEF Stage, Gathered, Sending
  <2>4. CASE state' = "PREPARING_ERROR_PAGE"
    BY <2>4 DEF Stage, Sending
  <2>5. QED
    BY <1>9, <2>1, <2>2, <2>3, <2>4
<1>14. QED
  BY <1>1, <1>2, <1>4, <1>10, <1>12, <1>13 DEF ExchangeInv

----------------------------------------------------------------------------
(***************************************************************************)
(* The headers have been read: where the body is to go.                    *)
(***************************************************************************)
LEMMA ExchangeProcessInMemory ==
    ASSUME ExchangeInv, ProcessInMemory
    PROVE  ExchangeInv'
<1> USE DEF sendVars, readVars, clientVars, fileVars, netVars, flagVars
<1>1. /\ open /\ open' /\ state = "PROCESSING_RESPONSE"
      /\ memory' = TRUE /\ filesize' = resp.size
      /\ UNCHANGED <<netVars, flagVars, running, sendVars, body, inp, out, theirs, fileVars,
                     answer>>
  BY DEF ProcessInMemory, In
<1>2. TypeOK /\ Unread /\ Sends /\ answer = None
  BY <1>1 DEF ExchangeInv
<1>3. /\ ~IsFcgi /\ Gathered /\ Come >= 2 /\ inp = Come /\ file = None
  BY <1>1 DEF ExchangeInv, Stage
<1>4. resp \in Responses /\ wire \in Seq(Piece) /\ todo \in Seq(Piece)
  BY <1>2 DEF TypeOK
<1>5. Come \in Nat /\ Come <= Len(Pieces)
  <2>1. Len(Pieces) \in Nat /\ Len(todo) \in Nat /\ Len(Available) \in Nat
    BY <1>2, <1>4, PiecesAre, AvailableIs DEF Unread
  <2>2. QED
    BY <1>2, <2>1 DEF Unread, Come
<1>6. Come' = Come /\ Unread' /\ Pieces' = Pieces /\ IsFcgi' = IsFcgi
  BY <1>1, <1>2, NothingRead DEF Pieces, IsFcgi
<1>7. Len(Rest(body)) = Come - 2
  BY <1>3, <1>4, <1>5, RestIs DEF Gathered
<1>8. resp.size \in Nat /\ (resp.kind \in {"head", "empty"} \/ resp.kind = "length")
  BY <1>4, ResponseIs DEF ProcessInMemory
<1>9. CASE resp.kind = "length" /\ Come - 2 < resp.size
  <2>1. left' = resp.size - (Come - 2) /\ state' = "READING_BODY"
    BY <1>7, <1>9 DEF ProcessInMemory
  <2>2. left' \in Nat /\ left' > 0 /\ left' + (Come - 2) = resp.size
    BY <1>3, <1>5, <1>8, <1>9, <2>1
  <2>3. TypeOK'
    <3>1. state' \in States /\ memory' \in BOOLEAN /\ filesize' \in Nat
      BY <1>1, <1>8, <2>1 DEF States, Reading
    <3>2. QED
      BY <1>1, <1>2, <2>2, <3>1 DEF TypeOK
  <2>4. Sends'
    BY <1>1, <1>2, <2>1 DEF Sends, Sending, Sent, Reading
  <2>5. InMemory'
    BY <1>1, <1>3, <1>6 DEF InMemory, Gathered
  <2>6. Stage'
    BY <1>1, <1>3, <1>6, <1>9, <2>1, <2>2, <2>5 DEF Stage, Sending
  <2>7. QED
    BY <1>1, <1>2, <1>6, <2>3, <2>4, <2>6 DEF ExchangeInv
<1>10. CASE ~(resp.kind = "length" /\ Come - 2 < resp.size)
  <2>1. state' = "RESPONSE_COMPLETED" /\ left' = left
    BY <1>7, <1>10 DEF ProcessInMemory
  <2>2. TypeOK'
    <3>1. state' \in States /\ memory' \in BOOLEAN /\ filesize' \in Nat
      BY <1>1, <1>8, <2>1 DEF States
    <3>2. QED
      BY <1>1, <1>2, <2>1, <3>1 DEF TypeOK
  <2>3. Sends'
    BY <1>1, <1>2, <2>1 DEF Sends, Sending, Sent, Reading
  <2>4. Passes(Passed)'
    <3>1. CASE resp.kind = "head"
      BY <1>1, <3>1 DEF Passes, Passed, Bodied
    <3>2. CASE resp.kind = "empty"
      <4>1. resp.size = 0 /\ Offset \in Int
        BY <1>4, <3>2, ResponseIs, OfIs DEF Offset, Header
      <4>2. Passed' = SubSeq(body, Offset + 1, Offset + 0)
        BY <1>1, <1>3, <3>2, <4>1 DEF Passed
      <4>3. SubSeq(body, Offset + 1, Offset + 0) = <<>>
        BY <4>1, SubSeqEmpty, Offset + 1 \in Int, Offset + 0 \in Int, Offset + 0 < Offset + 1
      <4>4. QED
        BY <1>1, <3>2, <4>2, <4>3 DEF Passes, Bodied
    <3>3. CASE resp.kind = "length"
      <4>1. Passed' = SubSeq(Part(Pieces, 0, Come), Offset + 1, Offset + resp.size)
        BY <1>1, <1>3, <3>3 DEF Passed, Gathered
      <4>2. resp.size <= resp.data /\ 2 + resp.size <= Come
        BY <1>3, <1>4, <1>5, <1>8, <1>10, <3>3, ResponseIs
      <4>3. Passed' = Data(resp.size)
        BY <1>3, <1>4, <1>5, <1>8, <4>1, <4>2, MemoryIs
      <4>4. QED
        BY <1>1, <1>8, <3>3, <4>3 DEF Passes, Bodied
    <3>4. QED
      BY <1>8, <3>1, <3>2, <3>3
  <2>5. Stage'
    BY <2>1, <2>4 DEF Stage, Sending
  <2>6. QED
    BY <1>1, <1>2, <1>6, <2>2, <2>3, <2>5 DEF ExchangeInv
<1>11. QED
  BY <1>9, <1>10

(***************************************************************************)
(* The body is to be written to a file.                                    *)
(***************************************************************************)
LEMMA ExchangeProcessToFile ==
    ASSUME ExchangeInv, ProcessToFile
    PROVE  ExchangeInv'
<1> USE DEF sendVars, readVars, clientVars, fileVars, netVars, flagVars
<1>1. /\ open /\ open' /\ state = "PROCESSING_RESPONSE"
      /\ memory' = FALSE /\ file' = "response" /\ lent' = lent \cup {"response"}
      /\ body' = <<>> /\ inp' = 0
      /\ UNCHANGED <<netVars, flagVars, running, sendVars, out, theirs, answer>>
  BY DEF ProcessToFile, In, Opened
<1>2. TypeOK /\ Unread /\ Sends /\ answer = None
  BY <1>1 DEF ExchangeInv
<1>3. /\ ~IsFcgi /\ Gathered /\ Come >= 2 /\ inp = Come /\ file = None
  BY <1>1 DEF ExchangeInv, Stage
<1>4. resp \in Responses /\ wire \in Seq(Piece) /\ todo \in Seq(Piece)
  BY <1>2 DEF TypeOK
<1>5. Come \in Nat /\ Come <= Len(Pieces)
  <2>1. Len(Pieces) \in Nat /\ Len(todo) \in Nat /\ Len(Available) \in Nat
    BY <1>2, <1>4, PiecesAre, AvailableIs DEF Unread
  <2>2. QED
    BY <1>2, <2>1 DEF Unread, Come
<1>6. Come' = Come /\ Unread' /\ Pieces' = Pieces /\ IsFcgi' = IsFcgi
  BY <1>1, <1>2, NothingRead DEF Pieces, IsFcgi
<1>7. Rest(body) = Part(Pieces, 2, Come) /\ Len(Rest(body)) = Come - 2
  BY <1>3, <1>4, <1>5, RestIs DEF Gathered
<1>8. /\ resp.size \in Nat /\ resp.data \in Nat
      /\ Len(Pieces) = IF resp.kind = "chunked" THEN 3 + resp.data ELSE 2 + resp.data
      /\ \A k \in 0 .. resp.data : Part(Pieces, 2, 2 + k) = Data(k)
  BY <1>3, <1>4, ResponseIs, StreamIs
<1>9. \/ resp.kind \in {"chunked", "close"} /\ resp.data = resp.size
      \/ resp.kind = "length" /\ Come - 2 < resp.size /\ resp.size <= resp.data
  BY <1>4, <1>7, <1>8, ResponseIs DEF ProcessToFile, ToFile
<1> DEFINE ended == Come = 3 + resp.data
           got == IF ended THEN resp.size ELSE Come - 2
<1>10. got \in 0 .. resp.size /\ got \in 0 .. resp.data /\ (ended => resp.kind = "chunked")
  BY <1>3, <1>5, <1>8, <1>9
<1>11. stored' = Data(got)
  <2>1. /\ 2 \in Nat /\ Come \in Nat /\ 2 <= Come /\ Come <= Len(Pieces) /\ 2 <= 2 + resp.data
    BY <1>3, <1>5, <1>8
  <2>2. DataOf(Part(Pieces, 2, Come))
          = Part(Pieces, 2, IF Come = 3 + resp.data THEN 2 + resp.data ELSE Come)
    BY <1>3, <1>4, <2>1, EndIs
  <2>3. (IF Come = 3 + resp.data THEN 2 + resp.data ELSE Come) = 2 + got
    BY <1>3, <1>5, <1>8, <1>9
  <2>4. Part(Pieces, 2, 2 + got) = Data(got)
    BY <1>8, <1>10
  <2>5. stored' = DataOf(Rest(body))
    BY DEF ProcessToFile
  <2>6. QED
    BY <1>7, <2>2, <2>3, <2>4, <2>5
<1>12. HasEnd(body) <=> ended
  <2>1. 0 \in Nat /\ Come \in Nat /\ 0 <= Come /\ Come <= Len(Pieces) /\ 0 <= 2 + resp.data
    BY <1>5, <1>8
  <2>2. QED
    BY <1>3, <1>4, <2>1, EndIs DEF Gathered
<1>13. stored' \in Seq(Piece) /\ Len(stored') = got
  BY <1>10, <1>11, DataAll
<1> HIDE DEF got, ended
<1>14. /\ filesize' = IF resp.kind = "length" THEN resp.size ELSE got
       /\ left' = IF resp.kind = "length" THEN resp.size - got ELSE left
  BY <1>13 DEF ProcessToFile
<1>15. /\ resp.kind = "length" => state' = "READING_BODY"
       /\ resp.kind = "close" => state' = "READING_UNKNOWN_SIZE_BODY"
       /\ resp.kind = "chunked" /\ ended => state' = "RESPONSE_COMPLETED"
       /\ resp.kind = "chunked" /\ ~ended => state' = "READING_CHUNKED_BODY"
  <2>1. state' = CASE resp.kind = "length" -> "READING_BODY"
                   [] resp.kind = "close" -> "READING_UNKNOWN_SIZE_BODY"
                   [] HasEnd(body) -> "RESPONSE_COMPLETED"
                   [] OTHER -> "READING_CHUNKED_BODY"
    BY DEF ProcessToFile
  <2>2. CASE resp.kind = "length"
    BY ONLY <2>1, <2>2, <1>10, <1>12
  <2>3. CASE resp.kind = "close"
    BY ONLY <2>1, <2>3, <1>12, <1>10
  <2>4. CASE resp.kind = "chunked" /\ ended
    BY ONLY <2>1, <2>4, <1>12
  <2>5. CASE resp.kind = "chunked" /\ ~ended
    BY ONLY <2>1, <2>5, <1>12
  <2>6. QED
    BY <2>2, <2>3, <2>4, <2>5
<1>16. TypeOK'
  <2>1. state' \in States
    BY <1>9, <1>15 DEF States, Reading
  <2>2. filesize' \in Nat /\ left' \in Nat
    BY <1>2, <1>8, <1>10, <1>14 DEF TypeOK
  <2>3. body' \in Seq(Piece) /\ inp' \in 0 .. Len(body')
    BY <1>1
  <2>4. /\ memory' \in BOOLEAN /\ file' \in {"response", None}
        /\ lent' \subseteq {"payload", "response"}
    BY <1>1, <1>2 DEF TypeOK
  <2>5. QED
    BY <1>1, <1>2, <1>13, <2>1, <2>2, <2>3, <2>4 DEF TypeOK
<1>17. Sends'
  BY <1>1, <1>2, <1>9, <1>15 DEF Sends, Sending, Sent, Reading
<1>18. resp' = resp
  BY <1>1
<1>19. ~ended => got = Come - 2 /\ ToDisk'
  <2>1. ~ended => got = Come - 2
    BY DEF got
  <2>2. QED
    BY <1>1, <1>5, <1>6, <1>8, <1>10, <1>11, <1>18, <2>1 DEF ToDisk
<1>20. Stage'
  <2>1. CASE resp.kind = "length"
    <3>1. ~ended /\ Come - 2 < resp.size
      BY <1>9, <1>10, <2>1
    <3>2. left' > 0 /\ left' + (Come - 2) = resp.size
      <4>1. left' = resp.size - (Come - 2)
        BY <1>14, <1>19, <2>1, <3>1
      <4>2. Come \in Nat /\ Come >= 2 /\ resp.size \in Nat /\ Come - 2 < resp.size
        BY <1>3, <1>5, <1>8, <3>1
      <4>3. QED
        BY ONLY <4>1, <4>2
    <3>3. QED
      BY <1>3, <1>6, <1>14, <1>15, <1>18, <1>19, <2>1, <3>1, <3>2 DEF Stage, Sending
  <2>2. CASE resp.kind = "close"
    <3>1. ~ended
      BY <1>10, <2>2
    <3>2. QED
      BY <1>3, <1>6, <1>14, <1>15, <1>18, <1>19, <2>2, <3>1 DEF Stage, Sending
  <2>3. CASE resp.kind = "chunked" /\ ~ended
    BY <1>3, <1>6, <1>14, <1>15, <1>18, <1>19, <2>3 DEF Stage, Sending
  <2>4. CASE resp.kind = "chunked" /\ ended
    <3>1. filesize' = resp.size /\ stored' = Data(resp.size)
      BY <1>11, <1>14, <2>4 DEF got
    <3>2. SubSeq(stored', 1, filesize') = Data(resp.size)
      BY <1>8, <3>1, DataAll
    <3>3. Passed' = Data(resp.size)
      BY <1>1, <1>18, <2>4, <3>2, BackendConnectionAssumption DEF Passed
    <3>4. Passes(Passed)'
      BY <1>8, <1>18, <2>4, <3>3 DEF Passes, Bodied
    <3>5. QED
      BY <1>15, <2>4, <3>4 DEF Stage, Sending
  <2>5. QED
    BY <1>9, <2>1, <2>2, <2>3, <2>4
<1>21. QED
  BY <1>1, <1>2, <1>6, <1>16, <1>17, <1>20 DEF ExchangeInv

----------------------------------------------------------------------------
(***************************************************************************)
(* Reading a body whose size is known.                                     *)
(***************************************************************************)
LEMMA ExchangeReadBody ==
    ASSUME ExchangeInv, ReadBody
    PROVE  ExchangeInv'
<1> USE DEF sendVars, readVars, clientVars, fileVars
<1>1. /\ open /\ open' /\ Read /\ ~IsFcgi /\ state = "READING_BODY"
      /\ UNCHANGED <<running, sendVars, out, clientVars, file, lent, answer>>
  BY DEF ReadBody, In
<1>2. TypeOK /\ Unread /\ Sends /\ Stage /\ answer = None
  BY <1>1 DEF ExchangeInv
<1>3. /\ resp \in Responses /\ todo \in Seq(Piece) /\ wire \in Seq(Piece)
      /\ UNCHANGED <<resp, request, todo, closed, edge, writable>>
  BY <1>1, <1>2 DEF TypeOK, Read
<1>4. /\ Come \in Nat /\ Come' \in Nat /\ Come <= Come' /\ Come' <= Len(Pieces)
      /\ Come' = Come + Len(Got)
      /\ Got = Part(Pieces, Come, Come') /\ Got \in Seq(Piece) /\ wire' \in Seq(Piece) /\ Unread'
  BY <1>1, <1>2, <1>3, ReadIs
<1>5. /\ Pieces \in Seq(Piece) /\ Len(Pieces) \in Nat
      /\ UNCHANGED <<Pieces, IsFcgi>>
  BY <1>3, PiecesAre DEF Pieces, IsFcgi
<1>6. /\ resp.kind = "length" /\ filesize = resp.size
      /\ Come >= 2 /\ left > 0 /\ left + (Come - 2) = resp.size
      /\ InMemory \/ ToDisk
  BY <1>1, <1>2 DEF Stage
<1>7. /\ resp.size \in Nat /\ resp.data \in Nat /\ resp.size <= resp.data
      /\ left \in Nat /\ body \in Seq(Piece) /\ inp \in Nat
  BY <1>2, <1>3, <1>6, ResponseIs DEF TypeOK, IsFcgi
<1> DEFINE b == body \o Got
           g == Len(Got)
           count == IF left < g THEN left ELSE g
<1>8. /\ g \in Nat /\ count \in Nat /\ count <= g /\ count <= left
      /\ count = left \/ count = g
      /\ Come' = Come + g
  BY <1>4, <1>7
<1>9. /\ memory => b = Part(Pieces, 0, Come')
      /\ ~memory => b = Got
      /\ b \in Seq(Piece) /\ Len(b) - inp = g
  <2>1. CASE InMemory
    <3>1. /\ Pieces \in Seq(Piece) /\ 0 \in Nat /\ Come \in Nat /\ Come' \in Nat
          /\ 0 <= Come /\ Come <= Come' /\ Come' <= Len(Pieces) /\ 0 <= Come'
      BY <1>4, <1>5
    <3>2. Part(Pieces, 0, Come) \o Part(Pieces, Come, Come') = Part(Pieces, 0, Come')
      BY ONLY <3>1, PartsJoined, ZenonT(40)
    <3>3. Part(Pieces, 0, Come') \in Seq(Piece) /\ Len(Part(Pieces, 0, Come')) = Come' - 0
      BY ONLY <3>1, PartIs, ZenonT(40)
    <3>4. b = Part(Pieces, 0, Come') /\ memory /\ inp = Come
      BY <1>4, <2>1, <3>2 DEF InMemory, Gathered
    <3>5. Len(b) = Come' /\ b \in Seq(Piece)
      <4>1. Come' - 0 = Come'
        BY <1>4
      <4>2. QED
        BY ONLY <3>3, <3>4, <4>1
    <3>6. Len(b) - inp = g
      <4>1. Come' - Come = g
        BY <1>4, <1>8
      <4>2. QED
        BY ONLY <3>4, <3>5, <4>1
    <3>7. QED
      BY <3>4, <3>5, <3>6
  <2>2. CASE ToDisk
    <3>1. b = Got /\ ~memory /\ inp = 0
      BY <1>4, <2>2, ConcatEmptySeq DEF ToDisk
    <3>2. g - 0 = g
      BY <1>8
    <3>3. Len(b) - inp = g
      BY ONLY <3>1, <3>2 DEF g
    <3>4. QED
      BY <1>4, <3>1, <3>3
  <2>3. QED
    BY <1>6, <2>1, <2>2
<1>10. /\ IF memory
          THEN inp' = inp + count /\ body' = b /\ UNCHANGED stored
          ELSE stored' = stored \o SubSeq(b, 1, count) /\ body' = <<>> /\ UNCHANGED inp
       /\ IF count = left
          THEN state' = "RESPONSE_COMPLETED" /\ UNCHANGED left
          ELSE left' = left - count /\ UNCHANGED state
  BY <1>9 DEF ReadBody
<1>11. resp' = resp /\ memory' = memory /\ file' = file /\ filesize' = filesize
  BY <1>1, <1>3
<1>12. Come' = Come + g
  BY <1>8
<1> HIDE DEF b, g, count
<1>13. ~memory => stored' = Data((Come + count) - 2)
  <2>1. SUFFICES ASSUME ~memory PROVE stored' = Data((Come + count) - 2)
    OBVIOUS
  <2>2. stored = Data(Come - 2)
    BY <1>6, <2>1 DEF InMemory, ToDisk
  <2>3. SubSeq(b, 1, count) = Part(Got, 0, count)
    <3>1. b = Got
      BY <1>9, <2>1
    <3>2. QED
      BY <3>1 DEF Part
  <2>4. /\ Pieces \in Seq(Piece) /\ Come \in Nat /\ Come' \in Nat /\ Come <= Come'
        /\ Come' <= Len(Pieces) /\ 0 \in Nat /\ count \in Nat /\ 0 <= count
        /\ Come + count <= Come' /\ Come + 0 = Come
    BY <1>4, <1>5, <1>8, <1>12
  <2>5. Part(Part(Pieces, Come, Come'), 0, count) = Part(Pieces, Come + 0, Come + count)
    BY ONLY <2>4, PartOfPart
  <2>6. /\ Come \in Nat /\ Come + count \in Nat /\ 2 <= Come /\ Come <= Come + count
        /\ Come + count <= 2 + resp.data
    BY <1>4, <1>6, <1>7, <1>8
  <2>7. Data(Come - 2) \o Part(Pieces, Come, Come + count) = Data((Come + count) - 2)
    BY <1>1, <1>3, <2>6, DataGrows
  <2>8. QED
    BY <1>4, <1>10, <2>1, <2>2, <2>3, <2>4, <2>5, <2>7
<1>14. (Come + count) - 2 \in Nat
  BY <1>4, <1>6, <1>8
<1>15. TypeOK'
  <2>1. /\ state' \in States /\ left' \in Nat
    <3>1. CASE count = left
      BY <1>7, <1>10, <3>1 DEF States
    <3>2. CASE count # left
      <4>1. left' = left - count /\ state' = state /\ state \in States
        BY <1>2, <1>10, <3>2 DEF TypeOK
      <4>2. left' \in Nat
        BY ONLY <1>7, <1>8, <4>1
      <4>3. QED
        BY <4>1, <4>2
    <3>3. QED
      BY <3>1, <3>2
  <2>2. readable' \in BOOLEAN
    BY <1>1 DEF Read
  <2>3. body' \in Seq(Piece) /\ inp' \in 0 .. Len(body') /\ stored' \in Seq(Piece)
    <3>1. CASE memory
      <4>1. body' = b /\ inp' = inp + count /\ stored' = stored
        BY <1>10, <3>1
      <4>2. Len(b) \in Nat
        BY <1>9
      <4>3. QED
        BY <1>2, <1>7, <1>8, <1>9, <4>1, <4>2 DEF TypeOK
    <3>2. CASE ~memory
      <4>1. body' = <<>> /\ inp' = inp /\ inp = 0
        BY <1>6, <1>10, <3>2 DEF InMemory, ToDisk
      <4>2. stored' \in Seq(Piece)
        BY <1>13, <1>14, <3>2, DataAll
      <4>3. QED
        BY <4>1, <4>2
    <3>3. QED
      BY <3>1, <3>2
  <2>4. QED
    BY <1>1, <1>2, <1>3, <1>4, <2>1, <2>2, <2>3 DEF TypeOK
<1>16. Sends'
  BY <1>1, <1>2, <1>3, <1>10 DEF Sends, Sending, Sent, Reading
<1>17. CASE count = left
  <2>1. state' = "RESPONSE_COMPLETED"
    BY <1>10, <1>17
  <2>2. (Come + count) - 2 = resp.size /\ 2 + resp.size <= Come'
    BY <1>4, <1>6, <1>7, <1>8, <1>12, <1>17
  <2>3. Passed' = Data(resp.size)
    <3>1. CASE memory
      <4>1. body' = Part(Pieces, 0, Come') /\ file' = None
        BY <1>6, <1>9, <1>10, <1>11, <3>1 DEF InMemory, ToDisk
      <4>2. Passed' = SubSeq(Part(Pieces, 0, Come'), Offset + 1, Offset + resp.size)
        BY <1>6, <1>11, <4>1 DEF Passed
      <4>3. QED
        BY <1>1, <1>3, <1>4, <1>7, <2>2, <4>2, MemoryIs
    <3>2. CASE ~memory
      <4>1. file' = "response" /\ stored' = Data(resp.size)
        BY <1>6, <1>11, <1>13, <2>2, <3>2 DEF InMemory, ToDisk
      <4>2. SubSeq(Data(resp.size), 1, resp.size) = Data(resp.size)
        BY <1>7, DataAll
      <4>3. QED
        BY <1>6, <1>11, <4>1, <4>2, BackendConnectionAssumption DEF Passed
    <3>3. QED
      BY <3>1, <3>2
  <2>4. Passes(Passed)'
    BY <1>6, <1>7, <1>11, <2>3 DEF Passes, Bodied
  <2>5. Stage'
    BY <2>1, <2>4 DEF Stage, Sending
  <2>6. QED
    BY <1>1, <1>2, <1>4, <1>15, <1>16, <2>5 DEF ExchangeInv
<1>18. CASE count # left
  <2>1. state' = "READING_BODY" /\ left' = left - count /\ count = g
    BY <1>1, <1>8, <1>10, <1>18
  <2>2. left' > 0 /\ left' + (Come' - 2) = resp.size /\ Come' >= 2 /\ Come' - 2 <= resp.size
    <3>1. Come' = Come + g /\ left' = left - g /\ g # left /\ g <= left /\ g \in Nat
      BY <1>8, <1>12, <1>18, <2>1
    <3>2. Come \in Nat /\ Come >= 2 /\ left \in Nat /\ left + (Come - 2) = resp.size
      BY <1>4, <1>6, <1>7
    <3>3. QED
      BY ONLY <3>1, <3>2
  <2>3. InMemory' \/ ToDisk'
    <3>1. CASE memory
      <4>1. InMemory
        BY <1>6, <3>1 DEF ToDisk
      <4>2. inp' = Come' /\ body' = Part(Pieces, 0, Come')
        BY <1>9, <1>10, <1>12, <2>1, <3>1, <4>1 DEF InMemory
      <4>3. QED
        BY <1>5, <1>11, <3>1, <4>1, <4>2 DEF InMemory, Gathered
    <3>2. CASE ~memory
      <4>1. ToDisk
        BY <1>6, <3>2 DEF InMemory
      <4>2. stored' = Data(Come' - 2) /\ body' = <<>> /\ inp' = inp
        BY <1>10, <1>12, <1>13, <2>1, <3>2
      <4>3. QED
        BY <1>11, <2>2, <3>2, <4>1, <4>2 DEF ToDisk
    <3>3. QED
      BY <3>1, <3>2
  <2>4. Stage'
    BY <1>1, <1>5, <1>6, <1>11, <2>1, <2>2, <2>3 DEF Stage, Sending
  <2>5. QED
    BY <1>1, <1>2, <1>4, <1>15, <1>16, <2>4 DEF ExchangeInv
<1>19. QED
  BY <1>17, <1>18

(***************************************************************************)
(* Reading a chunked body.                                                 *)
(***************************************************************************)
LEMMA ExchangeReadChunkedBody ==
    ASSUME ExchangeInv, ReadChunkedBody
    PROVE  ExchangeInv'
<1> USE DEF sendVars, readVars, clientVars, fileVars
<1>1. /\ open /\ open' /\ Read /\ state = "READING_CHUNKED_BODY"
      /\ UNCHANGED <<running, sendVars, inp, left, out, memory, theirs, file, lent, answer>>
  BY DEF ReadChunkedBody, In
<1>2. TypeOK /\ Unread /\ Sends /\ Stage /\ answer = None
  BY <1>1 DEF ExchangeInv
<1>3. /\ resp \in Responses /\ todo \in Seq(Piece) /\ wire \in Seq(Piece)
      /\ UNCHANGED <<resp, request, todo, closed, edge, writable>>
  BY <1>1, <1>2 DEF TypeOK, Read
<1>4. /\ Come \in Nat /\ Come' \in Nat /\ Come <= Come' /\ Come' <= Len(Pieces)
      /\ Got = Part(Pieces, Come, Come') /\ Got \in Seq(Piece) /\ wire' \in Seq(Piece) /\ Unread'
  BY <1>1, <1>2, <1>3, ReadIs
<1>5. Pieces' = Pieces /\ IsFcgi' = IsFcgi /\ resp' = resp
  BY <1>3 DEF Pieces, IsFcgi
<1>6. resp.kind = "chunked" /\ Come >= 2 /\ ToDisk /\ filesize = Come - 2
  BY <1>1, <1>2 DEF Stage
<1>7. ~IsFcgi
  BY <1>6 DEF IsFcgi
<1>8. /\ resp.size \in Nat /\ resp.data = resp.size /\ Len(Pieces) = 3 + resp.size
      /\ Come <= 2 + resp.size
  <2>1. resp.size \in Nat /\ resp.data = resp.size
    BY <1>3, <1>6, ResponseIs
  <2>2. Len(Pieces) = 3 + resp.data
    BY <1>3, <1>6, <1>7, StreamIs
  <2>3. QED
    BY <1>4, <1>6, <2>1, <2>2 DEF ToDisk
<1> DEFINE ended == Come' = 3 + resp.data
           upto == IF ended THEN 2 + resp.data ELSE Come'
<1>9. HasEnd(Got) <=> ended
  BY <1>3, <1>4, <1>7, <1>8, EndIs
<1>10. DataOf(Got) = Part(Pieces, Come, upto)
  BY <1>3, <1>4, <1>7, <1>8, EndIs
<1>11. upto \in Nat /\ Come <= upto /\ upto <= 2 + resp.data /\ 2 <= Come
  BY <1>4, <1>6, <1>8
<1> HIDE DEF upto, ended
<1>12. /\ Data(Come - 2) \o Part(Pieces, Come, upto) = Data(upto - 2)
       /\ Len(Part(Pieces, Come, upto)) = upto - Come
  BY <1>3, <1>4, <1>7, <1>11, DataGrows
<1>13. stored' = Data(upto - 2)
  BY <1>6, <1>10, <1>12 DEF ReadChunkedBody, ToDisk
<1>14. filesize' = upto - 2 /\ upto - 2 \in Nat
  <2>1. filesize' = (Come - 2) + (upto - Come)
    BY <1>6, <1>10, <1>12 DEF ReadChunkedBody
  <2>2. QED
    BY <1>4, <1>11, <2>1
<1>15. /\ ended => body' = Got /\ state' = "RESPONSE_COMPLETED"
       /\ ~ended => body' = <<>> /\ state' = "READING_CHUNKED_BODY"
  BY <1>1, <1>9 DEF ReadChunkedBody
<1>16. inp' = 0 /\ memory' = memory /\ file' = "response" /\ ~memory
  BY <1>1, <1>6 DEF ToDisk
<1>17. TypeOK'
  <2>1. state' \in States /\ readable' \in BOOLEAN
    BY <1>1, <1>15 DEF Read, States, Reading
  <2>2. stored' \in Seq(Piece)
    BY <1>13, <1>14, DataAll
  <2>3. body' \in Seq(Piece) /\ inp' \in 0 .. Len(body')
    <3>1. body' \in Seq(Piece)
      <4>1. <<>> \in Seq(Piece)
        OBVIOUS
      <4>2. QED
        BY <1>4, <1>15, <4>1
    <3>2. QED
      BY <1>16, <3>1
  <2>4. QED
    BY <1>1, <1>2, <1>3, <1>4, <1>14, <2>1, <2>2, <2>3 DEF TypeOK
<1>18. Sends'
  BY <1>1, <1>2, <1>3, <1>15 DEF Sends, Sending, Sent, Reading
<1>19. Stage'
  <2>1. CASE ended
    <3>1. filesize' = resp.size /\ stored' = Data(filesize')
      BY <1>8, <1>13, <1>14, <2>1 DEF upto
    <3>2. filesize' \in 0 .. resp.size
      BY <1>8, <3>1
    <3>3. SubSeq(stored', 1, filesize') = Data(resp.size)
      BY <1>8, <3>1, DataAll
    <3>4. Passed' = Data(resp.size)
      BY <1>5, <1>6, <1>16, <3>3, BackendConnectionAssumption DEF Passed
    <3>5. Passes(Passed)'
      BY <1>5, <1>6, <1>8, <3>4 DEF Passes, Bodied
    <3>6. QED
      BY <1>15, <2>1, <3>5 DEF Stage, Sending
  <2>2. CASE ~ended
    <3>1. upto = Come'
      BY <2>2 DEF upto
    <3>2. Come' >= 2 /\ Come' - 2 <= resp.size
      BY <1>4, <1>8, <1>11, <3>1
    <3>3. ToDisk'
      BY <1>5, <1>13, <1>15, <1>16, <2>2, <3>1, <3>2 DEF ToDisk
    <3>4. QED
      BY <1>5, <1>6, <1>14, <1>15, <2>2, <3>1, <3>2, <3>3 DEF Stage, Sending
  <2>3. QED
    BY <2>1, <2>2
<1>20. QED
  BY <1>1, <1>2, <1>4, <1>17, <1>18, <1>19 DEF ExchangeInv

(***************************************************************************)
(* Reading a body that ends with the connection.                           *)
(***************************************************************************)
LEMMA ExchangeReadUnknownSizeBody ==
    ASSUME ExchangeInv, ReadUnknownSizeBody
    PROVE  ExchangeInv'
<1> USE DEF sendVars, readVars, clientVars, fileVars
<1>1. /\ open /\ open' /\ Read /\ state = "READING_UNKNOWN_SIZE_BODY"
      /\ UNCHANGED <<running, state, sendVars, readVars, memory, theirs, file, lent, answer>>
  BY DEF ReadUnknownSizeBody, In
<1>2. TypeOK /\ Unread /\ Sends /\ Stage /\ answer = None
  BY <1>1 DEF ExchangeInv
<1>3. /\ resp \in Responses /\ todo \in Seq(Piece) /\ wire \in Seq(Piece)
      /\ UNCHANGED <<resp, request, todo, closed, edge, writable>>
  BY <1>1, <1>2 DEF TypeOK, Read
<1>4. /\ Come \in Nat /\ Come' \in Nat /\ Come <= Come' /\ Come' <= Len(Pieces)
      /\ Come' = Come + Len(Got)
      /\ Got = Part(Pieces, Come, Come') /\ wire' \in Seq(Piece) /\ Unread'
  BY <1>1, <1>2, <1>3, ReadIs
<1>5. IsFcgi' = IsFcgi /\ resp' = resp
  BY <1>3 DEF IsFcgi
<1>6. resp.kind = "close" /\ Come >= 2 /\ ToDisk /\ filesize = Come - 2
  BY <1>1, <1>2 DEF Stage
<1>7. ~IsFcgi
  BY <1>6 DEF IsFcgi
<1>8. /\ resp.size \in Nat /\ resp.data = resp.size /\ Len(Pieces) = 2 + resp.size
  <2>1. resp.size \in Nat /\ resp.data = resp.size
    BY <1>3, <1>6, ResponseIs
  <2>2. Len(Pieces) = 2 + resp.data
    BY <1>3, <1>6, <1>7, StreamIs
  <2>3. QED
    BY <2>1, <2>2
<1>9. 2 <= Come /\ Come' <= 2 + resp.data
  BY <1>4, <1>6, <1>8
<1>10. Data(Come - 2) \o Part(Pieces, Come, Come') = Data(Come' - 2)
  BY <1>3, <1>4, <1>7, <1>9, DataGrows
<1>11. stored' = Data(Come' - 2)
  BY <1>4, <1>6, <1>10 DEF ReadUnknownSizeBody, ToDisk
<1>12. filesize' = Come' - 2 /\ Come' - 2 \in Nat
  <2>1. filesize' = (Come - 2) + Len(Got)
    BY <1>6 DEF ReadUnknownSizeBody
  <2>2. QED
    BY <1>4, <1>6, <2>1
<1>13. TypeOK'
  <2>1. readable' \in BOOLEAN
    BY <1>1 DEF Read
  <2>2. stored' \in Seq(Piece)
    BY <1>11, <1>12, DataAll
  <2>3. QED
    BY <1>1, <1>2, <1>3, <1>4, <1>12, <2>1, <2>2 DEF TypeOK
<1>14. Sends'
  BY <1>1, <1>2, <1>3 DEF Sends, Sending, Sent, Reading
<1>15. Come' >= 2 /\ Come' - 2 <= resp.size
  BY <1>4, <1>8, <1>9
<1>16. ToDisk'
  BY <1>1, <1>5, <1>6, <1>11, <1>15 DEF ToDisk
<1>17. Stage'
  BY <1>1, <1>5, <1>6, <1>12, <1>15, <1>16 DEF Stage, Sending
<1>18. QED
  BY <1>1, <1>2, <1>4, <1>13, <1>14, <1>17 DEF ExchangeInv

(***************************************************************************)
(* Its end, or what the alarm takes for it.                                *)
(***************************************************************************)
LEMMA ExchangeTakesForAll ==
    ASSUME ExchangeInv, open, open', state = "READING_UNKNOWN_SIZE_BODY",
           state' = "RESPONSE_COMPLETED", running' \in BOOLEAN,
           UNCHANGED <<netVars, flagVars, sendVars, readVars, clientVars, fileVars, answer>>
    PROVE  ExchangeInv'
<1> USE DEF netVars, flagVars, sendVars, readVars, clientVars, fileVars
<1>1. TypeOK /\ Unread /\ Sends /\ Stage /\ answer = None
  BY DEF ExchangeInv
<1>2. resp \in Responses /\ wire \in Seq(Piece) /\ todo \in Seq(Piece) /\ filesize \in Nat
  BY <1>1 DEF TypeOK
<1>3. resp.kind = "close" /\ Come >= 2 /\ ToDisk /\ filesize = Come - 2
  BY <1>1 DEF Stage
<1>4. Unread'
  BY <1>1, NothingRead
<1>5. TypeOK'
  <2>1. state' \in States
    BY DEF States
  <2>2. QED
    BY <1>1, <2>1 DEF TypeOK
<1>6. Sends'
  BY <1>1 DEF Sends, Sending, Sent, Reading
<1>7. Passes(Passed)
  <2>1. resp.size \in Nat
    BY <1>2, ResponseIs
  <2>2. filesize \in 0 .. resp.size /\ stored = Data(filesize) /\ file = "response"
    BY <1>2, <1>3, <2>1 DEF ToDisk
  <2>3. QED
    BY <1>2, <1>3, <2>2, DiskPasses DEF Bodied
<1>8. Passes(Passed)'
  BY <1>7 DEF Passes, Passed
<1>9. Stage'
  BY <1>8 DEF Stage, Sending
<1>10. QED
  BY <1>1, <1>4, <1>5, <1>6, <1>9 DEF ExchangeInv

(***************************************************************************)
(* The end of file completes a body of unknown size, and so does the       *)
(* alarm.                                                                  *)
(***************************************************************************)
LEMMA ExchangeReadFails ==
    ASSUME ExchangeInv, ReadFails \/ AlarmCompletes
    PROVE  ExchangeInv'
<1>1. CASE ReadFails /\ state' = "PREPARING_ERROR_PAGE"
  BY <1>1, ExchangeErrors
<1>2. CASE ReadFails /\ state' # "PREPARING_ERROR_PAGE"
  <2>1. /\ open /\ open' /\ state = "READING_UNKNOWN_SIZE_BODY" /\ state' = "RESPONSE_COMPLETED"
        /\ running /\ running' = running
        /\ UNCHANGED <<netVars, flagVars, sendVars, readVars, clientVars, fileVars, answer>>
    BY <1>2 DEF ReadFails
  <2>2. running' \in BOOLEAN
    BY <2>1 DEF ExchangeInv, TypeOK
  <2>3. QED
    BY <2>1, <2>2, ExchangeTakesForAll
<1>3. CASE AlarmCompletes
  <2>1. /\ open /\ open' /\ state = "READING_UNKNOWN_SIZE_BODY" /\ state' = "RESPONSE_COMPLETED"
        /\ running' \in BOOLEAN
        /\ UNCHANGED <<netVars, flagVars, sendVars, readVars, clientVars, fileVars, answer>>
    BY <1>3 DEF AlarmCompletes
  <2>2. QED
    BY <2>1, ExchangeTakesForAll
<1>4. QED
  BY <1>1, <1>2, <1>3

----------------------------------------------------------------------------
(***************************************************************************)
(* Reading the records of an application.                                  *)
(***************************************************************************)

(***************************************************************************)
(* Of so many halves of records, as many records are complete.             *)
(***************************************************************************)
LEMMA HalvesOf ==
    ASSUME NEW c \in Nat, NEW d \in Nat, c <= d
    PROVE  /\ c \div 2 \in Nat /\ d \div 2 \in Nat /\ c \div 2 <= d \div 2
           /\ 2 * (c \div 2) <= c /\ c <= 2 * (c \div 2) + 1
           /\ 2 * (d \div 2) <= d /\ d <= 2 * (d \div 2) + 1
           /\ (d - 2 * (c \div 2)) \div 2 = d \div 2 - c \div 2
           /\ (2 * c) \div 2 = c
  BY SMT

(***************************************************************************)
(* With more records the output that has come does not become less.        *)
(***************************************************************************)
LEMMA OutputGrows ==
    ASSUME resp \in Responses, IsFcgi, NEW k \in Nat, NEW m \in Nat, k <= m
    PROVE  /\ OutputTo(2 * k) \in Nat /\ OutputTo(2 * m) \in Nat
           /\ OutputTo(2 * k) <= OutputTo(2 * m)
           /\ OutputTo(2 * m) <= 2 + resp.size
           /\ m > Len(resp.records) => OutputTo(2 * m) = 2 + resp.size
<1> DEFINE r == resp.records
           all == 2 + resp.size
<1>1. all \in Nat /\ r \in Records(all)
  BY ResponseIs
<1>2. /\ r \in Seq(0 .. all) /\ Len(r) \in Nat /\ Len(r) > 0
      /\ \A i, j \in 1 .. Len(r) : i <= j => r[i] <= r[j]
  BY <1>1, RecordsAre
<1>3. Offset + resp.size = all
  BY OfIs DEF Offset, Header
<1>4. ASSUME NEW i \in Nat
      PROVE  OutputTo(2 * i) = IF i = 0 THEN 0 ELSE IF i > Len(r) THEN all ELSE r[i]
  <2>1. (2 * i) \div 2 = i /\ (2 * i = 0 <=> i = 0)
    BY <1>4, HalvesOf
  <2>2. QED
    BY <1>3, <2>1 DEF OutputTo
<1>5. \A i \in 1 .. Len(r) : r[i] \in Nat /\ r[i] <= all
  BY <1>1, <1>2
<1> HIDE DEF r, all
<1>6. ASSUME NEW i \in Nat
      PROVE  OutputTo(2 * i) \in Nat /\ OutputTo(2 * i) <= all
  <2>1. CASE i = 0
    BY <1>1, <1>4, <2>1
  <2>2. CASE i > Len(r)
    <3>1. i # 0
      BY <1>2, <2>2
    <3>2. OutputTo(2 * i) = all
      BY <1>4, <2>2, <3>1
    <3>3. QED
      BY <1>1, <3>2
  <2>3. CASE i # 0 /\ ~(i > Len(r))
    <3>1. i \in 1 .. Len(r)
      BY <1>2, <2>3
    <3>2. OutputTo(2 * i) = r[i]
      BY <1>4, <2>3
    <3>3. QED
      BY <1>5, <3>1, <3>2
  <2>4. QED
    BY <2>1, <2>2, <2>3
<1>7. OutputTo(2 * k) <= OutputTo(2 * m)
  <2>1. CASE k = 0
    <3>1. OutputTo(2 * k) = 0
      BY <1>4, <2>1
    <3>2. QED
      BY <1>6, <3>1
  <2>2. CASE m > Len(r)
    <3>1. OutputTo(2 * m) = all
      BY <1>2, <1>4, <2>2
    <3>2. QED
      BY <1>6, <3>1
  <2>3. CASE k # 0 /\ ~(m > Len(r))
    <3>1. k \in 1 .. Len(r) /\ m \in 1 .. Len(r) /\ m # 0 /\ ~(k > Len(r))
      BY <1>2, <2>3
    <3>2. OutputTo(2 * k) = r[k] /\ OutputTo(2 * m) = r[m]
      BY <1>4, <2>3, <3>1
    <3>3. QED
      BY <1>2, <3>1, <3>2
  <2>4. QED
    BY <2>1, <2>2, <2>3
<1>8. m > Len(r) => OutputTo(2 * m) = all
  BY <1>2, <1>4
<1>9. QED
  BY <1>6, <1>7, <1>8 DEF r, all

(***************************************************************************)
(* What is in the buffer: its complete records, the output they hold, and  *)
(* the half of another that stays.                                         *)
(***************************************************************************)
LEMMA RecordsRead ==
    ASSUME resp \in Responses, IsFcgi,
           NEW c \in Nat, NEW d \in Nat, c <= d, c < Len(Pieces), d <= Len(Pieces),
           NEW b, b = Part(Pieces, 2 * (c \div 2), d)
    PROVE  /\ SubSeq(b, Whole(b) + 1, Len(b)) = Part(Pieces, 2 * (d \div 2), d)
           /\ Output(b) = Part(Full(resp.size), OutputTo(2 * (c \div 2)), OutputTo(2 * (d \div 2)))
           /\ (Whole(b) # 0 /\ b[Whole(b)].n = 2 * (Len(resp.records) + 1)) <=> d = Len(Pieces)
<1> DEFINE k == c \div 2
           m == d \div 2
           p == 2 * k
           q == 2 * m
           N == Len(resp.records)
<1>1. /\ k \in Nat /\ m \in Nat /\ k <= m
      /\ p <= c /\ c <= p + 1 /\ q <= d /\ d <= q + 1
      /\ (d - p) \div 2 = m - k
  BY HalvesOf
<1>2. /\ Pieces \in Seq(Piece) /\ Len(Pieces) = 2 * (N + 1)
      /\ \A i \in 1 .. Len(Pieces) : Pieces[i].n = i
  BY HalvesAre
<1>3. N \in Nat
  BY ResponseIs, RecordsAre, 2 + resp.size \in Nat
<1> HIDE DEF k, m, N
<1>4. p \in Nat /\ q \in Nat /\ p <= q /\ q <= d /\ p <= d
  BY <1>1
<1>5. b = Part(Pieces, p, d)
  BY DEF k
<1> HIDE DEF p, q
<1>6. b \in Seq(Piece) /\ Len(b) = d - p /\ \A i \in 1 .. d - p : b[i] = Pieces[p + i]
  <2>1. Pieces \in Seq(Piece) /\ p \in Nat /\ d \in Nat /\ p <= d /\ d <= Len(Pieces)
    BY <1>2, <1>4
  <2>2. /\ Part(Pieces, p, d) \in Seq(Piece) /\ Len(Part(Pieces, p, d)) = d - p
        /\ \A i \in 1 .. d - p : Part(Pieces, p, d)[i] = Pieces[p + i]
    BY ONLY <2>1, PartIs, ZenonT(40)
  <2>3. QED
    BY <1>5, <2>2
<1>7. Whole(b) = q - p /\ Whole(b) = 2 * (m - k)
  <2>1. Whole(b) = 2 * ((d - p) \div 2)
    BY <1>6 DEF Whole
  <2>2. Whole(b) = 2 * (m - k) /\ p = 2 * k /\ q = 2 * m
    BY <1>1, <2>1 DEF p, q
  <2>3. QED
    BY ONLY <1>1, <2>2
<1>8. SubSeq(b, Whole(b) + 1, Len(b)) = Part(Pieces, q, d)
  <2>1. /\ Pieces \in Seq(Piece) /\ p \in Nat /\ d \in Nat /\ p <= d /\ d <= Len(Pieces)
        /\ q - p \in Nat /\ d - p \in Nat /\ q - p <= d - p /\ p + (d - p) <= d
        /\ p + (q - p) = q /\ p + (d - p) = d
    BY <1>2, <1>4
  <2>2. Part(Part(Pieces, p, d), q - p, d - p) = Part(Pieces, p + (q - p), p + (d - p))
    BY ONLY <2>1, PartOfPart
  <2>3. SubSeq(b, Whole(b) + 1, Len(b)) = Part(b, q - p, d - p)
    BY <1>6, <1>7 DEF Part
  <2>4. QED
    BY <1>5, <2>1, <2>2, <2>3
<1>9. CASE k = m
  <2>1. Whole(b) = 0 /\ p = q
    BY <1>1, <1>7, <1>9 DEF p, q
  <2>2. Output(b) = <<>>
    BY <2>1 DEF Output
  <2>3. OutputTo(p) \in Nat
    BY <1>1, OutputGrows DEF p
  <2>4. Part(Full(resp.size), OutputTo(p), OutputTo(q)) = <<>>
    BY <2>1, <2>3, PartNone
  <2>5. d # Len(Pieces)
    BY <1>1, <1>2, <1>3, <1>9 DEF p, q
  <2>6. QED
    BY <1>8, <2>1, <2>2, <2>4, <2>5 DEF p, q, k, m
<1>10. CASE k # m
  <2>1. 1 \in 1 .. d - p /\ Whole(b) \in 1 .. d - p /\ p + Whole(b) = q /\ Whole(b) # 0
    BY <1>1, <1>4, <1>7, <1>10
  <2>2. p + 1 \in 1 .. Len(Pieces) /\ q \in 1 .. Len(Pieces)
    BY <1>2, <1>3, <1>4, <2>1
  <2>3. b[1] = Pieces[p + 1] /\ b[Whole(b)] = Pieces[q]
    BY <1>6, <2>1
  <2>4. b[1].n = p + 1 /\ b[Whole(b)].n = q
    BY <1>2, <2>2, <2>3
  <2>5. b[1].n - 1 = p
    BY <1>4, <2>4
  <2>6. Output(b) = Part(Full(resp.size), OutputTo(p), OutputTo(q))
    BY <2>1, <2>4, <2>5 DEF Output, Part, Full
  <2>7. q = 2 * (N + 1) <=> d = Len(Pieces)
    BY <1>1, <1>2, <1>3, <1>4 DEF q
  <2>8. QED
    BY <1>8, <2>1, <2>4, <2>6, <2>7 DEF p, q, k, m, N
<1>11. QED
  BY <1>9, <1>10

(***************************************************************************)
(* What is done with the output: the headers are gathered, and what comes  *)
(* after them is written to the file.                                      *)
(***************************************************************************)
LEMMA OutputTaken ==
    ASSUME TypeOK, resp \in Responses,
           state \in {"READING_HEADERS", "READING_BODY"},
           state = "READING_HEADERS" => HeadersOf,
           state = "READING_BODY" => BodyOf,
           NEW old, old = OutputCome, old \in Nat,
           NEW new \in Nat, old <= new, new <= 2 + resp.size,
           TakeOutput(Part(Full(resp.size), old, new))
    PROVE  /\ file' \in {"response", None} /\ lent' \subseteq {"payload", "response"}
           /\ out' \in Seq(Piece) /\ stored' \in Seq(Piece) /\ filesize' \in Nat
           /\ \/ new < 2 /\ file' = None /\ out' = Part(Full(resp.size), 0, new)
              \/ new >= 2 /\ file' = "response" /\ filesize' = new - 2 /\ stored' = Data(new - 2)
<1> DEFINE f == Full(resp.size)
           s == Part(f, old, new)
           two == 2
<1>1. resp.size \in Nat
  BY ResponseIs
<1>2. /\ f \in Seq(Piece) /\ Len(f) = 2 + resp.size
      /\ \A i \in 1 .. resp.size : f[2 + i] = [part |-> "data", n |-> i]
  BY <1>1, FullIs
<1>3. ASSUME NEW k \in 0 .. resp.size PROVE Part(f, two, 2 + k) = Data(k)
  <2>1. /\ resp.size \in Nat /\ k \in Nat /\ k <= resp.size
        /\ f \in Seq(Piece) /\ 2 + resp.size <= Len(f)
    BY <1>1, <1>2
  <2>2. QED
    BY <1>2, <2>1, DataIs
<1>4. two = 2 /\ Offset = two
  BY OfIs DEF Offset, Header
<1>5. TakeOutput(s)
  OBVIOUS
<1>6. /\ state = "READING_HEADERS" => file = None /\ old < 2 /\ out = Part(f, 0, old)
      /\ state = "READING_BODY" => file = "response" /\ old >= 2 /\ filesize = old - 2
                                    /\ stored = Data(old - 2)
  BY DEF HeadersOf, BodyOf
<1> HIDE DEF f, two
<1>7. s \in Seq(Piece) /\ Len(s) = new - old
  <2>1. f \in Seq(Piece) /\ old \in Nat /\ new \in Nat /\ old <= new /\ new <= Len(f)
    BY <1>2
  <2>2. QED
    BY ONLY <2>1, PartIs, ZenonT(40)
<1> HIDE DEF s
<1>8. /\ out \in Seq(Piece) /\ stored \in Seq(Piece)
      /\ filesize \in Nat /\ lent \subseteq {"payload", "response"}
  BY DEF TypeOK
<1>9. CASE state = "READING_HEADERS"
  <2>1. out \o s = Part(f, 0, new)
    <3>1. /\ f \in Seq(Piece) /\ 0 \in Nat /\ old \in Nat /\ new \in Nat /\ 0 <= old /\ old <= new
          /\ new <= Len(f)
      BY <1>2
    <3>2. Part(f, 0, old) \o Part(f, old, new) = Part(f, 0, new)
      BY ONLY <3>1, PartsJoined, ZenonT(40)
    <3>3. QED
      BY <1>6, <1>9, <3>2 DEF s
  <2> DEFINE t == Part(f, 0, new)
  <2>2. t \in Seq(Piece) /\ Len(t) = new
    <3>1. f \in Seq(Piece) /\ 0 \in Nat /\ new \in Nat /\ 0 <= new /\ new <= Len(f) /\ new - 0 = new
      BY <1>2
    <3>2. QED
      BY ONLY <3>1, PartIs, ZenonT(40)
  <2>3. Rest(t) = SubSeq(t, Offset + 1, Len(t))
    BY DEF Rest
  <2>4. /\ new >= 2 => Part(t, two, new) = Part(f, two, new)
        /\ new >= 2 => Part(t, 0, two) \in Seq(Piece)
    <3>1. SUFFICES ASSUME new >= 2
                   PROVE  Part(t, two, new) = Part(f, two, new) /\ Part(t, 0, two) \in Seq(Piece)
      OBVIOUS
    <3>2. /\ f \in Seq(Piece) /\ 0 \in Nat /\ new \in Nat /\ 0 <= new /\ new <= Len(f)
          /\ two \in Nat /\ two <= new /\ 0 + new <= new /\ 0 + two = two /\ 0 + new = new
      BY <1>2, <1>4, <3>1
    <3>3. Part(Part(f, 0, new), two, new) = Part(f, 0 + two, 0 + new)
      BY ONLY <3>2, PartOfPart
    <3>4. t \in Seq(Piece) /\ 0 \in Nat /\ two \in Nat /\ 0 <= two /\ two <= Len(t)
      BY <2>2, <3>2
    <3> HIDE DEF t
    <3>5. Part(t, 0, two) \in Seq(Piece)
      BY ONLY <3>4, PartIs, ZenonT(40)
    <3>6. QED
      BY <3>2, <3>3, <3>5 DEF t
  <2> HIDE DEF t
  <2>5. CASE new < 2
    <3>1. out' = t /\ UNCHANGED <<fileVars, filesize>>
      BY <1>4, <1>5, <1>9, <2>1, <2>2, <2>5 DEF TakeOutput, t
    <3>2. QED
      BY <1>6, <1>8, <1>9, <2>2, <2>5, <3>1 DEF fileVars, t, f
  <2>6. CASE new >= 2
    <3>1. /\ file' = "response" /\ lent' = lent \cup {"response"}
          /\ out' = SubSeq(t, 1, Offset) /\ stored' = Rest(t) /\ filesize' = Len(Rest(t))
      <4>1. ~(Len(t) < Offset)
        BY <1>4, <2>2, <2>6
      <4>2. QED
        BY <1>5, <1>9, <2>1, <4>1 DEF TakeOutput, Opened, t
    <3>2. Rest(t) = Part(t, two, new) /\ out' = Part(t, 0, two)
      BY <1>4, <2>2, <2>3, <3>1 DEF Part
    <3>3. new - 2 \in 0 .. resp.size /\ 2 + (new - 2) = new /\ new - 2 \in Nat
      BY <1>1, <2>6
    <3>4. Rest(t) = Data(new - 2)
      BY <1>3, <2>4, <2>6, <3>2, <3>3
    <3>5. Len(Data(new - 2)) = new - 2 /\ Data(new - 2) \in Seq(Piece)
      BY <3>3, DataAll
    <3>6. out' \in Seq(Piece)
      BY <2>4, <2>6, <3>2
    <3>7. QED
      BY <1>8, <2>6, <3>1, <3>3, <3>4, <3>5, <3>6
  <2>7. QED
    BY <2>5, <2>6
<1>10. CASE state = "READING_BODY"
  <2>1. stored' = stored \o s /\ filesize' = filesize + Len(s) /\ UNCHANGED <<out, file, lent>>
    BY <1>5, <1>10 DEF TakeOutput
  <2>2. /\ old - 2 \in 0 .. resp.size /\ 2 + (old - 2) = old
        /\ new - 2 \in 0 .. resp.size /\ 2 + (new - 2) = new /\ new - 2 \in Nat
        /\ new >= 2
    BY <1>1, <1>6, <1>10
  <2>3. Part(f, two, old) = Data(old - 2) /\ Part(f, two, new) = Data(new - 2)
    BY <1>3, <2>2
  <2>4. /\ f \in Seq(Piece) /\ two \in Nat /\ old \in Nat /\ new \in Nat
        /\ two <= old /\ old <= new /\ new <= Len(f)
    BY <1>2, <1>4, <1>6, <1>10
  <2>5. Part(f, two, old) \o Part(f, old, new) = Part(f, two, new)
    BY ONLY <2>4, PartsJoined, ZenonT(40)
  <2>6. stored' = Data(new - 2)
    BY <1>6, <1>10, <2>1, <2>3, <2>5 DEF s
  <2>7. filesize' = new - 2
    BY <1>6, <1>7, <1>10, <2>1
  <2>8. stored' \in Seq(Piece)
    BY <2>2, <2>6, DataAll
  <2>9. QED
    BY <1>6, <1>8, <1>10, <2>1, <2>2, <2>6, <2>7, <2>8
<1>11. QED
  BY <1>9, <1>10

(***************************************************************************)
(* What a read of records has brought is taken, and nothing twice.         *)
(***************************************************************************)
LEMMA ExchangeReadRecords ==
    ASSUME ExchangeInv, ReadRecords
    PROVE  ExchangeInv'
<1> USE DEF sendVars, readVars, clientVars
<1>1. /\ open /\ open' /\ Read /\ IsFcgi /\ state \in {"READING_HEADERS", "READING_BODY"}
      /\ UNCHANGED <<running, sendVars, inp, left, memory, theirs, answer>>
  BY DEF ReadRecords, In
<1>2. TypeOK /\ Unread /\ Sends /\ Stage /\ answer = None
  BY <1>1 DEF ExchangeInv
<1>3. /\ resp \in Responses /\ todo \in Seq(Piece) /\ wire \in Seq(Piece)
      /\ UNCHANGED <<resp, request, todo, closed, edge, writable>>
  BY <1>1, <1>2 DEF TypeOK, Read
<1>4. /\ Come \in Nat /\ Come' \in Nat /\ Come <= Come' /\ Come' <= Len(Pieces)
      /\ Got = Part(Pieces, Come, Come') /\ wire' \in Seq(Piece) /\ Unread'
  BY <1>1, <1>2, <1>3, ReadIs
<1>5. /\ Pieces \in Seq(Piece) /\ Len(Pieces) \in Nat
      /\ Pieces' = Pieces /\ IsFcgi' = IsFcgi /\ resp' = resp
  BY <1>3, PiecesAre DEF Pieces, IsFcgi
<1>6. /\ Come < Len(Pieces) /\ body = Part(Pieces, Complete, Come) /\ inp = 0
      /\ state = "READING_HEADERS" => HeadersOf
      /\ state = "READING_BODY" => BodyOf
  BY <1>1, <1>2 DEF Stage
<1> DEFINE b == body \o Got
           old == OutputCome
           new == OutputTo(2 * (Come' \div 2))
           s == Part(Full(resp.size), old, new)
<1>7. /\ Complete \in Nat /\ Complete <= Come
      /\ Come \div 2 \in Nat /\ Come' \div 2 \in Nat /\ Come \div 2 <= Come' \div 2
      /\ Come' <= 2 * (Come' \div 2) + 1
  <2>1. Come \in Nat /\ Come' \in Nat /\ Come <= Come'
    BY <1>4
  <2>2. /\ Come \div 2 \in Nat /\ Come' \div 2 \in Nat /\ Come \div 2 <= Come' \div 2
        /\ 2 * (Come \div 2) <= Come /\ Come' <= 2 * (Come' \div 2) + 1
    BY ONLY <2>1, HalvesOf
  <2>3. QED
    BY <2>2 DEF Complete
<1>8. b = Part(Pieces, 2 * (Come \div 2), Come')
  <2>1. /\ Pieces \in Seq(Piece) /\ Complete \in Nat /\ Come \in Nat /\ Come' \in Nat
        /\ Complete <= Come /\ Come <= Come' /\ Come' <= Len(Pieces)
    BY <1>4, <1>5, <1>7
  <2>2. Part(Pieces, Complete, Come) \o Part(Pieces, Come, Come') = Part(Pieces, Complete, Come')
    BY ONLY <2>1, PartsJoined, ZenonT(40)
  <2>3. QED
    BY <1>4, <1>6, <2>2 DEF Complete
<1> HIDE DEF b
<1>9. /\ SubSeq(b, Whole(b) + 1, Len(b)) = Part(Pieces, 2 * (Come' \div 2), Come')
      /\ Output(b) = Part(Full(resp.size), OutputTo(2 * (Come \div 2)), new)
      /\ (Whole(b) # 0 /\ b[Whole(b)].n = 2 * (Len(resp.records) + 1)) <=> Come' = Len(Pieces)
  <2>1. /\ resp \in Responses /\ IsFcgi /\ Come \in Nat /\ Come' \in Nat /\ Come <= Come'
        /\ Come < Len(Pieces) /\ Come' <= Len(Pieces)
        /\ b = Part(Pieces, 2 * (Come \div 2), Come')
    BY <1>1, <1>3, <1>4, <1>6, <1>8
  <2>2. QED
    BY ONLY <2>1, RecordsRead, ZenonT(40)
<1>10. Output(b) = s
  BY <1>9 DEF OutputCome, Complete
<1>11. /\ old \in Nat /\ new \in Nat /\ old <= new /\ new <= 2 + resp.size
       /\ Come' = Len(Pieces) => new = 2 + resp.size
       /\ resp.size \in Nat
  <2>1. Come' = Len(Pieces) => Come' \div 2 > Len(resp.records)
    <3>1. Len(Pieces) = 2 * (Len(resp.records) + 1)
      BY <1>1, <1>3, HalvesAre
    <3>2. Len(resp.records) \in Nat
      BY <1>1, <1>3, ResponseIs, RecordsAre, 2 + resp.size \in Nat
    <3> DEFINE h == Come' \div 2
               N == Len(resp.records)
    <3>3. Come' <= 2 * h + 1 /\ h \in Nat /\ N \in Nat /\ Len(Pieces) = 2 * (N + 1)
      BY <1>7, <3>1, <3>2
    <3> HIDE DEF h, N
    <3>4. Come' = Len(Pieces) => h > N
      BY ONLY <3>3
    <3>5. QED
      BY <3>4 DEF h, N
  <2>2. QED
    BY <1>1, <1>3, <1>7, <2>1, OutputGrows, ResponseIs DEF OutputCome, Complete
<1>12. /\ Complete' = 2 * (Come' \div 2)
       /\ OutputCome' = new
  <2>1. OutputTo(2 * (Come' \div 2)) = OutputTo(Complete)'
    BY <1>5 DEF OutputTo, Complete
  <2>2. QED
    BY <2>1 DEF OutputCome, Complete
<1>13. /\ body' = Part(Pieces, Complete', Come')
       /\ TakeOutput(s)
       /\ state' = IF Come' = Len(Pieces) THEN "RESPONSE_COMPLETED"
                   ELSE IF file' = None THEN "READING_HEADERS" ELSE "READING_BODY"
  BY <1>9, <1>10, <1>12 DEF ReadRecords, b
<1> HIDE DEF old, new, s
<1>14. /\ file' \in {"response", None} /\ lent' \subseteq {"payload", "response"}
       /\ out' \in Seq(Piece) /\ stored' \in Seq(Piece) /\ filesize' \in Nat
       /\ \/ new < 2 /\ file' = None /\ out' = Part(Full(resp.size), 0, new)
          \/ new >= 2 /\ file' = "response" /\ filesize' = new - 2 /\ stored' = Data(new - 2)
  BY <1>1, <1>2, <1>3, <1>6, <1>11, <1>13, OutputTaken DEF old, s
<1>15. body' \in Seq(Piece)
  <2>1. Complete' \in Nat /\ Complete' <= Come'
    <3>1. Come' \in Nat /\ Come' <= Come'
      BY <1>4
    <3>2. Come' \div 2 \in Nat /\ 2 * (Come' \div 2) <= Come'
      BY ONLY <3>1, HalvesOf
    <3>3. QED
      BY <1>12, <3>2
  <2>2. /\ Pieces \in Seq(Piece) /\ Complete' \in Nat /\ Come' \in Nat
        /\ Complete' <= Come' /\ Come' <= Len(Pieces)
    BY <1>4, <1>5, <2>1
  <2>3. Part(Pieces, Complete', Come') \in Seq(Piece)
    BY ONLY <2>2, PartIs, ZenonT(40)
  <2>4. QED
    BY <1>13, <2>3
<1>16. state' \in {"READING_HEADERS", "READING_BODY", "RESPONSE_COMPLETED"}
  BY <1>13
<1>17. TypeOK'
  <2>1. inp' \in 0 .. Len(body')
    BY <1>1, <1>6, <1>15
  <2>2. state' \in States /\ readable' \in BOOLEAN
    BY <1>1, <1>16 DEF Read, States, Reading
  <2>3. QED
    BY <1>1, <1>2, <1>3, <1>4, <1>14, <1>15, <2>1, <2>2 DEF TypeOK
<1>18. Sends'
  BY <1>1, <1>2, <1>3, <1>16 DEF Sends, Sending, Sent, Reading
<1>19. CASE Come' = Len(Pieces)
  <2>1. state' = "RESPONSE_COMPLETED" /\ new = 2 + resp.size /\ new - 2 = resp.size /\ new >= 2
    BY <1>11, <1>13, <1>19
  <2>2. file' = "response" /\ filesize' = resp.size /\ stored' = Data(resp.size)
    BY <1>11, <1>14, <2>1
  <2>3. SubSeq(stored', 1, filesize') = Data(resp.size)
    BY <1>11, <2>2, DataAll
  <2>4. Passed' = Data(resp.size)
    BY <1>1, <1>5, <2>2, <2>3, BackendConnectionAssumption DEF Passed, IsFcgi
  <2>5. Passes(Passed)'
    BY <1>1, <1>5, <1>11, <2>4 DEF Passes, Bodied, IsFcgi
  <2>6. Stage'
    BY <2>1, <2>5 DEF Stage, Sending
  <2>7. QED
    BY <1>1, <1>2, <1>4, <1>17, <1>18, <2>6 DEF ExchangeInv
<1>20. CASE Come' # Len(Pieces)
  <2>1. state' = IF file' = None THEN "READING_HEADERS" ELSE "READING_BODY"
    BY <1>13, <1>20
  <2>2. Come' < Len(Pieces)
    BY <1>4, <1>5, <1>20
  <2>3. inp' = 0 /\ body' = Part(Pieces', Complete', Come')
    BY <1>1, <1>5, <1>6, <1>13
  <2>4. CASE new < 2 /\ file' = None /\ out' = Part(Full(resp.size), 0, new)
    <3>1. state' = "READING_HEADERS"
      BY <2>1, <2>4
    <3>2. HeadersOf'
      BY <1>5, <1>12, <2>4 DEF HeadersOf
    <3>3. Stage'
      BY <1>1, <1>5, <2>2, <2>3, <3>1, <3>2 DEF Stage, Sending
    <3>4. QED
      BY <1>1, <1>2, <1>4, <1>17, <1>18, <3>3 DEF ExchangeInv
  <2>5. CASE /\ new >= 2 /\ file' = "response" /\ filesize' = new - 2
             /\ stored' = Data(new - 2)
    <3>1. state' = "READING_BODY"
      BY <2>1, <2>5, BackendConnectionAssumption
    <3>2. BodyOf'
      BY <1>12, <2>5 DEF BodyOf
    <3>3. Stage'
      BY <1>1, <1>5, <2>2, <2>3, <3>1, <3>2 DEF Stage, Sending
    <3>4. QED
      BY <1>1, <1>2, <1>4, <1>17, <1>18, <3>3 DEF ExchangeInv
  <2>6. QED
    BY <1>14, <2>4, <2>5
<1>21. QED
  BY <1>19, <1>20

----------------------------------------------------------------------------
(***************************************************************************)
(* The slot is freed.                                                      *)
(***************************************************************************)
LEMMA ExchangeFreed ==
    ASSUME ExchangeInv, PrepareErrorPage \/ ResponseCompleted \/ TimeOut
    PROVE  ExchangeInv'
<1> USE DEF sendVars, readVars, clientVars, fileVars, netVars, flagVars, In
<1>1. TypeOK /\ open
  BY DEF ExchangeInv, PrepareErrorPage, ResponseCompleted, TimeOut
<1>2. CASE PrepareErrorPage
  <2>1. /\ memory' \in BOOLEAN /\ open' = FALSE /\ running' = FALSE /\ file' = None
        /\ lent' = lent \ {file} /\ UNCHANGED stored
    BY <1>2 DEF PrepareErrorPage, Freed
  <2>2. open' \in BOOLEAN /\ running' \in BOOLEAN /\ lent' \subseteq {"payload", "response"}
    BY <1>1, <2>1 DEF TypeOK
  <2>3. answer' \in [body : Seq(Piece)] \cup {[error |-> TRUE], None}
    BY <1>2 DEF PrepareErrorPage
  <2>4. TypeOK'
    BY <1>1, <1>2, <2>1, <2>2, <2>3 DEF TypeOK, PrepareErrorPage
  <2>5. QED
    BY <2>1, <2>4, ExchangeEnds
<1>3. CASE TimeOut
  <2>1. /\ open' = FALSE /\ running' = FALSE /\ file' = None
        /\ lent' = lent \ {file} /\ UNCHANGED stored
    BY <1>3 DEF TimeOut, Freed
  <2>2. open' \in BOOLEAN /\ running' \in BOOLEAN /\ lent' \subseteq {"payload", "response"}
    BY <1>1, <2>1 DEF TypeOK
  <2>3. TypeOK'
    BY <1>1, <1>3, <2>1, <2>2 DEF TypeOK, TimeOut
  <2>4. QED
    BY <2>1, <2>3, ExchangeEnds
<1>4. CASE ResponseCompleted
  <2>1. /\ open' = FALSE /\ running' = FALSE /\ file' = None /\ theirs' = file
        /\ UNCHANGED <<stored, lent>>
        /\ answer' = [body |-> Passed]
        /\ memory' = IF IsFcgi THEN FALSE ELSE memory
    BY <1>4 DEF ResponseCompleted
  <2>2. /\ open' \in BOOLEAN /\ running' \in BOOLEAN /\ memory' \in BOOLEAN
        /\ theirs' \in {"payload", "response", None}
    BY <1>1, <2>1 DEF TypeOK
  <2>3. Passed \in Seq(Piece)
    <3>1. Passes(Passed)
      BY <1>1, <1>4 DEF ResponseCompleted, ExchangeInv, Stage
    <3>2. resp.size \in Nat
      BY <1>1, ResponseIs DEF TypeOK
    <3>3. CASE Passed = <<>>
      BY <3>3
    <3>4. CASE \E n \in 0 .. resp.size : Passed = Data(n)
      <4>1. PICK n \in 0 .. resp.size : Passed = Data(n)
        BY <3>4
      <4>2. n \in Nat
        BY <3>2, <4>1
      <4>3. QED
        BY <4>1, <4>2, DataAll
    <3>5. QED
      BY <3>1, <3>3, <3>4 DEF Passes
  <2>4. answer' \in [body : Seq(Piece)] \cup {[error |-> TRUE], None}
    BY <2>1, <2>3
  <2>5. TypeOK'
    BY <1>1, <1>4, <2>1, <2>2, <2>4 DEF TypeOK, ResponseCompleted
  <2>6. QED
    BY <2>1, <2>5, ExchangeEnds
<1>5. QED
  BY <1>2, <1>3, <1>4

(***************************************************************************)
(* The invariant is inductive.                                             *)
(***************************************************************************)
LEMMA ExchangeNext == ExchangeInv /\ [Next]_vars => ExchangeInv'
<1> SUFFICES ASSUME ExchangeInv, [Next]_vars PROVE ExchangeInv'
  OBVIOUS
<1>1. CASE UNCHANGED vars
  <2>1. CASE open
    <3>1. Come' = Come /\ Unread'
      BY <1>1, <2>1, NothingRead DEF vars, netVars, ExchangeInv
    <3>2. TypeOK'
      BY <1>1 DEF vars, netVars, flagVars, sendVars, readVars, clientVars, fileVars,
                  ExchangeInv, TypeOK
    <3>3. QED
      BY <1>1, <2>1, <3>1, <3>2, ExchangeKept
         DEF vars, netVars, sendVars, readVars, clientVars, fileVars
  <2>2. CASE ~open
    <3>1. TypeOK'
      BY <1>1 DEF vars, netVars, flagVars, sendVars, readVars, clientVars, fileVars,
                  ExchangeInv, TypeOK
    <3>2. QED
      BY <1>1, <2>2, <3>1, ExchangeEnds DEF vars
  <2>3. QED
    BY <2>1, <2>2
<1>2. CASE Loop
  BY <1>2, ExchangeNetwork, ExchangeConnect, ExchangeErrors, ExchangeSendSome,
     ExchangeSendRest, ExchangeReadHeaders, ExchangeReadFails, ExchangeProcessInMemory,
     ExchangeProcessToFile, ExchangeReadBody, ExchangeReadChunkedBody,
     ExchangeReadUnknownSizeBody, ExchangeReadRecords, ExchangeFreed
     DEF Loop
<1>3. CASE Arrive \/ BackendCloses \/ Event \/ TimeOut \/ AlarmCompletes
  BY <1>3, ExchangeNetwork, ExchangeFreed, ExchangeReadFails
<1>4. QED
  BY <1>1, <1>2, <1>3 DEF Next

(***************************************************************************)
(* Until it answers, the connection has sent a part of the request and     *)
(* holds, in the client's buffer or in a file, the part of the response    *)
(* that has come; and every variable keeps its type.                       *)
(***************************************************************************)
THEOREM ExchangeInvariant == Spec => []ExchangeInv
  BY ExchangeInit, ExchangeNext, PTL DEF Spec

(***************************************************************************)
(* Every variable of a backend connection always keeps its type.           *)
(***************************************************************************)
THEOREM ExchangeTypes == Spec => []TypeOK
<1>1. ExchangeInv => TypeOK
  BY DEF ExchangeInv
<1>2. QED
  BY <1>1, ExchangeInvariant, PTL

----------------------------------------------------------------------------
(***************************************************************************)
(* The refinement.                                                         *)
(***************************************************************************)

(***************************************************************************)
(* More of the request is sent, in order, or nothing.                      *)
(***************************************************************************)
LEMMA SendRefined ==
    ASSUME TypeOK, Sends, answer = None, UNCHANGED <<resp, request, answer>>,
           NEW n \in Nat, Write(n)
    PROVE  [Abs!Next]_Abs!vars
<1> DEFINE o == Begun + outp
           w == o + n
<1>1. /\ request \in Seq(Nat) /\ Len(request) \in Nat /\ outp \in Nat /\ Begun \in Nat
      /\ sent \in Seq(Nat)
  BY LenProperties DEF TypeOK, Begun
<1>2. /\ Len(Source) \in Nat /\ outp + n <= Len(Source) /\ Begun + Len(Source) <= Len(request)
      /\ sent = Part(request, 0, Begun + outp) /\ sent' = Part(request, 0, Begun + outp + n)
      /\ sent' \in Seq(Nat)
  BY WriteIs
<1>3. o \in Nat /\ w \in Nat /\ o <= w /\ w <= Len(request) /\ o <= Len(request)
  BY <1>1, <1>2
<1>4. sent = Part(request, 0, o) /\ sent' = Part(request, 0, w)
  BY <1>2
<1> HIDE DEF o, w
<1>5. UNCHANGED <<Response, resp.kind # "close">>
  BY DEF Response
<1>6. Len(sent) = o
  <2>1. request \in Seq(Nat) /\ 0 \in Nat /\ o \in Nat /\ 0 <= o /\ o <= Len(request) /\ o - 0 = o
    BY <1>1, <1>3
  <2>2. QED
    BY ONLY <2>1, <1>4, PartIs, ZenonT(40)
<1>7. Len(sent') = w
  <2>1. request \in Seq(Nat) /\ 0 \in Nat /\ w \in Nat /\ 0 <= w /\ w <= Len(request) /\ w - 0 = w
    BY <1>1, <1>3
  <2>2. QED
    BY ONLY <2>1, <1>4, PartIs, ZenonT(40)
<1>8. Part(sent', 0, o) = Part(request, 0, o)
  <2>1. /\ request \in Seq(Nat) /\ 0 \in Nat /\ w \in Nat /\ 0 <= w /\ w <= Len(request)
        /\ o \in Nat /\ 0 <= o /\ 0 + o <= w /\ 0 + 0 = 0 /\ 0 + o = o
    BY <1>1, <1>3
  <2>2. Part(Part(request, 0, w), 0, o) = Part(request, 0 + 0, 0 + o)
    BY ONLY <2>1, PartOfPart
  <2>3. QED
    BY <1>4, <2>1, <2>2
<1>9. Part(sent, 0, o) = sent
  BY <1>1, <1>6, PartAll
<1>10. SubSeq(sent, 1, Len(sent)) = SubSeq(sent', 1, Len(sent)) /\ Len(sent) <= Len(sent')
  BY <1>3, <1>4, <1>6, <1>7, <1>8, <1>9 DEF Part
<1>11. SubSeq(sent', 1, Len(sent')) = SubSeq(request, 1, Len(sent')) /\ Len(sent') <= Len(request)
  <2>1. Part(sent', 0, w) = sent'
    BY <1>2, <1>7, PartAll
  <2>2. QED
    BY <1>3, <1>4, <1>7, <2>1 DEF Part
<1>12. CASE sent' = sent
  BY <1>5, <1>12 DEF Abs!vars
<1>13. CASE sent' # sent
  <2>1. Abs!Send
    BY <1>5, <1>10, <1>11, <1>13 DEF Abs!Send, Abs!IsStrictPrefix, Abs!IsPrefix
  <2>2. QED
    BY <2>1 DEF Abs!Next
<1>14. QED
  BY <1>12, <1>13

(***************************************************************************)
(* Every step of the connection is one of the exchange, or none.           *)
(***************************************************************************)
LEMMA ExchangeRefined == ExchangeInv /\ [Next]_vars => [Abs!Next]_Abs!vars
<1> SUFFICES ASSUME ExchangeInv, [Next]_vars PROVE [Abs!Next]_Abs!vars
  OBVIOUS
<1> USE DEF netVars, flagVars, sendVars, readVars, clientVars, fileVars, In
<1>1. CASE UNCHANGED <<resp, request, sent, answer>>
  BY <1>1 DEF Abs!vars, Response
<1>2. CASE SendSome
  <2>1. PICK n \in 0 .. Len(Source) : Write(n) /\ UNCHANGED answer
    BY <1>2 DEF SendSome
  <2>2. /\ TypeOK /\ Sends /\ answer = None /\ UNCHANGED <<resp, request, answer>>
    BY <2>1 DEF Write, ExchangeInv
  <2>3. n \in Nat
    BY <2>1
  <2>4. QED
    BY <2>1, <2>2, <2>3, SendRefined
<1>3. CASE SendRest
  <2>1. Write(Len(Source) - outp) /\ UNCHANGED answer
    BY <1>3 DEF SendRest
  <2>2. /\ TypeOK /\ Sends /\ answer = None /\ UNCHANGED <<resp, request, answer>>
        /\ state \in Sending
    BY <2>1 DEF Write, ExchangeInv
  <2>3. Len(Source) - outp \in Nat
    BY <2>2, SourceIs DEF TypeOK, Sends
  <2>4. QED
    BY <2>1, <2>2, <2>3, SendRefined
<1>4. CASE PrepareErrorPage
  BY <1>4 DEF PrepareErrorPage, ExchangeInv, Abs!Next, Abs!Fail, Response
<1>5. CASE ResponseCompleted
  <2>1. /\ answer = None /\ answer' = [body |-> Passed]
        /\ UNCHANGED <<resp, request, sent>>
        /\ sent = request /\ Passes(Passed) /\ resp \in Responses
    BY <1>5 DEF ResponseCompleted, ExchangeInv, TypeOK, Sends, Sent, Stage
  <2>2. UNCHANGED <<Response, resp.kind # "close">>
    BY <2>1 DEF Response
  <2>3. resp.size \in Nat /\ resp.kind \in AllKinds
    BY <2>1, ResponseIs
  <2>4. \E n \in 0 .. Len(Response) :
           /\ resp.kind # "close" => n = Len(Response)
           /\ Passed = SubSeq(Response, 1, n)
    <3>1. CASE resp.kind \notin Bodied
      <4>1. Response = <<>> /\ Passed = <<>>
        BY <2>1, <3>1 DEF Response, Bodied, Passes
      <4>2. SubSeq(<<>>, 1, 0) = <<>>
        BY SubSeqEmpty
      <4>3. Len(<<>>) = 0 /\ 0 \in 0 .. 0
        OBVIOUS
      <4>4. QED
        BY <4>1, <4>2, <4>3
    <3>2. CASE resp.kind \in Bodied
      <4>1. Response = Data(resp.size)
        BY <3>2 DEF Response, Bodied
      <4>2. PICK n \in 0 .. resp.size : /\ resp.kind # "close" => n = resp.size
                                        /\ Passed = Data(n)
        BY <2>1, <3>2 DEF Passes
      <4>3. Len(Response) = resp.size
        BY <2>3, <4>1, DataAll
      <4>4. SubSeq(Response, 1, n) = Data(n)
        BY <2>3, <4>1, DataBegins
      <4>5. QED
        BY <4>2, <4>3, <4>4
    <3>3. QED
      BY <3>1, <3>2
  <2>5. Abs!PassOn
    BY <2>1, <2>2, <2>4 DEF Abs!PassOn
  <2>6. QED
    BY <2>5 DEF Abs!Next
<1>6. QED
  BY <1>1, <1>2, <1>3, <1>4, <1>5
     DEF Next, Loop, vars, Return, Connect, WriteFails, ReadHeaders, ReadFails,
         ProcessInMemory, ProcessToFile, ProcessRefused, ReadBody, ReadChunkedBody,
         ReadUnknownSizeBody, ReadRecords, FileFails, Arrive, BackendCloses, Event,
         TimeOut, AlarmCompletes, Read

(***************************************************************************)
(* proxy_connection and fcgi_connection always implement the exchange: the *)
(* client gets the body of the response and nothing else, all of it if the *)
(* response tells its size, and only after the backend has got the whole   *)
(* of the request; whatever the size of the response, of the reads and of  *)
(* the memory, wherever the network cuts it.                               *)
(***************************************************************************)
THEOREM ConnectionImplementsExchange == Spec => AnswersWithTheWhole
<1>1. Init => Abs!Init
  BY DEF Init, Abs!Init
<1>2. QED
  BY <1>1, ExchangeInvariant, ExchangeRefined, PTL DEF Spec, AnswersWithTheWhole, Abs!Spec
=============================================================================
