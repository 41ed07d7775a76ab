----------------------------- MODULE MCParsers -----------------------------
(***************************************************************************)
(* What headers, request targets, ranges and FastCGI requests are, said of *)
(* whole texts, against what the parsers make of every text there is of a  *)
(* few characters.  A text grows by a character, or by a few that belong   *)
(* together, as long as its parser wants more; each subject starts a       *)
(* behaviour of its own, and chunked bodies are one of them.               *)
(***************************************************************************)
EXTENDS MCChunkedParser, MCConfiguration

VARIABLES subject,  \* which parser, and what it is given but for the text
          text      \* the characters, or the few at once, it has grown by

\* One digit is a power of ten that fits in seven bits and one that does not.
Decimal == [d \in {"0", "1", "5"} |-> CASE d = "0" -> 0 [] d = "1" -> 1 [] d = "5" -> 5]

TenToOne == [d \in {"0", "1"} |-> IF d = "0" THEN 0 ELSE 1]

\* "a" is a header of one token, "b" one that may come several times, "ab"
\* and "bb" neither; "aa" and "ba" are unknown.
KnownHeaders ==
    <<[name |-> <<"a">>,      type |-> 2, single |-> TRUE,  multiple |-> FALSE],
      [name |-> <<"a", "b">>, type |-> 1, single |-> FALSE, multiple |-> FALSE],
      [name |-> <<"b">>,      type |-> 3, single |-> FALSE, multiple |-> TRUE],
      [name |-> <<"b", "b">>, type |-> 1, single |-> FALSE, multiple |-> FALSE]>>

H == INSTANCE HttpHeaders WITH
        Known <- KnownHeaders, Order <- [c \in {"a", "b"} |-> IF c = "a" THEN 1 ELSE 2],
        NameChar <- {"a", "b"}, MaxLineLen <- 5, MaxSize <- 30

U == INSTANCE UrlParser WITH
        Digits <- TenToOne, Schemes <- [s \in {<<"x">>} |-> 10], MaxPort <- 109,
        MaxHost <- 3, MaxPath <- 5, MaxQuery <- 3, MaxFragment <- 2

\* off_t of seven bits.
R == INSTANCE RangeParser WITH Digits <- Decimal, Limit <- 64

ASSUME OffsetsOfSevenBits == R!OffsetsHold

F == INSTANCE FastCgiRecords WITH Base <- 12, Align <- 8, Prefix <- <<11>>

LineOf(name, value) == name \o <<":">> \o value \o <<"LF">>

\* The texts: from where they grow, by what and how far.
Typed ==
    [headers |-> [from |-> <<>>, most |-> 7,
                  by |-> {<<"a">>, <<"b">>, <<":">>, <<" ">>, <<"LF">>, <<"CR", "LF">>, <<"CR">>}],
     table   |-> [from |-> <<>>, most |-> 5,
                  by |-> {LineOf(<<"a">>, <<"b", " ", "a">>),
                          LineOf(<<"a", "b">>, <<" ", "a", " ", "b", " ", "a">>),
                          LineOf(<<"b">>, <<"b", "a">>), LineOf(<<"b">>, <<"LF", " ", "a">>),
                          LineOf(<<"b", "a">>, <<"a">>), LineOf(<<"b", "b">>, <<"b">>),
                          <<" ", "b", "LF">>, <<"LF">>}],
     path    |-> [from |-> <<>>, most |-> 9, by |-> {<<c>> : c \in {"x", "/", "."}}],
     target  |-> [from |-> <<>>, most |-> 5,
                  by |-> {<<c>> : c \in {"x", "/", ".", "?", "#", "ctl", "%x", "%.", "%/", "%?", "%!"}}],
     url     |-> [from |-> <<"x", ":", "/", "/">>, most |-> 6,
                  by |-> {<<c>> : c \in {"x", "1", "0", "-", ":", "/", "?", "%-", "%:"}}],
     range   |-> [from |-> <<>>, most |-> 6,
                  by |-> {<<c>> : c \in {"0", "1", "5", "-", ",", " "}}]]

FileSizes == {0, 1, 5, 6}

Whole == Typed[subject.of].from \o FlattenSeq(text)

\* Whether the parser wants more than it has been given.
WantsMore ==
    CASE subject.of \in {"headers", "table"} -> H!Parse(Whole).result = "more"
      [] subject.of \in {"path", "target"} -> U!ReadPath(Whole).result = "more"
      [] subject.of = "url" -> U!ReadAuthority(Whole).result = "more"
      [] subject.of = "range" -> R!ReadRanges(Whole, subject.given).ok

----------------------------------------------------------------------------
(* Records: what an application may send, given as [type, len, padding],   *)
(* and requests with names, values and payloads of lengths at the limits.  *)

Bytes(n) == [i \in 1 .. n |-> i % 12]

Streams ==
    {<<[type |-> F!Stdout, len |-> 3, padding |-> 5], [type |-> F!Stderr, len |-> 0, padding |-> 0],
       [type |-> F!Stdout, len |-> 13, padding |-> 3], [type |-> F!EndRequest, len |-> 8, padding |-> 0]>>,
     <<[type |-> F!EndRequest, len |-> 7, padding |-> 1], [type |-> F!Stdout, len |-> 1, padding |-> 0],
       [type |-> F!GetValuesResult, len |-> 2, padding |-> 0]>>}

Written(r) == F!Header(r.type, 1, r.len, r.padding) \o Bytes(r.len) \o F!Zeros(r.padding)

Pieces == {<<3>>, <<8>>, <<19>>}

Pair(n, v, http) == [name |-> Bytes(n), value |-> Bytes(v), http |-> http]

\* max_payload_in_memory is at most 64 KB (http_server.cpp:228), which is one byte
\* more than a record can have.  No call of input_stream has more: what comes with the
\* headers and what a read adds to a file are a few KB.
MostInMemory == F!Limit + 1

InMemory == {<<n>> : n \in {0, 1, 8, F!Limit - 1, F!Limit, MostInMemory}}

InFile == {<<5>>, <<8, 3>>, <<1, 7, 16, 2>>}

Requests ==
    [pairs : {<<>>, <<Pair(5, 6, FALSE), Pair(4, 5, TRUE), Pair(5, 0, TRUE)>>,
              <<Pair(1, 126, FALSE), Pair(0, 1, TRUE)>>},
     payload : InMemory \cup InFile]

----------------------------------------------------------------------------
Subjects ==
    {[of |-> s, given |-> 0] : s \in DOMAIN Typed \ {"range"}}
      \cup [of : {"range"}, given : FileSizes]
      \cup [of : {"records"}, given : Streams]
      \cup [of : {"request"}, given : Requests]
      \cup {[of |-> "chunked", given |-> 0], [of |-> "document", given |-> 0], [of |-> "xml", given |-> 0]}
      \cup [of : {"rules"}, given : RuleLists]
      \cup [of : {"hosts"}, given : HostLists]
      \cup [of : {"settings"}, given : Configurations]

MCInit == Init /\ subject \in Subjects /\ text = <<>>

\* The text grows.
Type ==
    /\ subject.of \in DOMAIN Typed
    /\ Len(text) < Typed[subject.of].most /\ WantsMore
    /\ \E piece \in Typed[subject.of].by : text' = Append(text, piece)
    /\ UNCHANGED <<vars, subject>>

\* More of the records is read: a piece is the number of bytes.
Receive ==
    /\ subject.of = "records"
    /\ FoldLeft(LAMBDA n, p : n + p[1], 0, text)
         < FoldLeft(LAMBDA n, r : n + F!HeaderLen + r.len + r.padding, 0, subject.given)
    /\ \E piece \in Pieces : text' = Append(text, piece)
    /\ UNCHANGED <<vars, subject>>

\* The chunked body goes on.
Chunked == subject.of = "chunked" /\ Next /\ UNCHANGED <<subject, text>>

\* The XML parser calls the document back, at most MaxCalls times: it takes an
\* end for one only inside of an element.
MaxCalls == 7

Call ==
    /\ subject.of = "document"
    /\ Len(text) < MaxCalls /\ Nested(text)
    /\ text # <<>> => ~Complete(text)
    /\ \E call \in Calls :
          /\ call.on = "end" => Opens(text, Len(text)) > Closes(text, Len(text))
          /\ text' = Append(text, call)
    /\ UNCHANGED <<vars, subject>>

\* The configuration file grows by a tag, a text, a comment or an instruction,
\* inside of the root.
MaxPieces == 3

Spell ==
    /\ subject.of = "xml"
    /\ Len(text) < MaxPieces
    /\ \E piece \in Spelled :
          /\ piece.on = "end" => Opens(text, Len(text)) > Closes(text, Len(text))
          /\ text' = Append(text, piece)
    /\ UNCHANGED <<vars, subject>>

MCNext == Type \/ Receive \/ Chunked \/ Call \/ Spell

MCSpec == MCInit /\ [][MCNext]_<<vars, subject, text>>
----------------------------------------------------------------------------
Join(parts, separator) ==
    IF parts = <<>> THEN <<>>
    ELSE FoldLeft(LAMBDA all, p : all \o separator \o p, Head(parts), Tail(parts))

----------------------------------------------------------------------------
(* Headers: lines up to an empty one, each a field or going on with one.   *)

Line(s) == IF s # <<>> /\ Last(s) = "CR" THEN Front(s) ELSE s

Colons(s) == {i \in DOMAIN s : /\ s[i] = ":"
                               /\ Len(Words(SubSeq(s, 1, i - 1))) = 1
                               /\ ToSet(SubSeq(s, 1, i - 1)) \subseteq {"a", "b", " "}
                               /\ s[1] # " "}

GoesOn(s) == s # <<>> /\ s[1] = " "

IsMessage(s) ==
    LET lines == SplitAt(s, {"LF"})
        n     == Len(lines) - 1
    IN  /\ n > 0 /\ lines[n + 1] = <<>> /\ Line(lines[n]) = <<>>
        /\ \A k \in 1 .. (n - 1) :
              /\ "CR" \notin ToSet(Line(lines[k]))
              /\ Colons(Line(lines[k])) # {} \/ (k > 1 /\ GoesOn(lines[k]))

Kind(name) == {k \in ToSet(KnownHeaders) : k.name = name}

\* The fields in the order of the message, but for those without a value.
Fields(s) ==
    LET lines == SplitAt(s, {"LF"})
        starts == Places(SubSeq(lines, 1, Len(lines) - 2), LAMBDA k : ~GoesOn(lines[k]))
        Field(n) ==
            LET line  == Line(lines[starts[n]])
                colon == Min(Colons(line))
                end   == IF n = Len(starts) THEN Len(lines) - 2 ELSE starts[n + 1] - 1
                name  == Words(SubSeq(line, 1, colon - 1))[1]
                words == Words(SubSeq(line, colon + 1, Len(line)))
                           \o FlattenSeq([i \in 1 .. (end - starts[n]) |-> Words(Line(lines[starts[n] + i]))])
            IN  [name |-> name,
                 words |-> IF words # <<>> /\ \E k \in Kind(name) : k.single THEN <<words[1]>> ELSE words]
    IN  SelectSeq([n \in DOMAIN starts |-> Field(n)], LAMBDA f : f.words # <<>>)

\* The general ones first, those that are not known last; what has come several
\* times is one list, or, where that is not allowed, several headers.
TableOf(fields) ==
    LET Rank(i) == IF Kind(fields[i].name) = {} THEN 4
                   ELSE (CHOOSE k \in Kind(fields[i].name) : TRUE).type
        Alone(i) == \E k \in Kind(fields[i].name) : k.multiple
        Same(i) == Places(fields, LAMBDA j : fields[j].name = fields[i].name /\ (Alone(i) => j = i))
        Ranked(r) == Places(fields, LAMBDA i : Same(i)[1] = i /\ Rank(i) = r)
        order == FlattenSeq([r \in 1 .. 4 |-> Ranked(r)])
        Listed(i) == Join([n \in DOMAIN Same(i) |-> Join(fields[Same(i)[n]].words, <<" ">>)], <<",", " ">>)
    IN  [n \in DOMAIN order |-> [name |-> fields[order[n]].name, value |-> Listed(order[n])]]

HeaderRests == {<<>>, <<"LF">>, <<"LF", "LF">>, <<"CR", "LF", "CR", "LF">>, <<":", "LF", "LF">>}

(***************************************************************************)
(* http_headers::parse finds the end of the headers exactly where the empty*)
(* line is, and nowhere in a folded value, and makes of them the table that*)
(* later look-ups, the forwarded request and the framing of the body go by:*)
(* each value in its one header, however it was spread over lines and      *)
(* repetitions.  What it refuses is the beginning of no message.           *)
(***************************************************************************)
HeadersAsDefined ==
    subject.of \in {"headers", "table"} =>
        LET p == H!Parse(Whole)
        IN  /\ (p.result = "end") = (IsMessage(Whole) /\ Len(Whole) <= 31)
            /\ p.result = "end" => p.table = TableOf(Fields(Whole))
            /\ p.result = "invalid" => \A rest \in HeaderRests : ~IsMessage(Whole \o rest)

ForwardedOf(table) ==
    H!Serialize(H!Forwarded(table, <<"a", "b">>, <<"b">>, <<<<"b", "b">>>>, <<"a">>, <<"b", "b", "b">>))

ReadAs(read, table) ==
    LET Named(t, names) == SelectSeq(t, LAMBDA e : e.name \in names)
        own    == {<<"a", "b">>, <<"b", "b">>, <<"a">>}
        others == {e.name : e \in ToSet(table \o read.table)} \ own
    IN  /\ read.result \in {"end", "too large"}
        /\ read.result = "end" =>
              /\ Named(read.table, own) = <<[name |-> <<"a", "b">>, value |-> <<"b">>],
                                            [name |-> <<"a">>, value |-> <<"b", "b", "b">>]>>
              /\ Named(read.table, others) = Named(table, others)

ArrivesAsSent(p) == p.result = "end" => ReadAs(H!Parse(ForwardedOf(p.table)), p.table)

(***************************************************************************)
(* What a backend reads of the headers that prepare_http_request sends it: *)
(* one Host and one Connection with the new values, none that concerns the *)
(* client's connection, and all others as the client has sent them, in     *)
(* spite of the folding of long lines.  "ab" stands for Connection, "bb"   *)
(* for Keep-Alive and Proxy-Connection, "a" for Host.                      *)
(***************************************************************************)
ForwardedAsDefined ==
    subject.of \in {"headers", "table"} => ArrivesAsSent(H!Parse(Whole))

----------------------------------------------------------------------------
(* Targets: segments between slashes, of which ".." takes one back; "?" and *)
(* "#" belong to what they begin.                                          *)

Plain(c) == IF c \in U!Escapes \ {"%!"} THEN U!Decoded(c) ELSE c

\* The first place of one of the characters in s, or the one behind it.
FirstOf(s, chars) == Min({i \in DOMAIN s : s[i] \in chars} \cup {Len(s) + 1})

UpTo(s, i) == SubSeq(s, 1, i - 1)
Behind(s, i) == SubSeq(s, i + 1, Len(s))

Stay == {<<>>, <<".">>}
Up == <<".", ".">>

Resolved(segments) ==
    LET Go(r, g) == IF ~r.ok \/ g \in Stay THEN r
                    ELSE IF g # Up THEN [r EXCEPT !.kept = Append(@, g)]
                    ELSE IF r.kept = <<>> THEN [r EXCEPT !.ok = FALSE]
                    ELSE [r EXCEPT !.kept = Front(@)]
    IN  FoldLeft(Go, [ok |-> TRUE, kept |-> <<>>], segments)

\* What follows the last dot of a name, but for up to three dots it begins with.
ExtensionOf(name) ==
    LET dots == {i \in DOMAIN name : name[i] = "." /\ (i > 3 \/ \E j \in 1 .. i : name[j] # ".")}
    IN  IF dots = {} THEN <<>> ELSE Behind(name, Max(dots))

TargetOf(s) ==
    LET stop     == FirstOf(s, {"?", "#"})
        segments == SplitAt([i \in 1 .. (stop - 1) |-> Plain(s[i])], {"/"})
        resolved == Resolved(segments)
        name     == Last(segments)
        folder   == name \in Stay \cup {Up}
        path     == FlattenSeq([i \in DOMAIN resolved.kept |-> <<"/">> \o resolved.kept[i]])
                      \o (IF folder THEN <<"/">> ELSE <<>>)
        hash     == FirstOf(s, {"#"})
        query    == SubSeq(s, stop, hash - 1)
        fragment == SubSeq(s, hash, Len(s))
    IN  IF "ctl" \in ToSet(s) \/ "%!" \in ToSet(UpTo(s, stop)) THEN [result |-> "error"]
        ELSE IF ~resolved.ok THEN [result |-> "forbidden"]
        ELSE IF Len(path) > 5 \/ Len(query) > 3 \/ Len(fragment) > 2 THEN [result |-> "error"]
        ELSE [result |-> "success", path |-> path, query |-> query, fragment |-> fragment,
              extension |-> IF folder THEN <<>> ELSE ExtensionOf(name)]

PathFound ==
    subject.of \in {"path", "target"} =>
        LET got  == U!ParsePath(Whole)
            want == TargetOf(Whole)
        IN  /\ got.result = want.result
            /\ got.result = "success" =>
                  /\ got.path = want.path
                  /\ got.query = want.query /\ got.fragment = want.fragment
                  /\ ToSet(Whole) \cap U!Escapes = {} => got.extension = want.extension

Numeral(s, digits) == FoldLeft(LAMBDA n, d : n * 10 + digits[d], 0, s)

AuthorityOf(s) ==
    LET stop  == FirstOf(s, {":", "/"})
        host  == [i \in 1 .. (stop - 1) |-> Plain(s[i])]
        slash == FirstOf(s, {"/"})
        port  == SubSeq(s, stop + 1, slash - 1)
        named == stop <= Len(s) /\ s[stop] = ":"
        value == IF named THEN Numeral(port, TenToOne) ELSE 10
    IN  IF \/ host = <<>> \/ ~U!Alnum(host[1]) \/ ~U!Alnum(Last(host)) \/ Len(host) > 3
           \/ {"/", ":"} \cap ToSet(host) # {}
           \/ named /\ ~(ToSet(port) \subseteq DOMAIN TenToOne)
        THEN [result |-> "error"]
        ELSE IF value \notin 1 .. 109 THEN [result |-> "error"]
        ELSE [result |-> IF slash > Len(s) THEN "root" ELSE "path", host |-> host, port |-> value]

AuthorityFound ==
    subject.of = "url" =>
        LET got  == U!Authority(Whole)
            want == AuthorityOf(SubSeq(Whole, 5, Len(Whole)))
        IN  /\ got.result = want.result
            /\ got.result # "error" => got.host = want.host /\ got.port = want.port
            /\ got.result = "path" => got.at = FirstOf(SubSeq(Whole, 5, Len(Whole)), {"/"}) + 4

(***************************************************************************)
(* parse_path resolves "//", "/./" and "/../" while it decodes and shifts  *)
(* the characters, and yet finds the path a resolution by segments has,    *)
(* escaped dots and slashes included; no target leaves the document root.  *)
(* The extension, by which rules choose, is that of the last segment if    *)
(* nothing in it is escaped.  Of an absolute target the server takes the   *)
(* host that names the virtual host, the port, which never wraps, and the  *)
(* place where the path begins.                                            *)
(***************************************************************************)
TargetAsDefined == PathFound /\ AuthorityFound

----------------------------------------------------------------------------
(* Ranges: a list of "from-to", "from-" and "-count".                      *)

\* The parts of a range as numerals, an empty one being absent.
Parts(s) == [k \in 1 .. Len(SplitAt(s, {"-"})) |-> Words(SplitAt(s, {"-"})[k])]

IsRange(s) ==
    /\ Len(Parts(s)) = 2
    /\ \A k \in 1 .. 2 : Len(Parts(s)[k]) <= 1 /\ ToSet(FlattenSeq(Parts(s)[k])) \subseteq DOMAIN Decimal
    /\ Parts(s) # <<<<>>, <<>>>>

NumberOf(part) == Numeral(part[1], Decimal)

Asked(s, filesize) ==
    LET from == Parts(s)[1]  to == Parts(s)[2]
    IN  IF from = <<>> THEN [from |-> Max({0, filesize - NumberOf(to)}), to |-> IF NumberOf(to) = 0 THEN -1 ELSE filesize - 1]
        ELSE [from |-> NumberOf(from), to |-> IF to = <<>> THEN filesize - 1 ELSE Min({NumberOf(to), filesize - 1})]

(***************************************************************************)
(* The ranges that are sent are those the header asks for, cut to the file,*)
(* in their order, and each one inside of the file; one that has no byte in*)
(* it spoils the header.  A number that off_t cannot hold is cut or refused*)
(* as long as the file is ten times smaller than what off_t can hold.      *)
(***************************************************************************)
RangesAsDefined ==
    subject.of = "range" =>
        LET filesize   == subject.given
            got    == R!ParseRanges(Whole, filesize)
            parts  == SplitAt(Whole, {","})
            wanted == [k \in DOMAIN parts |-> Asked(parts[k], filesize)]
            valid  == \A k \in DOMAIN parts : IsRange(parts[k]) /\ wanted[k].from <= wanted[k].to
            huge   == \E k \in DOMAIN parts : \E i \in 1 .. 2 :
                         IsRange(parts[k]) /\ Parts(parts[k])[i] # <<>> /\ NumberOf(Parts(parts[k])[i]) > 63
        IN  IF Words(Whole) = <<>> THEN got = [ok |-> TRUE, ranges |-> <<>>]
            ELSE /\ got.ok => valid /\ got.ranges = wanted
                 /\ ~got.ok => ~valid \/ huge

----------------------------------------------------------------------------
CallbacksInOrder ==
    subject.of = "records" =>
        LET records == subject.given
            bytes   == FlattenSeq([k \in DOMAIN records |-> Written(records[k])])
            End(k)  == Len(FlattenSeq([i \in 1 .. k |-> Written(records[i])]))
            Upto(n) == Min({Len(bytes), FoldLeft(LAMBDA sum, p : sum + p[1], 0, SubSeq(text, 1, n))})
            conn    == FoldLeft(LAMBDA c, n : F!Received(c, SubSeq(bytes, Upto(n - 1) + 1, Upto(n))),
                                [buf |-> <<>>, called |-> <<>>], [n \in DOMAIN text |-> n])
            whole   == Places(records, LAMBDA k : End(k) <= Upto(Len(text)))
        IN  conn.called =
                SelectSeq([n \in DOMAIN whole |-> [type    |-> records[whole[n]].type,
                                                   content |-> Bytes(records[whole[n]].len)]],
                          F!HasCallback)

ReadsBack ==
    subject.of = "request" =>
        LET pairs   == subject.given.pairs
            sizes   == subject.given.payload
            all     == Bytes(FoldLeft(LAMBDA n, k : n + k, 0, sizes))
            Upto(k) == FoldLeft(LAMBDA n, i : n + i, 0, SubSeq(sizes, 1, k))
            pieces  == [k \in DOMAIN sizes |-> SubSeq(all, Upto(k - 1) + 1, Upto(k))]
            read    == F!Records(F!Request(1, pairs, pieces))
            Stream(type) == SelectSeq(read.records, LAMBDA r : r.type = type)
            Carries(type, content) ==
                LET of == Stream(type)
                IN  /\ FlattenSeq([k \in DOMAIN of |-> of[k].content]) = content
                    /\ of # <<>> /\ Last(of).content = <<>>
                    /\ \A i, j \in DOMAIN of : i < j /\ of[i].content = <<>> => of[j].content = <<>>
            params  == Stream(F!Params)[1].content
        IN  /\ read.rest = <<>>
            /\ read.records[1].type = F!BeginRequest
            /\ Carries(F!Params, params)
            /\ F!Pairs(params) =
                  [k \in DOMAIN pairs |-> [name  |-> (IF pairs[k].http THEN <<11>> ELSE <<>>) \o pairs[k].name,
                                           value |-> pairs[k].value]]
            /\ Carries(F!Stdin, all)

(***************************************************************************)
(* Wherever the reads cut the records of an application, its callbacks are *)
(* called for the same records with the same contents in the same order,   *)
(* each as soon as its padding has been read.  The records of a request say*)
(* what the request is: its parameters, whose lengths take one byte or     *)
(* four, and its payload in one stream that ends, with an empty record, at *)
(* the end of the payload and not before: also when the payload comes from *)
(* several reads or, with 64 KB in memory, does not fit in one record.     *)
(***************************************************************************)
FastCgiAsDefined == CallbacksInOrder /\ ReadsBack

----------------------------------------------------------------------------
(***************************************************************************)
(* The XML parser says what the file says, in whatever way it is written:  *)
(* each tag, comment and instruction, and each text as one, its words a    *)
(* blank apart, around CDATA sections too.  xmlconf then finds by a path of*)
(* names what the nesting of the tags says, with the nodes linked by places*)
(* in one array while texts, comments and elements come in any order; a    *)
(* document whose tags do not nest is refused.  The first node is the      *)
(* prolog.                                                                 *)
(***************************************************************************)
DocumentFound ==
    /\ subject.of = "document" => FoundAsNested(text)
    /\ subject.of = "xml" => DeliveredAsWritten(text)

(***************************************************************************)
(* The rule a request is handled by is the first one in the file that      *)
(* matches: a path matches what is below it, never a name that only begins *)
(* like it, although the values are looked up in a sorted table.           *)
(***************************************************************************)
RuleAsDefined == subject.of = "rules" => FirstThatMatches(subject.given)

(***************************************************************************)
(* A request is served by the host that has the name asked for, in whatever*)
(* order names and aliases have come into the sorted index; no name stands *)
(* for two hosts; the default host serves requests of HTTP/1.0 without a   *)
(* Host header and no other.  An absolute target counts for more than the  *)
(* header, which a request of HTTP/1.1 has to have all the same.           *)
(***************************************************************************)
HostFound == subject.of = "hosts" => FoundByName(subject.given)

(***************************************************************************)
(* The server starts with a file exactly if what gweb++.txt calls mandatory*)
(* is there and the port is one.  Then every number is what the file says  *)
(* if that is in the documented range, the documented default, or for a    *)
(* host what it inherits, if it says nothing, and in the range whatever it *)
(* says; every host logs and lists directories as is said in general and   *)
(* for it.  Two cases are left out: a backend_retry_interval of 0, and     *)
(* sizes of a host that are not numbers.                                   *)
(***************************************************************************)
ConfigAsDocumented == subject.of = "settings" => ServesAsDocumented(subject.given)

(***************************************************************************)
(* The first of these: gweb++.txt:80 gives backend_retry_interval the range*)
(* 1 - 3600, and load_general accepts 0.                                   *)
(***************************************************************************)
RetryIntervalInRange == subject.of = "settings" => RetryIntervalFits(C!Load(subject.given))

(***************************************************************************)
(* The second: gweb++.txt:127 gives access_log_max_file_size of a host the *)
(* meaning and with it the range of the general one, 32 KB - 4194304 KB.   *)
(***************************************************************************)
HostSizesInRange == subject.of = "settings" => HostSizesFit(C!Load(subject.given))
=============================================================================
