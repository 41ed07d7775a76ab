------------------------------ MODULE UrlParser ------------------------------
(***************************************************************************)
(* The parser of request targets (net/url_parser.cpp).  It decodes, in one *)
(* pass and in the buffer it reads, the host and the path, collapses "//"  *)
(* and "/./", takes a segment back for each "/../", and cuts the query,    *)
(* the fragment and the extension by which rules and MIME types are chosen.*)
(*                                                                         *)
(* Characters are those that differ for the parser: a letter "x", digits,  *)
(* "-" for the punctuation, the delimiters, "ctl" for what is refused      *)
(* everywhere, and escapes ("%x" is any %XY that stands for "x", "%!" one  *)
(* that is malformed).                                                     *)
(***************************************************************************)
EXTENDS Integers, Sequences, SequencesExt

CONSTANTS Digits,   \* character -> its value
          Schemes,  \* scheme -> its default port
          MaxPort,  \* 65535
          MaxHost, MaxPath, MaxQuery, MaxFragment

Escapes == {"%x", "%.", "%/", "%?", "%:", "%-", "%!"}

Decoded(c) == CASE c = "%x" -> "x" [] c = "%." -> "." [] c = "%/" -> "/"
                [] c = "%?" -> "?" [] c = "%:" -> ":" [] c = "%-" -> "-"

Alnum(c) == c = "x" \/ c \in DOMAIN Digits

----------------------------------------------------------------------------
(* parse_path.  0 "/", 1 "/.", 2 "/..", 3 "/<path>", 4 query, 5 fragment.  *)
(* What starts at "query", "fragment" and "extension" of out starts        *)
(* nowhere where these are 0.                                              *)

PathBegins == [state |-> 0, out |-> <<>>, pathlen |-> 0, extension |-> 0, extensionlen |-> 0,
               query |-> 0, querylen |-> 0, fragment |-> 0, fragmentlen |-> 0, result |-> "more"]

Refused(p, result) == [p EXCEPT !.result = result]

\* What the states 0, 1 and 2 have read and not yet written.
Pending(state) == CASE state = 0 -> <<"/">> [] state = 1 -> <<"/", ".">>
                    [] state = 2 -> <<"/", ".", ".">> [] OTHER -> <<>>

\* The output up to its last "/" and this one.
UpToSlash(out) ==
    SubSeq(out, 1, CHOOSE i \in DOMAIN out : out[i] = "/" /\ \A j \in (i + 1) .. Len(out) : out[j] # "/")

\* ".." takes nothing back.
KeepsTheParent(p) == [p EXCEPT !.state = 0]

Slash(p) ==
    CASE p.state = 2 -> IF p.out = <<>> THEN Refused(p, "forbidden")
                        ELSE [p EXCEPT !.out = Front(UpToSlash(p.out)), !.state = 0]
      [] p.state = 3 -> [p EXCEPT !.extension = 0, !.state = 0]
      [] OTHER -> [p EXCEPT !.state = 0]

Dot(p) ==
    CASE p.state \in {0, 1} -> [p EXCEPT !.state = @ + 1]
      [] p.state = 2 -> [p EXCEPT !.out = @ \o <<"/", ".", ".", ".">>, !.state = 3]
      [] OTHER -> [p EXCEPT !.out = Append(@, "."), !.extension = Len(p.out) + 2, !.extensionlen = 0]

\* What is left as the path where it ends.
Settled(p) == CASE p.state \in {0, 1} -> Append(p.out, "/")
                [] p.state = 2 -> UpToSlash(p.out)
                [] OTHER -> p.out

PathEnds(p, c) ==
    IF p.state = 2 /\ p.out = <<>> THEN Refused(p, "forbidden")
    ELSE LET path == Settled(p)
         IN  IF Len(path) > MaxPath THEN Refused(p, "error")
             ELSE IF c = "?"
             THEN [p EXCEPT !.out = Append(path, c), !.pathlen = Len(path), !.query = Len(path) + 1, !.state = 4]
             ELSE [p EXCEPT !.out = Append(path, c), !.pathlen = Len(path), !.fragment = Len(path) + 1, !.state = 5]

\* A decoded character of the extension is not counted.
OtherChar(p, c, escaped) ==
    IF p.state # 3 THEN [p EXCEPT !.out = @ \o Pending(p.state) \o <<c>>, !.state = 3]
    ELSE [p EXCEPT !.out = Append(@, c),
                   !.extensionlen = IF p.extension # 0 /\ ~escaped THEN @ + 1 ELSE @]

PathStep(p, c) ==
    IF c = "ctl" \/ c = "%!" THEN Refused(p, "error")
    ELSE IF c \in {"/", "%/"} THEN Slash(p)
    ELSE IF c \in {".", "%."} THEN Dot(p)
    ELSE IF c \in {"?", "#"} THEN PathEnds(p, c)
    ELSE IF c \in Escapes THEN OtherChar(p, Decoded(c), TRUE)
    ELSE OtherChar(p, c, FALSE)

QueryStep(p, c) ==
    IF c = "ctl" THEN Refused(p, "error")
    ELSE IF c # "#" \/ p.state = 5 THEN [p EXCEPT !.out = Append(@, c)]
    ELSE LET len == Len(p.out) + 1 - p.query
         IN  IF len > MaxQuery THEN Refused(p, "error")
             ELSE [p EXCEPT !.out = Append(@, c), !.querylen = len, !.fragment = Len(p.out) + 1, !.state = 5]

PathEnded(p) ==
    CASE p.result # "more" -> p
      [] p.state < 4 ->
            IF p.state = 2 /\ p.out = <<>> THEN Refused(p, "forbidden")
            ELSE LET path == Settled(p)
                 IN  IF Len(path) > MaxPath THEN Refused(p, "error")
                     ELSE [p EXCEPT !.out = path, !.pathlen = Len(path), !.result = "success"]
      [] p.state = 4 ->
            LET len == Len(p.out) + 1 - p.query
            IN  IF len > MaxQuery THEN Refused(p, "error")
                ELSE [p EXCEPT !.querylen = len, !.result = "success"]
      [] OTHER ->
            LET len == Len(p.out) + 1 - p.fragment
            IN  IF len > MaxFragment THEN Refused(p, "error")
                ELSE [p EXCEPT !.fragmentlen = len, !.result = "success"]

ReadPath(text) ==
    LET Read(p, c) == IF p.result # "more" THEN p
                      ELSE IF p.state < 4 THEN PathStep(p, c) ELSE QueryStep(p, c)
    IN  FoldLeft(Read, PathBegins, text)

\* What parse_path makes of what follows the first "/".
ParsePath(text) ==
    LET p == PathEnded(ReadPath(text))
        Part(first, len) == IF first = 0 THEN <<>> ELSE SubSeq(p.out, first, first + len - 1)
    IN  [result    |-> p.result,
         path      |-> SubSeq(p.out, 1, p.pathlen),
         extension |-> Part(p.extension, p.extensionlen),
         query     |-> Part(p.query, p.querylen),
         fragment  |-> Part(p.fragment, p.fragmentlen)]

----------------------------------------------------------------------------
(* parse.  0 initial state, 1 scheme, 2 "<scheme>:", 3 "<scheme>:/",       *)
(* 4 "<scheme>://", 7 host, 10 port; the states 5, 6, 8 and 9 are those    *)
(* inside of an escape.  "at" is where the path begins.                    *)

UrlBegins == [state |-> 0, scheme |-> <<>>, host |-> <<>>, port |-> 0, at |-> 0, result |-> "more"]

SchemeStep(p, c) ==
    CASE p.state = 0 /\ c = "x" -> [p EXCEPT !.scheme = <<c>>, !.state = 1]
      [] p.state = 1 /\ (Alnum(c) \/ c \in {"-", "."}) -> [p EXCEPT !.scheme = Append(@, c)]
      [] p.state = 1 /\ c = ":" /\ p.scheme \in DOMAIN Schemes -> [p EXCEPT !.state = 2]
      [] p.state \in {2, 3} /\ c = "/" -> [p EXCEPT !.state = @ + 1]
      [] OTHER -> Refused(p, "error")

\* The host must begin and end with a letter or a digit.
HostEnds(p) == Alnum(Last(p.host)) /\ Len(p.host) <= MaxHost

\* The path begins, or nothing follows.
AtPath(p, i) == [p EXCEPT !.at = i, !.result = "path"]

HostStep(p, c, i) ==
    IF c = "%!" \/ c = "ctl" THEN Refused(p, "error")
    ELSE IF p.state = 4
    THEN LET first == IF c \in Escapes THEN Decoded(c) ELSE c
         IN  IF Alnum(first) THEN [p EXCEPT !.host = <<first>>, !.state = 7] ELSE Refused(p, "error")
    ELSE IF c = "/" /\ HostEnds(p) THEN AtPath([p EXCEPT !.port = Schemes[p.scheme]], i)
    ELSE IF c = ":" /\ HostEnds(p) THEN [p EXCEPT !.state = 10]
    ELSE IF c \in {"/", ":", "%/", "%:"} THEN Refused(p, "error")
    ELSE [p EXCEPT !.host = Append(@, IF c \in Escapes THEN Decoded(c) ELSE c)]

\* The port is checked when it has been read and may have wrapped by then.
NoPortLimit(p, c, i) ==
    IF c \in DOMAIN Digits THEN [p EXCEPT !.port = (@ * 10 + Digits[c]) % (MaxPort + 1)]
    ELSE IF c = "/" /\ p.port # 0 THEN AtPath(p, i)
    ELSE Refused(p, "error")

PortStep(p, c, i) ==
    IF c \in DOMAIN Digits
    THEN LET port == p.port * 10 + Digits[c]
         IN  IF port > MaxPort THEN Refused(p, "error") ELSE [p EXCEPT !.port = port]
    ELSE IF c = "/" /\ p.port # 0 THEN AtPath(p, i)
    ELSE Refused(p, "error")

UrlEnded(p) ==
    IF p.result # "more" THEN p
    ELSE IF p.state = 7 /\ HostEnds(p) THEN [p EXCEPT !.port = Schemes[p.scheme], !.result = "root"]
    ELSE IF p.state = 10 /\ p.port # 0 THEN [p EXCEPT !.result = "root"]
    ELSE Refused(p, "error")

ReadAuthority(text) ==
    LET Read(p, i) ==
            IF p.result # "more" THEN p
            ELSE IF p.state = 0 /\ text[i] = "/" THEN AtPath(p, i)
            ELSE IF p.state < 4 THEN SchemeStep(p, text[i])
            ELSE IF p.state = 10 THEN PortStep(p, text[i], i)
            ELSE HostStep(p, text[i], i)
    IN  FoldLeft(Read, UrlBegins, [i \in 1 .. Len(text) |-> i])

Authority(text) == UrlEnded(ReadAuthority(text))

\* The whole target; without a path this is "/".
ParseUrl(text) ==
    LET url  == Authority(text)
        path == ParsePath(SubSeq(text, url.at + 1, Len(text)))
    IN  CASE url.result = "error" -> [result |-> "error", host |-> <<>>, port |-> 0, path |-> <<>>]
          [] url.result = "root" -> [result |-> "success", host |-> url.host, port |-> url.port, path |-> <<"/">>]
          [] OTHER -> [result |-> path.result, host |-> url.host, port |-> url.port, path |-> path.path]
=============================================================================
