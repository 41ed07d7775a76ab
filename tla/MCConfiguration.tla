-------------------------- MODULE MCConfiguration --------------------------
(***************************************************************************)
(* What gweb++.txt promises of the configuration file, and what the nesting*)
(* of a document means, as predicates of a given document, table or        *)
(* configuration; MCParsers evaluates them for all those below.            *)
(***************************************************************************)
EXTENDS Integers, Sequences, SequencesExt, FiniteSetsExt

D == INSTANCE Documents

C == INSTANCE Configuration WITH
        Order <- [c \in {"/", "a", "b"} |-> CASE c = "/" -> 1 [] c = "a" -> 2 [] c = "b" -> 3]

ASSUME NamesToldApart == C!TellsApart

\* The places of s of which Is holds, in their order.
Places(s, Is(_)) == SelectSeq([i \in DOMAIN s |-> i], Is)

Numbered(s) == [i \in DOMAIN s |-> i]

SplitAt(s, separators) ==
    LET ends == Places(s, LAMBDA i : s[i] \in separators) \o <<Len(s) + 1>>
    IN  [k \in DOMAIN ends |-> SubSeq(s, IF k = 1 THEN 1 ELSE ends[k - 1] + 1, ends[k] - 1)]

Words(s) == SelectSeq(SplitAt(s, {" "}), LAMBDA w : w # <<>>)

----------------------------------------------------------------------------
(* Documents: calls of the XML parser behind the prolog.                   *)

Prolog == [on |-> "instruction", text |-> <<"xml">>]

Calls ==
    {[on |-> on, text |-> <<name>>] : on \in {"start", "end"}, name \in {"a", "b"}}
      \cup {[on |-> "empty", text |-> <<"a">>], [on |-> "comment", text |-> <<"c">>],
            [on |-> "text", text |-> <<"u", " ", "v">>]}

Opens(calls, i) == Len(SelectSeq(SubSeq(calls, 1, i), LAMBDA c : c.on = "start"))
Closes(calls, i) == Len(SelectSeq(SubSeq(calls, 1, i), LAMBDA c : c.on = "end"))

\* How deep in the document what call i announces is.
Depth(calls, i) ==
    Opens(calls, i - 1) - Closes(calls, i - 1) - (IF calls[i].on = "end" THEN 1 ELSE 0)

\* The element around call i, or 0.
Around(calls, i) ==
    Max({0} \cup {j \in 1 .. (i - 1) : calls[j].on = "start" /\ Depth(calls, j) = Depth(calls, i) - 1})

Nested(calls) ==
    \A i \in DOMAIN calls : calls[i].on = "end" =>
        \E j \in 1 .. (i - 1) : /\ calls[j] = [calls[i] EXCEPT !.on = "start"]
                                /\ Depth(calls, j) = Depth(calls, i)
                                /\ \A k \in (j + 1) .. (i - 1) : Depth(calls, k) > Depth(calls, j)

\* One element is the root, and no text is beside it.
Complete(calls) ==
    /\ Opens(calls, Len(calls)) = Closes(calls, Len(calls))
    /\ Len(SelectSeq(Numbered(calls), LAMBDA i : calls[i].on = "start" /\ Depth(calls, i) = 0)) = 1
    /\ \A i \in DOMAIN calls : calls[i].on = "text" => Depth(calls, i) > 0

\* What is right inside of call i (0: of the document): a text in pieces counts
\* once.
Inside(calls, i) ==
    Places(calls, LAMBDA j :
        /\ calls[j].on # "end" /\ Around(calls, j) = i
        /\ ~(j > 1 /\ calls[j].on \in {"text", "comment"} /\ calls[j - 1].on = calls[j].on))

IsElement(call) == call.on \in {"start", "empty"}

TextFrom(calls, i) ==
    LET ends == {j \in i .. Len(calls) : calls[j].on # "text"}
    IN  FlattenSeq([j \in 1 .. (Min(ends) - i) |-> calls[i + j - 1].text])

ElementAt(calls, i, name) ==
    LET here  == IF i = -1 THEN <<>> ELSE Inside(calls, i)
        found == {n \in DOMAIN here : IsElement(calls[here[n]]) /\ calls[here[n]].text = <<name>>}
    IN  IF found = {} \/ \E n \in 1 .. Min(found) : calls[here[n]].on = "text"
        THEN -1 ELSE here[Min(found)]

Reached(calls, path) == FoldLeft(LAMBDA i, name : ElementAt(calls, i, name), 0, path)

ValueIn(calls, i) ==
    LET here == Inside(calls, i)
    IN  IF i = -1 \/ here = <<>> THEN <<>>
        ELSE IF calls[here[1]].on = "text" THEN TextFrom(calls, here[1]) ELSE <<>>

ChildIn(calls, i, idx) ==
    LET here     == Inside(calls, i)
        elements == SelectSeq(here, LAMBDA j : IsElement(calls[j]))
        between  == \E n \in DOMAIN here : /\ calls[here[n]].on = "text"
                                           /\ here[n] < elements[idx]
        words == Words(ValueIn(calls, i))
    IN  IF i = -1 \/ here = <<>> THEN <<>>
        ELSE CASE calls[here[1]].on = "text" -> IF idx <= Len(words) THEN words[idx] ELSE <<>>
               [] IsElement(calls[here[1]]) ->
                    IF idx > Len(elements) THEN <<>> ELSE IF between THEN <<>> ELSE calls[elements[idx]].text
               [] OTHER -> <<>>

Paths == {<<"a">>, <<"a", "a">>, <<"a", "b">>, <<"a", "b", "a">>}

FoundAsNested(calls) ==
    LET doc == D!Document(<<Prolog>> \o calls)
    IN  /\ doc.ok = Nested(calls)
        /\ doc.ok /\ Complete(calls) =>
              \A path \in Paths :
                  LET names == [n \in DOMAIN path |-> <<path[n]>>]
                  IN
                  /\ (D!FindNode(doc, names) # 0) = (Reached(calls, path) # -1)
                  /\ D!GetValue(doc, names) = ValueIn(calls, Reached(calls, path))
                  /\ \A idx \in 1 .. 2 : D!GetChild(doc, idx, names) = ChildIn(calls, Reached(calls, path), idx)

----------------------------------------------------------------------------
(* The file the calls come from: inside of a root there are these, written *)
(* in one of the ways there are.                                           *)

X == INSTANCE XmlParser WITH NameStart <- {"a", "b"}, NameChar <- {"a", "b", "-"}, TextSize <- 6

Piece(on, said, as) == [on |-> on, text |-> said, as |-> as]

Spelled ==
    {Piece("start", <<"a">>, <<"<", "a", " ", "b", " ", "=", "q", ">", "q", " ", ">">>),
     Piece("start", <<"b", "-">>, <<"<", "b", "-", ">">>),
     Piece("end", <<"b">>, <<"<", "/", "b", " ", ">">>),
     Piece("empty", <<"a">>, <<"<", "a", " ", "/", ">">>),
     Piece("comment", <<"-", "u", "-", "-">>, <<"<", "!", "-", "-", "-", "u", "-", "-", " ", "-", "-", ">">>),
     Piece("comment", <<>>, <<"<", "!", "-", "-", " ", "-", "-", ">">>),
     Piece("instruction", <<"u", " ", "?">>, <<"<", "?", "u", " ", "?", "?", ">">>),
     Piece("text", <<" ">>, <<" ">>),
     Piece("text", <<"u">>, <<"u">>),
     Piece("text", <<"u", " ", " ", "u", "u">>, <<"u", " ", " ", "u", "u">>),
     Piece("CDATA", <<"]", "u", " ", "]">>,
           <<"<", "!", "[", "CDATA", "[", "]", "u", " ", "]", "]", "]", ">">>)}

Before == <<Piece("instruction", <<"u">>, <<"<", "?", "u", "?", ">", " ">>),
            Piece("comment", <<"u">>, <<"<", "!", "-", "-", "u", "-", "-", ">">>),
            Piece("doctype", <<"a", " ", "u">>, <<"<", "!", "DOCTYPE", " ", "a", " ", "u", ">">>),
            Piece("start", <<"a">>, <<"<", "a", ">">>)>>

After == Piece("comment", <<"u">>, <<" ", "<", "!", "-", "-", "u", " ", "-", "-", ">">>)

File(pieces) == FlattenSeq([i \in DOMAIN pieces |-> pieces[i].as])

IsText(piece) == piece.on \in {"text", "CDATA"}

\* All text between two other pieces as one, with a blank where a word ends.
OneText(pieces) ==
    LET chars == FlattenSeq([i \in DOMAIN pieces |->
                    [j \in DOMAIN pieces[i].text |-> <<pieces[i].text[j], pieces[i].on>>]])
        IsBlank(i) == chars[i] = <<" ", "text">>
        Stays(i) == \/ ~IsBlank(i)
                    \/ /\ i < Len(chars) /\ ~IsBlank(i + 1)
                       /\ \E j \in 1 .. (i - 1) : ~IsBlank(j)
        kept == Places(chars, Stays)
    IN  [k \in DOMAIN kept |-> chars[kept[k]][1]]

Said(pieces) ==
    LET begins == Places(pieces, LAMBDA i : ~(i > 1 /\ IsText(pieces[i]) /\ IsText(pieces[i - 1])))
        Run(k) == SubSeq(pieces, begins[k], IF k = Len(begins) THEN Len(pieces) ELSE begins[k + 1] - 1)
        said == [k \in DOMAIN begins |->
                    IF IsText(Run(k)[1]) THEN [on |-> "text", text |-> OneText(Run(k))]
                    ELSE [on |-> Run(k)[1].on, text |-> Run(k)[1].text]]
    IN  SelectSeq(said, LAMBDA c : c.text # <<>>)

\* Texts without anything said between them are one.
Merged(calls) ==
    FoldLeft(LAMBDA all, c : IF all # <<>> /\ c.on = "text" /\ Last(all).on = "text"
                             THEN [all EXCEPT ![Len(all)].text = @ \o c.text]
                             ELSE Append(all, c),
             <<>>, calls)

WithoutBlanks(calls) == [k \in DOMAIN calls |-> [calls[k] EXCEPT !.text = FlattenSeq(Words(@))]]

\* A text that has been delivered in pieces may have lost blanks.
DeliveredAsWritten(pieces) ==
    LET begun == Before \o pieces
        open  == Opens(begun, Len(begun)) - Closes(begun, Len(begun))
        all   == begun \o [n \in 1 .. open |-> Piece("end", <<"a">>, <<"<", "/", "a", ">">>)] \o <<After>>
        got   == X!Parse(File(all))
        want  == Merged(Said(all))
    IN  /\ got.ok /\ ~X!Parse(File(begun)).ok
        /\ WithoutBlanks(Merged(got.calls)) = WithoutBlanks(want)
        /\ (\A k \in DOMAIN want : Len(want[k].text) < 6) => Merged(got.calls) = want

----------------------------------------------------------------------------
(* Rules: lists of paths, and requests for others.                         *)

RulePaths ==
    {<<"/">>, <<"/", "a">>, <<"/", "a", "/">>, <<"/", "a", "b">>, <<"/", "b">>, <<"/", "b", "/", "a", "/">>}

RequestPaths == RulePaths \cup {<<"/", "a", "/", "b">>, <<"/", "b", "/", "a", "b">>, <<"/", "b", "/", "a", "/", "b">>}

Extensions == {<<"a">>, <<"b">>, <<"a", "b">>}

RuleLists ==
    {<<[criterion |-> "path", values |-> paths], [criterion |-> "extension", values |-> extensions],
       [criterion |-> "method", values |-> <<"GET">>]>> :
        paths \in UNION {[1 .. n -> RulePaths] : n \in 1 .. 3}, extensions \in {<<<<"b">>, <<"a", "b">>, <<"a">>>>, <<<<"a", "b">>>>}}

FirstThatMatches(given) ==
    LET rules == [i \in DOMAIN given |-> C!Rule(given[i].criterion, given[i].values)]
    IN  \A path \in RequestPaths, extension \in Extensions \cup {<<>>}, method \in {"GET", "POST"} :
            C!Find(rules, method, path, extension) =
                Min({i \in DOMAIN given : C!MatchesRule(given[i], method, path, extension)} \cup {Len(given) + 1})
                    % (Len(given) + 1)

----------------------------------------------------------------------------
(* Virtual hosts: names and aliases, and which of them are the default.    *)

HostNames == {<<"a">>, <<"b">>, <<"a", "a">>, <<"a", "b">>, <<"b", "a">>}

HostLists ==
    {<<[names |-> <<n[1], n[2]>>, default |-> 1 \in defaults],
       [names |-> <<n[3], n[4]>>, default |-> 2 \in defaults],
       [names |-> <<n[5]>>,       default |-> 3 \in defaults]>> :
        n \in [1 .. 5 -> HostNames], defaults \in {{}, {2}, {1, 3}}}

Hosts(given) ==
    FoldLeft(LAMBDA all, h : IF ~all.ok THEN all
                ELSE FoldLeft(LAMBDA a, n : IF a.ok THEN C!AddAlias(a, n) ELSE a,
                              C!AddHost(all, Head(h.names), h.default), Tail(h.names)),
             C!NoHosts, given)

Port == 80

FoundByName(given) ==
    LET hosts    == Hosts(given)
        all      == FlattenSeq([i \in DOMAIN given |-> given[i].names])
        defaults == {i \in DOMAIN given : given[i].default}
        Of(name) == Max({0} \cup {i \in DOMAIN given : name \in ToSet(given[i].names)})
        Asked(name, port) == [absolute |-> FALSE, there |-> TRUE, name |-> name, port |-> port]
        Absent   == [absolute |-> FALSE, there |-> FALSE, name |-> <<>>, port |-> 0]
        Absolute(name) == [Asked(name, Port) EXCEPT !.absolute = TRUE]
    IN  /\ hosts.ok = (Len(all) = Cardinality(ToSet(all)) /\ Cardinality(defaults) <= 1)
        /\ hosts.ok =>
              /\ \A name \in HostNames \cup {<<"b", "b">>}, minor \in {0, 1} :
                    /\ C!HostOf(hosts, Absent, Asked(name, Port), minor, Port) = [error |-> FALSE, idx |-> Of(name)]
                    /\ \A other \in HostNames :
                          C!HostOf(hosts, Absolute(name), Asked(other, Port), minor, Port)
                              = [error |-> FALSE, idx |-> Of(name)]
                    /\ C!HostOf(hosts, Absolute(name), Absent, minor, Port).error = (minor = 1)
                    /\ C!HostOf(hosts, Absolute(name), Absent, 0, Port).idx = Of(name)
                    /\ C!HostOf(hosts, Absent, Asked(name, Port + 1), minor, Port).idx = 0
              /\ C!HostOf(hosts, Absent, Absent, 0, Port) = [error |-> FALSE, idx |-> Max({0} \cup defaults)]
              /\ C!HostOf(hosts, Absent, Absent, 1, Port).error

----------------------------------------------------------------------------
(* Settings.  "bad" is a setting that is not of its type.                  *)

Bad(read) == [there |-> TRUE, ok |-> FALSE, read |-> read]

Switches == {C!Missing, C!Value(1), C!Value(0), Bad(0)}

SettingSizes == {C!Missing, Bad(7)} \cup {C!Value(n) : n \in {0, 1, 31, 40, 1500, 5000000}}

\* What a number of the section can be: also at and beside the ends of its range.
SizesOf(name) ==
    LET number == C!Numbers[name]
    IN  SettingSizes \cup {C!Value(n) : n \in {number.low - 1, number.low, number.high, number.high + 1} \cap Nat}

General(given, size, switch) ==
    [numbers |-> [n \in DOMAIN C!Numbers |-> IF n \in given THEN size ELSE C!Missing],
     log_level |-> C!Missing, index_files |-> <<>>, log_requests |-> switch, directory_listing |-> switch]

Web(port) == [port |-> port]

Handling ==
    {<<>>,
     <<[handler |-> "local", criterion |-> "path", values |-> <<<<"/", "a">>>>, backends |-> <<>>],
       [handler |-> "none", criterion |-> "path", values |-> <<>>, backends |-> <<>>]>>,
     <<[handler |-> "http", criterion |-> "method", values |-> <<"POST">>, backends |-> <<Web(C!Missing), Web(C!Value(8080))>>]>>,
     <<[handler |-> "fastcgi", criterion |-> "extension", values |-> <<<<"b">>>>, backends |-> <<Web(C!Missing)>>]>>}

Host(name, root, log, switch, size, rules) ==
    [name |-> name, aliases |-> <<>>, default |-> C!Missing, document_root |-> root, access_log |-> log,
     log_requests |-> switch, directory_listing |-> switch, log_buffer_size |-> size,
     access_log_max_file_size |-> size, rules |-> rules]

PlainHost == Host(<<"b">>, C!Value(1), C!Value(1), C!Missing, C!Missing, <<>>)

\* One number of the section at a time, or both of those a host inherits together
\* with everything the host says.
Configurations ==
    {[general |-> General({n[1]}, n[2], C!Value(1)), hosts |-> <<PlainHost>>] :
        n \in UNION {{name} \X SizesOf(name) : name \in DOMAIN C!Numbers}}
    \cup
    {[general |-> General({"log_buffer_size", "access_log_max_file_size"}, size, switch),
      hosts   |-> <<Host(<<"a">>, root, log, mine, own, rules), PlainHost>>] :
        size \in SettingSizes, switch \in Switches, root \in {C!Missing, C!Value(1)},
        log \in {C!Missing, C!Value(1)}, mine \in Switches, own \in SettingSizes, rules \in Handling}

\* "yes" in general holds for those hosts that have not said "no", "no" for all
\* of them, and else each host decides.
Means(setting) == IF ~C!Has(setting) THEN "undefined" ELSE IF setting.read = 1 THEN "yes" ELSE "no"

Documented(general, mine) ==
    CASE Means(general) = "yes" -> Means(mine) # "no"
      [] Means(general) = "no" -> FALSE
      [] OTHER -> Means(mine) = "yes"

DocumentedRanges ==
    [port                            |-> 1 .. 65535,
     max_idle_time                   |-> 1 .. 3600,
     max_idle_time_unknown_size_body |-> 1 .. 3600,
     max_payload_in_memory           |-> 0 .. 64,
     backend_retry_interval          |-> 1 .. 3600,
     error_log_max_file_size         |-> 32 .. 4194304,
     log_buffer_size                 |-> 0 .. 1024,
     log_sync_interval               |-> 1 .. 3600,
     access_log_max_file_size        |-> 32 .. 4194304]

DocumentedDefaults ==
    [port                            |-> 80,
     max_idle_time                   |-> 30,
     max_idle_time_unknown_size_body |-> 3,
     max_payload_in_memory           |-> 4,
     backend_retry_interval          |-> 300,
     error_log_max_file_size         |-> 1048576,
     log_buffer_size                 |-> 32,
     log_sync_interval               |-> 30,
     access_log_max_file_size        |-> 1048576]

\* A number in its range counts, without one the default or what is inherited does,
\* and what is made of any other is in the range.
IsSized(name, setting, otherwise, size) ==
    IF C!Has(setting) /\ setting.read \in DocumentedRanges[name] THEN size = setting.read
    ELSE size \in DocumentedRanges[name] /\ (~setting.there => size = otherwise)

HostSizes == {"log_buffer_size", "access_log_max_file_size"}

\* An interval of 0, which is accepted (RetryIntervalInRange).
IsZeroInterval(name, setting) == name = "backend_retry_interval" /\ setting = C!Value(0)

\* A size of a host that goes wrong after some digits (HostSizesInRange).
GoesWrong(setting) == setting.there /\ ~setting.ok

Serves(loaded, conf) ==
    LET numbers == conf.general.numbers
        Logs(h) == Documented(conf.general.log_requests, h.log_requests)
        Refused(h) ==
            \/ ~h.document_root.there
            \/ Logs(h) /\ ~h.access_log.there
            \/ \E i \in DOMAIN h.rules : h.rules[i].handler = "fastcgi" /\ Web(C!Missing) \in ToSet(h.rules[i].backends)
    IN  /\ loaded.ok =
              /\ \A i \in DOMAIN conf.hosts : ~Refused(conf.hosts[i])
              /\ C!Has(numbers["port"]) => numbers["port"].read \in DocumentedRanges["port"]
        /\ loaded.ok =>
              /\ \A n \in DOMAIN DocumentedRanges :
                    \/ IsSized(n, numbers[n], DocumentedDefaults[n], loaded.general.numbers[n])
                    \/ IsZeroInterval(n, numbers[n])
              /\ \A i \in DOMAIN conf.hosts :
                    LET host == conf.hosts[i]  got == loaded.vhosts[i]
                    IN  /\ got.log = Logs(host)
                        /\ got.have_dirlisting = Documented(conf.general.directory_listing, host.directory_listing)
                        /\ Len(got.rules) = Len(SelectSeq(host.rules, LAMBDA r : r.handler # "none"))
                        /\ got.log => \A n \in HostSizes :
                              IsSized(n, host[n], loaded.general.numbers[n], got[n]) \/ GoesWrong(host[n])

ServesAsDocumented(conf) == Serves(C!Load(conf), conf)

RetryIntervalFits(loaded) ==
    loaded.ok => loaded.general.numbers["backend_retry_interval"] \in DocumentedRanges["backend_retry_interval"]

HostSizesFit(loaded) ==
    loaded.ok => \A i \in DOMAIN loaded.vhosts : loaded.vhosts[i].log =>
                    \A n \in HostSizes : loaded.vhosts[i][n] \in DocumentedRanges[n]
=============================================================================
