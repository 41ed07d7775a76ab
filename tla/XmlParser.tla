------------------------------ MODULE XmlParser ------------------------------
(***************************************************************************)
(* The parser of the configuration file (xml/xml_parser.cpp): an automaton *)
(* that takes a character at a time, so that it does not matter where the  *)
(* reads cut the file, and calls the document back.  Texts are gathered in *)
(* a buffer, with one blank for all white space between two words; a buffer*)
(* that is full is delivered, and the text goes on in the next call.       *)
(*                                                                         *)
(* White space is " ", both kinds of quotes are "q"; the keywords are one  *)
(* character each, "DOCTYPE" and "CDATA".  All characters are legal ones.  *)
(* Attributes are read but not kept, as no one asks for them, and names are*)
(* shorter than the 256 characters there is room for.                      *)
(***************************************************************************)
EXTENDS Integers, Sequences, SequencesExt

CONSTANTS NameStart,  \* the characters a name may begin with
          NameChar,   \* those it may go on with
          TextSize    \* TEXT_BUFFER_SIZE

Parser == [state |-> "start", element |-> <<>>, text |-> <<>>, last |-> "", depth |-> 0,
           root |-> FALSE, ok |-> TRUE, calls |-> <<>>]

Error(p) == [p EXCEPT !.ok = FALSE]

To(p, state) == [p EXCEPT !.state = state]

\* The beginning of a text, comment or instruction.
Into(p, state) == [p EXCEPT !.state = state, !.text = <<>>, !.last = ""]

On(p, on, text) == [p EXCEPT !.calls = Append(@, [on |-> on, text |-> text])]

\* What has been gathered is delivered; the buffer is not emptied.
Deliver(p, on) == IF p.text = <<>> THEN p ELSE On(p, on, p.text)

\* The text is delivered when there is no room for so many more characters.
Room(p, on, n) ==
    IF Len(p.text) + n > TextSize THEN [On(p, on, p.text) EXCEPT !.text = <<>>] ELSE p

\* A blank of which the words before have been delivered is forgotten.
Blank(p) == IF p.last = " " /\ p.text # <<>> THEN [p EXCEPT !.text = Append(@, " ")] ELSE p

Gather(p, on, c) ==
    IF c = " " THEN [p EXCEPT !.last = c]
    ELSE [Blank(Room(p, on, 2)) EXCEPT !.text = Append(@, c), !.last = c]

\* Characters that were taken for the beginning of the end of a comment or
\* instruction, and the one that says that they were not.
TakeBack(p, on, chars, c) ==
    [Blank(Room(p, on, Len(chars) + 2)) EXCEPT
        !.text = @ \o chars \o (IF c = " " THEN <<>> ELSE <<c>>), !.last = c]

Raw(p, chars) == LET r == Room(p, "text", Len(chars)) IN [r EXCEPT !.text = @ \o chars]

\* Behind a comment or an instruction.
GoesOn(p) ==
    IF ~p.root THEN To(p, "start") ELSE IF p.depth > 0 THEN Into(p, "text") ELSE To(p, "misc")

Closed(p) == IF p.depth > 0 THEN Into(p, "text") ELSE To(p, "misc")

ElementStart(p) == Into([On(p, "start", p.element) EXCEPT !.depth = @ + 1], "text")

EmptyElement(p) == Closed(On(p, "empty", p.element))

ElementEnd(p) == Closed([On(p, "end", p.element) EXCEPT !.depth = @ - 1])

Named(p, c, state) == [p EXCEPT !.state = state, !.element = <<c>>]

Go(p, c, states) == IF c \in DOMAIN states THEN To(p, states[c]) ELSE Error(p)

\* The states between two tags.
Outside(p, c) ==
    CASE p.state \in {"start", "misc"} ->
            IF c = "<" THEN To(p, IF p.state = "start" THEN "start<" ELSE "misc<")
            ELSE IF c = " " THEN p ELSE Error(p)
      [] p.state = "start<" /\ c \in NameStart -> [Named(p, c, "tag") EXCEPT !.root = TRUE]
      [] p.state = "text<" /\ c \in NameStart -> Named(p, c, "tag")
      [] c = "?" -> Into(p, "instruction")
      [] c = "!" -> To(p, CASE p.state = "start<" -> "start<!" [] p.state = "text<" -> "text<!" [] OTHER -> "misc<!")
      [] c = "/" /\ p.state = "text<" -> To(p, "</")
      [] OTHER -> Error(p)

Marked(p, c) ==
    CASE c = "-" /\ p.state = "<!-" -> Into(p, "comment")
      [] c = "-" -> To(p, "<!-")
      [] p.state = "start<!" ->
            Go(p, c, [ch \in {"DOCTYPE", "["} |-> IF ch = "[" THEN "section" ELSE "<!DOCTYPE"])
      [] p.state = "text<!" /\ c = "[" -> To(p, "CDATA<!")
      [] OTHER -> Error(p)

\* Comments and instructions, which end by "-->" and "?>".
Comment(p, c) ==
    CASE p.state = "comment" -> IF c = "-" THEN To(p, "comment-") ELSE Gather(p, "comment", c)
      [] p.state = "comment-" ->
            IF c = "-" THEN To(p, "comment--") ELSE To(TakeBack(p, "comment", <<"-">>, c), "comment")
      [] p.state = "comment--" ->
            IF c = ">" THEN GoesOn(Deliver(p, "comment"))
            ELSE IF c = "-"
            THEN [Blank(Room(p, "comment", 2)) EXCEPT !.text = Append(@, c), !.last = c]
            ELSE To(TakeBack(p, "comment", <<"-", "-">>, c), "comment")

Instruction(p, c) ==
    CASE p.state = "instruction" -> IF c = "?" THEN To(p, "?") ELSE Gather(p, "instruction", c)
      [] p.state = "?" ->
            IF c = ">" THEN GoesOn(Deliver(p, "instruction"))
            ELSE IF c = "?"
            THEN [Blank(Room(p, "instruction", 2)) EXCEPT !.text = Append(@, c), !.last = c]
            ELSE To(TakeBack(p, "instruction", <<"?">>, c), "instruction")

\* The document type, and a conditional section, which is skipped.
Prolog(p, c) ==
    CASE p.state = "<!DOCTYPE" -> IF c = " " THEN To(p, "<!DOCTYPE ") ELSE Error(p)
      [] p.state = "<!DOCTYPE " ->
            IF c \in NameStart THEN [p EXCEPT !.state = "doctype", !.text = <<c>>, !.last = c]
            ELSE IF c = " " THEN p ELSE Error(p)
      [] p.state = "doctype" ->
            IF c = ">" THEN To(On(p, "doctype", p.text), "start") ELSE Gather(p, "doctype", c)
      [] p.state = "section" -> IF c = "]" THEN To(p, "section-") ELSE p
      [] p.state = "section-" -> To(p, IF c = "]" THEN "section--" ELSE "section")
      [] p.state = "section--" ->
            IF c = ">" THEN To(p, "start") ELSE IF c = "]" THEN p ELSE To(p, "section")

\* Tags and their attributes.
Tag(p, c) ==
    CASE p.state \in {"tag", "tag ", "quoted"} /\ c = ">" -> ElementStart(p)
      [] p.state \in {"tag", "tag ", "quoted"} /\ c = "/" -> To(p, "/")
      [] p.state \in {"tag", "tag ", "quoted"} /\ c = " " -> To(p, "tag ")
      [] p.state = "tag" /\ c \in NameChar -> [p EXCEPT !.element = Append(@, c)]
      [] p.state = "tag " /\ c \in NameStart -> To(p, "attribute")
      [] p.state = "attribute" ->
            IF c \in NameChar THEN p
            ELSE Go(p, c, [ch \in {" ", "="} |-> IF ch = " " THEN "attribute " ELSE "="])
      [] p.state = "attribute " -> IF c = " " THEN p ELSE Go(p, c, [ch \in {"="} |-> "="])
      [] p.state = "=" -> IF c = " " THEN p ELSE Go(p, c, [ch \in {"q"} |-> "value"])
      [] p.state = "value" -> IF c = "q" THEN To(p, "quoted") ELSE p
      [] p.state = "/" -> IF c = ">" THEN EmptyElement(p) ELSE Error(p)
      [] p.state = "</" -> IF c \in NameStart THEN Named(p, c, "end") ELSE Error(p)
      [] p.state \in {"end", "end "} /\ c = ">" -> ElementEnd(p)
      [] p.state \in {"end", "end "} /\ c = " " -> To(p, "end ")
      [] p.state = "end" /\ c \in NameChar -> [p EXCEPT !.element = Append(@, c)]
      [] OTHER -> Error(p)

\* Character data.  It stays in the buffer when it has been delivered at the
\* beginning of what may be a CDATA section, which has to know of a blank.
Text(p, c) ==
    CASE p.state = "text" ->
            IF c = "<" THEN To(Deliver(p, "text"), "text<") ELSE Gather(p, "text", c)
      [] p.state = "CDATA<!" -> IF c = "CDATA" THEN To(p, "CDATA<") ELSE Error(p)
      [] p.state = "CDATA<" ->
            IF c = "["
            THEN [p EXCEPT !.state = "CDATA", !.text = IF p.last = " " /\ @ # <<>> THEN <<" ">> ELSE <<>>]
            ELSE Error(p)
      [] p.state = "CDATA" -> IF c = "]" THEN To(p, "CDATA-") ELSE Raw(p, <<c>>)
      [] p.state = "CDATA-" -> IF c = "]" THEN To(p, "CDATA--") ELSE To(Raw(p, <<"]", c>>), "CDATA")
      [] p.state = "CDATA--" ->
            IF c = ">" THEN [p EXCEPT !.state = "text", !.last = ""]
            ELSE IF c = "]" THEN Raw(p, <<c>>)
            ELSE To(Raw(p, <<"]", "]", c>>), "CDATA")

\* parse_chunk, for a character.
Step(p, c) ==
    IF ~p.ok THEN p
    ELSE CASE p.state \in {"start", "start<", "text<", "misc", "misc<"} -> Outside(p, c)
           [] p.state \in {"start<!", "text<!", "misc<!", "<!-"} -> Marked(p, c)
           [] p.state \in {"comment", "comment-", "comment--"} -> Comment(p, c)
           [] p.state \in {"instruction", "?"} -> Instruction(p, c)
           [] p.state \in {"<!DOCTYPE", "<!DOCTYPE ", "doctype", "section", "section-", "section--"} -> Prolog(p, c)
           [] p.state \in {"text", "CDATA<!", "CDATA<", "CDATA", "CDATA-", "CDATA--"} -> Text(p, c)
           [] OTHER -> Tag(p, c)

ParseChunk(chars) == FoldLeft(Step, Parser, chars)

\* parse_file: the file has to end where a document may.
Parse(chars) ==
    LET p == ParseChunk(chars)
    IN  [ok |-> p.ok /\ p.state \in {"start", "misc"}, calls |-> p.calls]
=============================================================================
