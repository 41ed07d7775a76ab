------------------------------ MODULE Documents ------------------------------
(***************************************************************************)
(* The configuration as a document (xml/xml_document.cpp) and the look-ups *)
(* in it (xmlconf/xmlconf.cpp).  The XML parser calls the document back for*)
(* each tag, text, comment or instruction, and the nodes that are made of  *)
(* these are linked by their places in one array.                          *)
(*                                                                         *)
(* A call is [on, text], "on" being "start", "end", "empty", "text",       *)
(* "comment", "instruction" or "doctype".  Places count from 1, and 0 is   *)
(* none (-1 in the source).  Names are compared without their case there:  *)
(* here they are in one case.  Texts are sequences of characters.          *)
(***************************************************************************)
EXTENDS Integers, Sequences, SequencesExt

NoDocument == [nodes |-> <<>>, parent |-> 0, previous |-> 0, last |-> 0, depth |-> 0, ok |-> TRUE]

Used(doc) == Len(doc.nodes)

\* A text or a comment that follows another one goes on with it: the parser
\* delivers long ones in pieces.
GoesOn(doc, type) ==
    /\ doc.nodes # <<>>
    /\ Last(doc.nodes).parent = doc.parent
    /\ type \in {"text", "comment"} /\ Last(doc.nodes).type = type

Linked(doc, place) ==
    [n \in 1 .. Used(doc) |->
        [doc.nodes[n] EXCEPT
            !.child     = IF n = doc.parent /\ @ = 0 THEN place ELSE @,
            !.lastchild = IF n = doc.parent THEN place ELSE @,
            !.next      = IF n = doc.previous THEN place ELSE @]]

\* create_node: "previous" is what the next node will follow.
CreateNode(doc, type, text, previous) ==
    LET place == Used(doc) + 1
        node  == [type |-> type, text |-> text, parent |-> doc.parent, child |-> 0, lastchild |-> 0,
                  next |-> 0, previous |-> doc.previous]
    IN  IF GoesOn(doc, type)
        THEN [doc EXCEPT !.nodes[place - 1].text = @ \o text]
        ELSE [doc EXCEPT !.nodes = Append(Linked(doc, place), node),
                         !.previous = previous,
                         !.last = IF doc.depth = 0 THEN place ELSE @]

OnElementStart(doc, name) ==
    LET new == CreateNode(doc, "element", name, 0)
    IN  [new EXCEPT !.parent = Used(new), !.depth = @ + 1]

\* The next node is taken for the first one of its parent.
ForgetsTheElder(doc, name) ==
    IF doc.nodes[doc.parent].text # name THEN [doc EXCEPT !.ok = FALSE]
    ELSE [doc EXCEPT !.parent = doc.nodes[doc.parent].parent, !.depth = @ - 1]

OnElementEnd(doc, name) ==
    IF doc.nodes[doc.parent].text # name THEN [doc EXCEPT !.ok = FALSE]
    ELSE [doc EXCEPT !.previous = doc.parent, !.parent = doc.nodes[doc.parent].parent, !.depth = @ - 1]

\* on_empty_element, on_character_data, on_comment, on_processing_instruction
\* and on_doctype.
OnOther(doc, type, text) == CreateNode(doc, type, text, Used(doc) + 1)

Take(doc, call) ==
    IF ~doc.ok THEN doc
    ELSE CASE call.on = "start" -> OnElementStart(doc, call.text)
           [] call.on = "end" -> OnElementEnd(doc, call.text)
           [] call.on = "empty" -> OnOther(doc, "element", call.text)
           [] OTHER -> OnOther(doc, call.on, call.text)

Document(calls) == FoldLeft(Take, NoDocument, calls)

----------------------------------------------------------------------------
(* find_node, get_value, get_token and get_child; 0 stands for failure.    *)

Skipped == {"instruction", "comment"}

\* The first node of that name from "place" on; no text may be on the way.
Search(doc, place, name) ==
    LET from[n \in 0 .. Used(doc)] ==
            IF n = 0 THEN 0
            ELSE IF doc.nodes[n].type = "element" /\ doc.nodes[n].text = name THEN n
            ELSE IF doc.nodes[n].type \notin Skipped \cup {"element"} THEN 0
            ELSE from[doc.nodes[n].next]
    IN  from[place]

\* From the first node on; as long as this is the one that has been found, the
\* next name is looked for beside it.
FindNode(doc, path) ==
    LET Go(place, name) ==
            IF place = 0 THEN 0
            ELSE Search(doc, IF place = 1 THEN 1 ELSE doc.nodes[place].child, name)
    IN  IF doc.nodes = <<>> THEN 0 ELSE FoldLeft(Go, 1, path)

\* The text right inside of an element, or none.
GetValue(doc, path) ==
    LET node == FindNode(doc, path)
        child == IF node = 0 THEN 0 ELSE doc.nodes[node].child
    IN  IF child = 0 THEN <<>>
        ELSE IF doc.nodes[child].type = "text" THEN doc.nodes[child].text ELSE <<>>

Separators == {" ", ",", ";"}

GetToken(text, idx) ==
    LET Of(i)  == i \in DOMAIN text /\ text[i] \notin Separators
        begins == SelectSeq([i \in DOMAIN text |-> i], LAMBDA i : Of(i) /\ ~Of(i - 1))
    IN  IF idx > Len(begins) THEN <<>>
        ELSE SubSeq(text, begins[idx], Min({i \in begins[idx] .. Len(text) : ~Of(i + 1)}))

\* The words of a text, or the names of the elements: what there is at idx,
\* counted from 1, or nothing.
GetChild(doc, idx, path) ==
    LET node  == FindNode(doc, path)
        first == IF node = 0 THEN 0 ELSE doc.nodes[node].child
        nth[n \in 0 .. Used(doc), i \in 1 .. idx] ==
            LET next == doc.nodes[n].next
            IN  IF i = idx THEN doc.nodes[n].text
                ELSE IF next = 0 THEN <<>>
                ELSE IF doc.nodes[next].type = "element" THEN nth[next, i + 1]
                ELSE IF doc.nodes[next].type \in Skipped THEN nth[next, i]
                ELSE <<>>
    IN  IF first = 0 THEN <<>>
        ELSE CASE doc.nodes[first].type = "text" -> GetToken(doc.nodes[first].text, idx)
               [] doc.nodes[first].type = "element" -> nth[first, 1]
               [] OTHER -> <<>>
=============================================================================
