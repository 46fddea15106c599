------------------------------ MODULE HtmlTree ------------------------------
(***************************************************************************)
(* The HTML tree of parse.go: parseDocument builds it from the tokenizer's *)
(* tokens, reparseChildren parses again what the tokenizer took for raw    *)
(* text, render writes it back.                                            *)
(*                                                                         *)
(* A document is a sequence of tokens: start tags, self-closing tags, end  *)
(* tags and leaves (comments, which no parser splits or joins). A tag is   *)
(* its name, its attributes are left out. The tree is its nodes in         *)
(* document order, each with the index of its parent (0 is the synthetic   *)
(* root): the parser only ever appends below the last open element. The    *)
(* recursion parseDocument -> reparseChildren -> parseDocument is a stack  *)
(* of frames, one per call. When the document is parsed its serialization  *)
(* is parsed too, by the same actions: what a second pass would see.       *)
(***************************************************************************)
EXTENDS Naturals, Sequences, FiniteSets, SequencesExt

CONSTANT Documents       \* sequences of tokens

Start(name) == [kind |-> "start", name |-> name]
Self(name) == [kind |-> "self", name |-> name]
End(name) == [kind |-> "end", name |-> name]
Leaf == [kind |-> "leaf", name |-> "c"]

Token == [kind : {"start", "self", "end"}, name : STRING] \union {Leaf}

ASSUME DocumentsAssumption == Documents \subseteq Seq(Token)

VARIABLES
    doc,        \* the document being processed
    phase,      \* "source", "rendered", "done": which text is being parsed
    nodes,      \* the tree built so far
    frames,     \* the calls of parseDocument, the running one last
    first       \* the tree of the source, once it is complete

vars == <<doc, phase, nodes, frames, first>>

-----------------------------------------------------------------------------
(* The tables of parse.go, and the tokenizer's own. *)

Void == {"area", "base", "basefont", "br", "col", "command", "embed", "frame",
         "hr", "img", "input", "isindex", "keygen", "link", "meta", "param",
         "source", "track", "wbr"}

FormTags == {"input", "option", "optgroup", "select", "button", "datalist", "textarea"}

ClosesP == {"p", "h1", "h2", "h3", "h4", "h5", "h6", "address", "article",
            "aside", "blockquote", "details", "div", "dl", "fieldset",
            "figcaption", "figure", "footer", "form", "header", "hgroup", "hr",
            "main", "menu", "nav", "ol", "pre", "section", "table", "ul"}

(* What opening a tag closes, as long as it is on top of the stack. *)
Closes(name) ==
    CASE name = "tr" -> {"tr", "th", "td"}
      [] name = "th" -> {"th"}
      [] name = "td" -> {"thead", "th", "td"}
      [] name = "body" -> {"head", "link", "script"}
      [] name = "li" -> {"li"}
      [] name = "option" -> {"option"}
      [] name = "optgroup" -> {"optgroup", "option"}
      [] name \in {"dd", "dt"} -> {"dt", "dd"}
      [] name \in (FormTags \ {"option", "optgroup"}) \union {"output"} -> FormTags
      [] name \in ClosesP -> {"p"}
      [] OTHER -> {}

Reparse == {"noscript", "iframe", "noembed", "noframes"}

Foreign == {"svg", "math"}

(* External: after the start tag of one of these, closed by a solidus or not,
   the tokenizer delivers everything up to the matching end tag as one text. *)
RawElements == Reparse \union {"style", "script", "textarea", "title", "xmp", "plaintext"}

-----------------------------------------------------------------------------
(* Nodes. "text" is raw text, kept as the tokens it would tokenize to; "made"
   tells the element of an unmatched end tag from that of a start tag. *)

Node(kind, name, parent, ns, text, made) ==
    [kind |-> kind, name |-> name, parent |-> parent, ns |-> ns,
     text |-> text, made |-> made]

LeafNode(parent) == Node("leaf", "c", parent, FALSE, <<>>, "tag")
TextNode(parent, text) == Node("text", "raw", parent, FALSE, text, "tag")
Element(name, parent, ns) == Node("element", name, parent, ns, <<>>, "tag")
OrphanElement(name, parent) == Node("element", name, parent, FALSE, <<>>, "orphan")

Children(tree, n) == {k \in DOMAIN tree : tree[k].parent = n}

(* n and its ancestors. An ancestor comes before what it encloses, so of two the
   greater is the inner one. *)
Above(tree, n) ==
    LET up[k \in 0 .. Len(tree)] == IF k = 0 THEN {} ELSE {k} \union up[tree[k].parent]
    IN up[n]

(* MUTANT of SelfClosed: any childless element closes itself. *)
SelfClosed_Anywhere(tree, n) == Children(tree, n) = {}

(* Childless elements of foreign content close themselves. *)
SelfClosed(tree, n) == tree[n].ns /\ Children(tree, n) = {}

(* The children of n, each written as in text. *)
Inside(tree, n, text) ==
    FlattenSeq([k \in DOMAIN tree |-> IF tree[k].parent = n THEN text[k] ELSE <<>>])

(* render of a node: void elements have no end tag, text is written untouched. *)
Write(tree, n, text) ==
    LET e == tree[n]
    IN CASE e.kind = "leaf" -> <<Leaf>>
         [] e.kind = "text" -> e.text
         [] e.kind = "element" ->
              IF SelfClosed(tree, n) THEN <<Self(e.name)>>
              ELSE IF e.name \in Void THEN <<Start(e.name)>>
              ELSE <<Start(e.name)>> \o Inside(tree, n, text) \o <<End(e.name)>>

Render(tree) ==
    LET written[n \in DOMAIN tree] == Write(tree, n, written)
    IN Inside(tree, 0, written)

-----------------------------------------------------------------------------
(* One call of parseDocument: the node its root stands for, the element it
   appends to, how many foreign elements it thinks are open, what is left of
   its text, and the element whose raw text comes next ("" for none). *)

Frame(root, input) ==
    [root |-> root, cur |-> root, foreign |-> 0, input |-> input, raw |-> ""]

top == Last(frames)
token == Head(top.input)

ForeignOf(set) == {k \in set : nodes[k].name \in Foreign}

(* The running call goes on as f, and once its token is consumed. *)
Becomes(f) == frames' = [frames EXCEPT ![Len(frames)] = f]
Continue(f) == Becomes([f EXCEPT !.input = Tail(@)])

(* The elements a call holds open. *)
OpenIn(f) == {k \in Above(nodes, f.cur) : k > f.root}

Reading(kind) == /\ top.input # <<>> /\ top.raw = ""
                 /\ token.kind \in kind
                 /\ UNCHANGED <<doc, phase, first>>

Init == /\ doc \in Documents
        /\ phase = "source"
        /\ nodes = <<>>
        /\ frames = <<Frame(0, doc)>>
        /\ first = <<>>

-----------------------------------------------------------------------------
(* The text of a raw element, which the tokenizer gives in one piece. *)
RawText ==
    LET ends == {i \in DOMAIN top.input : top.input[i] = End(top.raw)}
        len == IF ends = {} THEN Len(top.input) ELSE Min(ends) - 1
    IN /\ top.raw # ""
       /\ nodes' = IF len = 0 THEN nodes
                   ELSE Append(nodes, TextNode(top.cur, SubSeq(top.input, 1, len)))
       /\ Becomes([top EXCEPT !.raw = "", !.input = SubSeq(@, len + 1, Len(@))])
       /\ UNCHANGED <<doc, phase, first>>

LeafToken ==
    /\ Reading({"leaf"})
    /\ nodes' = Append(nodes, LeafNode(top.cur))
    /\ Continue(top)

(* The element a start tag is appended to: the elements it closes by
   implication are popped, the count of foreign ones is not touched. *)
ParentFor(f, name) ==
    Max({f.root} \union {k \in OpenIn(f) : nodes[k].name \notin Closes(name)})

(* MUTANT of Namespaced: the foreign element itself is left out. *)
Namespaced_Inside(f, name) == f.foreign > 0

Namespaced(f, name) == f.foreign > 0 \/ name \in Foreign

StartTag ==
    LET name == token.name
        parent == ParentFor(top, name)
        ns == Namespaced(top, name)
        closed == name \in Void \/ (token.kind = "self" /\ ns)
    IN /\ Reading({"start", "self"})
       /\ nodes' = Append(nodes, Element(name, parent, ns))
       /\ Continue([top EXCEPT
              !.raw = IF name \in RawElements THEN name ELSE "",
              !.cur = IF closed THEN parent ELSE Len(nodes) + 1,
              !.foreign = IF ~closed /\ name \in Foreign THEN @ + 1 ELSE @])

Named(f, name) == {k \in OpenIn(f) : nodes[k].name = name}

(* MUTANT of Closed: the count forgets the elements popped on the way. *)
Closed_OnlyMatch(f, name) == IF Named(f, name) = {} THEN {} ELSE {Max(Named(f, name))}

(* The open elements an end tag closes: the innermost of its name and all that
   are inside it. *)
Closed(f, name) ==
    IF Named(f, name) = {} THEN {} ELSE {k \in OpenIn(f) : k >= Max(Named(f, name))}

(* reparseChildren parses again only what is a single text. *)
Reparses(n) == /\ nodes[n].name \in Reparse
               /\ \E k \in DOMAIN nodes : /\ Children(nodes, n) = {k}
                                          /\ nodes[k].kind = "text"

EndTag ==
    LET closed == Closed(top, token.name)
        n == Min(closed)
        caller == [top EXCEPT !.cur = nodes[n].parent,
                       !.input = Tail(@),
                       !.foreign = @ - Cardinality(ForeignOf(closed))]
    IN /\ Reading({"end"})
       /\ closed # {}
       /\ IF Reparses(n)
          THEN /\ nodes' = SubSeq(nodes, 1, Len(nodes) - 1)
               /\ frames' = Append([frames EXCEPT ![Len(frames)] = caller],
                                   Frame(n, Last(nodes).text))
          ELSE /\ Becomes(caller)
               /\ UNCHANGED nodes

(* An end tag nothing open answers to: </br> and </p> make an element, any
   other is dropped. *)
UnmatchedEndTag ==
    /\ Reading({"end"})
    /\ Closed(top, token.name) = {}
    /\ nodes' = IF token.name \in {"br", "p"}
                THEN Append(nodes, OrphanElement(token.name, top.cur)) ELSE nodes
    /\ Continue(top)

(* MUTANT of AtEnd: a call waits for its open elements to be closed. *)
AtEnd_Closed == top.input = <<>> /\ top.raw = "" /\ phase # "done" /\ top.cur = top.root

(* A call of parseDocument returns at the end of its text. *)
AtEnd == top.input = <<>> /\ top.raw = "" /\ phase # "done"

(* MUTANT of ReturnFromReparse: the loop that moves the parsed children reads
   NextSibling after the move, so only the first one arrives. *)
ReturnFromReparse_FirstChild ==
    LET children == Children(nodes, top.root)
        later == children \ {Min(children)}
    IN /\ AtEnd /\ Len(frames) > 1
       /\ frames' = Front(frames)
       /\ nodes' = IF children = {} \/ later = {} THEN nodes
                   ELSE SubSeq(nodes, 1, Min(later) - 1)
       /\ UNCHANGED <<doc, phase, first>>

(* The parsed children are moved below the element; its caller goes on. *)
ReturnFromReparse ==
    /\ AtEnd /\ Len(frames) > 1
    /\ frames' = Front(frames)
    /\ UNCHANGED <<doc, phase, nodes, first>>

SourceParsed ==
    /\ AtEnd /\ Len(frames) = 1 /\ phase = "source"
    /\ phase' = "rendered"
    /\ first' = nodes
    /\ nodes' = <<>>
    /\ frames' = <<Frame(0, Render(nodes))>>
    /\ UNCHANGED doc

RenderedParsed ==
    /\ AtEnd /\ Len(frames) = 1 /\ phase = "rendered"
    /\ phase' = "done"
    /\ UNCHANGED <<doc, nodes, frames, first>>

Next == \/ RawText \/ LeafToken \/ StartTag \/ EndTag \/ UnmatchedEndTag
        \/ ReturnFromReparse \/ SourceParsed \/ RenderedParsed

Spec == Init /\ [][Next]_vars /\ WF_vars(Next)

-----------------------------------------------------------------------------
(* Properties. *)

(* The counter of open foreign elements is what it stands for in every call of
   parseDocument, suspended ones included, although end tags adjust it,
   implied closes do not and elements that close themselves never enter it. *)
ForeignCounted(f) == f.foreign = Cardinality(ForeignOf(OpenIn(f)))

(* The tree is a tree in document order, the frames are nested calls that
   append inside the tree and know how many foreign elements they hold open. *)
TypeOK ==
    /\ phase \in {"source", "rendered", "done"}
    /\ \A n \in DOMAIN nodes :
          /\ nodes[n].kind \in {"leaf", "text", "element"}
          /\ nodes[n].parent \in 0 .. n - 1
          /\ nodes[n].parent # 0 => nodes[nodes[n].parent].kind = "element"
    /\ \A i \in DOMAIN frames :
          /\ frames[i].root \in 0 .. Len(nodes) /\ frames[i].cur \in 0 .. Len(nodes)
          /\ \A k \in DOMAIN frames[i].input : frames[i].input[k] \in Token
          /\ i > 1 => frames[i].root > frames[i - 1].root
          /\ ForeignCounted(frames[i])

(* What encloses a node within the text its call of parseDocument read. *)
Context(tree, n) ==
    LET above == Above(tree, tree[n].parent)
    IN {k \in above : \A r \in above : tree[r].name \in Reparse => k > r}

InForeign(tree, n) == \E k \in Context(tree, n) : tree[k].name \in Foreign

(* The element of a start tag is namespaced exactly when it is foreign itself
   or stands in foreign content: the serializer lets no other element close
   itself, and a <div/> taken for closed would swallow or release what follows. *)
NamespaceFromContext ==
    \A n \in DOMAIN nodes :
        nodes[n].kind = "element" /\ nodes[n].made = "tag" =>
            (nodes[n].ns <=> nodes[n].name \in Foreign \/ InForeign(nodes, n))

(* What a token sequence says in the order it says it, end tags aside. *)
Said(tokens) ==
    FlattenSeq([i \in DOMAIN tokens |->
                   IF tokens[i].kind = "end" THEN <<>> ELSE <<tokens[i].name>>])

(* What a node stands for of what was said. *)
SaidBy(node) == CASE node.kind = "text" -> Said(node.text)
                  [] node.made = "orphan" -> <<>>
                  [] OTHER -> <<node.name>>

SaidIn(tree) == FlattenSeq([n \in DOMAIN tree |-> SaidBy(tree[n])])

(* Every tag and comment of the source is in the tree once and in its order,
   raw text included, whatever is popped, dropped or parsed again. *)
EverythingParsed == phase # "source" => Said(doc) = SaidIn(first)

(* The trees a serialization loses something of. An element made for an
   unmatched end tag in foreign content has no namespace until it is parsed
   again; a raw element cut off by the end of its text is not parsed again
   until it gets its end tag; a childless raw element in foreign content is
   written as closed, which no tokenizer of raw text believes; a raw element
   inside one of its own name ends it. *)
OrphanInForeign(tree) == \E n \in DOMAIN tree : tree[n].made = "orphan" /\ InForeign(tree, n)

CutOff(tree) == \E n \in DOMAIN tree : /\ tree[n].kind = "text"
                                       /\ tree[tree[n].parent].name \in Reparse

ChildlessRaw(tree) == \E n \in DOMAIN tree : /\ tree[n].name \in RawElements
                                             /\ tree[n].ns
                                             /\ Children(tree, n) = {}

NestedRaw(tree) == \E n, k \in DOMAIN tree : /\ tree[n].name \in Reparse
                                             /\ tree[k].name = tree[n].name
                                             /\ n # k /\ n \in Above(tree, k)

Shape(tree) == [n \in DOMAIN tree |-> [tree[n] EXCEPT !.made = "tag"]]

(* What is written parses to the tree it was written from, so the elements the
   rules were matched with are those the reader of the output sees; the four
   kinds of tree above excepted. *)
RenderedAgain ==
    phase = "done" => \/ Shape(nodes) = Shape(first)
                      \/ OrphanInForeign(first) \/ CutOff(first)
                      \/ ChildlessRaw(first) \/ NestedRaw(first)

(* Every call of parseDocument returns, the nested ones included. *)
ParseEnds == <>(phase = "done")

=============================================================================
