------------------------------- MODULE Attrs -------------------------------
(***************************************************************************)
(* What is done to attributes after inlining (attrs.go): promoteAttributes *)
(* mirrors resolved declarations into presentational attributes, cleanup   *)
(* removes or hashes ids, rewrites the links to them, removes classes,     *)
(* contenteditable and comments.                                           *)
(*                                                                         *)
(* A document is its nodes in document order, each with its parent, and    *)
(* the elements some rule matched with the slots of their property maps    *)
(* (module Cascade). An attribute is its value, None when there is none.   *)
(* The value of href is an id for a link #id, and no id for any other. The *)
(* name of a comment is what it opens with: "[" for <!--[if and "<!" for   *)
(* <!--<![endif]-->, the two halves of a conditional one.                  *)
(***************************************************************************)
EXTENDS Naturals, Sequences, FiniteSets, SequencesExt

CONSTANTS
    Documents,      \* records [nodes, resolved, o]: o are the options
    Text,           \* kinds, tag names, properties and values
    None,
    Hash            \* hashID, a function on the ids of the documents

PresentationalAttrs == {"width", "height", "bgcolor", "background", "align", "valign"}

Attribute == {"id", "href", "class", "contenteditable"} \union PresentationalAttrs

Option == {"width", "height", "table",
           "removeIDs", "removeClasses", "removeComments", "resetContentEditable"}

Node == [kind : Text, name : Text, parent : Nat, attrs : [Attribute -> Text]]

Slot == [prop : Text, value : [unit : Text, of : Text], dead : BOOLEAN]

Resolved == [node : Nat, slots : Seq(Slot)]

Document == [nodes : Seq(Node), resolved : Seq(Resolved), o : [Option -> BOOLEAN]]

(* An element is resolved once, and its map has one live slot of a property
   (module CascadeProofs, lemma FindLive). *)
ASSUME DocumentAssumption ==
    /\ Documents \subseteq Document
    /\ \A d \in Documents :
          /\ \A e \in DOMAIN d.resolved : d.resolved[e].node \in DOMAIN d.nodes
          /\ \A e, f \in DOMAIN d.resolved : d.resolved[e].node = d.resolved[f].node => e = f
          /\ \A e \in DOMAIN d.resolved : LET slots == d.resolved[e].slots IN
                /\ \A k \in DOMAIN slots : slots[k].value.of # None
                /\ \A k, l \in DOMAIN slots :
                      slots[k].prop = slots[l].prop /\ ~slots[k].dead /\ ~slots[l].dead => k = l

(* External: md5 does not collide on the ids of one document, and no id or
   address in it is the hash of an id. *)
ASSUME HashAssumption ==
    /\ None \in Text /\ Hash \in [DOMAIN Hash -> Text] /\ None \notin DOMAIN Hash
    /\ \A x, y \in DOMAIN Hash : Hash[x] = Hash[y] => x = y
    /\ \A x \in DOMAIN Hash : Hash[x] \notin DOMAIN Hash /\ Hash[x] # None
    /\ \A d \in Documents : \A k \in DOMAIN d.nodes :
          /\ d.nodes[k].attrs.id \in DOMAIN Hash \union {None}
          /\ \A x \in DOMAIN Hash : d.nodes[k].attrs.href # Hash[x]

VARIABLES
    doc,
    pc,         \* "promote", "collect", "visit", "done"
    at,         \* the element or node the running loop has reached
    nodes,      \* the tree, its attributes as they are now
    targets,    \* the ids some anchor links to
    doomed,     \* the comments to remove
    gone        \* the comments removed

vars == <<doc, pc, at, nodes, targets, doomed, gone>>

o == doc.o

IsFragment(href) == href \in DOMAIN Hash

-----------------------------------------------------------------------------
(* Promotion. *)

widthHeightElements == {"table", "td", "th", "img"}
tableElements == {"table", "th", "tr", "td", "caption", "colgroup", "col",
                  "thead", "tbody", "tfoot"}

styleToAttribute == [bgcolor |-> "background-color", background |-> "background-image",
                     align |-> "text-align", valign |-> "vertical-align"]

(* MUTANT of find: a superseded declaration is found too. *)
find_Superseded(slots, prop) == {k \in DOMAIN slots : slots[k].prop = prop}

(* The slots a lookup considers: the live ones of the property. *)
find(slots, prop) == {k \in DOMAIN slots : ~slots[k].dead /\ slots[k].prop = prop}

(* What a value says as an attribute: a length in pixels without its unit,
   auto as it is, a percentage on table elements only; the address of an
   image; no gradient. None: it says nothing. *)
Dimension(name, v) ==
    CASE v.unit \in {"px", "auto"} -> v.of
      [] v.unit = "%" /\ name \in tableElements -> v.of
      [] OTHER -> None

Presentation(prop, v) ==
    CASE v.unit = "gradient" -> None
      [] v.unit = "url" -> v.of
      [] v.unit = "other" /\ prop # "background-image" -> v.of
      [] OTHER -> None

(* The value the declarations of el give to the attribute, None for none. *)
Promoted(el, attr) ==
    LET name == nodes[el.node].name
        prop == IF attr \in DOMAIN styleToAttribute THEN styleToAttribute[attr] ELSE attr
        slots == find(el.slots, prop)
        value == el.slots[Min(slots)].value
    IN CASE slots = {} -> None
         [] slots # {} /\ attr \in {"width", "height"} ->
              IF o[attr] /\ name \in widthHeightElements THEN Dimension(name, value) ELSE None
         [] slots # {} /\ attr \in DOMAIN styleToAttribute ->
              IF o.table /\ name \in tableElements THEN Presentation(prop, value) ELSE None

Init == /\ doc \in Documents
        /\ pc = "promote" /\ at = 1 /\ nodes = doc.nodes
        /\ targets = {} /\ doomed = {} /\ gone = {}

PromoteElement ==
    LET el == doc.resolved[at]
    IN /\ pc = "promote" /\ at <= Len(doc.resolved)
       /\ nodes' = [nodes EXCEPT ![el.node].attrs =
                       [a \in DOMAIN @ |->
                          IF a \in PresentationalAttrs /\ Promoted(el, a) # None
                          THEN Promoted(el, a) ELSE @[a]]]
       /\ at' = at + 1
       /\ UNCHANGED <<doc, pc, targets, doomed, gone>>

Cleans == o.removeIDs \/ o.removeClasses \/ o.removeComments \/ o.resetContentEditable

PromotionDone ==
    /\ pc = "promote" /\ at > Len(doc.resolved)
    /\ pc' = IF Cleans THEN "collect" ELSE "done"
    /\ at' = 1
    /\ UNCHANGED <<doc, nodes, targets, doomed, gone>>

-----------------------------------------------------------------------------
(* Cleanup: two walks, then the comments found are detached. *)

(* The elements whose link saves its target. *)
Links(node) == node.kind = "element" /\ node.name = "a" /\ IsFragment(node.attrs.href)

CollectTargets ==
    /\ pc = "collect"
    /\ pc' = "visit"
    /\ targets' = IF o.removeIDs
                  THEN {nodes[k].attrs.href : k \in {k \in DOMAIN nodes : Links(nodes[k])}}
                  ELSE {}
    /\ UNCHANGED <<doc, at, nodes, doomed, gone>>

(* An id is hashed if an anchor links to it, else removed; the link of any
   element is rewritten. *)
HashedIDs(attrs) ==
    [attrs EXCEPT !.id = IF @ \in targets THEN Hash[@] ELSE None,
                  !.href = IF IsFragment(@) THEN Hash[@] ELSE @]

Cleaned(attrs) ==
    LET ids == IF o.removeIDs THEN HashedIDs(attrs) ELSE attrs
    IN [ids EXCEPT !.class = IF o.removeClasses THEN None ELSE @,
                   !.contenteditable = IF o.resetContentEditable THEN None ELSE @]

Visiting == pc = "visit" /\ at <= Len(nodes) /\ UNCHANGED <<doc, pc, targets>>

(* MUTANT of VisitElement: targets are collected in the same walk, so an id
   before the anchor that links to it is lost. *)
VisitElement_OneWalk ==
    LET met == {doc.nodes[k].attrs.href : k \in {k \in 1..at : Links(doc.nodes[k])}}
    IN /\ Visiting /\ nodes[at].kind = "element"
       /\ nodes' = [nodes EXCEPT ![at].attrs =
                       [Cleaned(@) EXCEPT !.id = IF o.removeIDs /\ nodes[at].attrs.id \notin met
                                                 THEN None ELSE @]]
       /\ at' = at + 1
       /\ UNCHANGED <<doomed, gone>>

VisitElement ==
    /\ Visiting /\ nodes[at].kind = "element"
    /\ nodes' = [nodes EXCEPT ![at].attrs = Cleaned(@)]
    /\ at' = at + 1
    /\ UNCHANGED <<doomed, gone>>

isConditionalComment(node) == node.name = "["

Removable(node) == node.kind = "comment" /\ ~isConditionalComment(node)

(* MUTANT of VisitComment: detached during the walk, a comment has no next
   sibling, and the walk goes on behind its parent. *)
VisitComment_DetachesNow ==
    LET rest == {k \in at + 1 .. Len(nodes) : nodes[k].parent < nodes[at].parent}
    IN /\ Visiting /\ nodes[at].kind # "element"
       /\ IF o.removeComments /\ Removable(nodes[at])
          THEN /\ gone' = gone \union {at}
               /\ at' = IF rest = {} THEN Len(nodes) + 1 ELSE Min(rest)
          ELSE at' = at + 1 /\ UNCHANGED gone
       /\ UNCHANGED <<nodes, doomed>>

(* MUTANT of VisitComment: conditional comments are not told apart. *)
VisitComment_Conditional ==
    /\ Visiting /\ nodes[at].kind # "element"
    /\ doomed' = IF o.removeComments /\ nodes[at].kind = "comment"
                 THEN doomed \union {at} ELSE doomed
    /\ at' = at + 1
    /\ UNCHANGED <<nodes, gone>>

(* Conditional comments stay, and so does everything that is neither an
   element nor a comment. *)
VisitComment ==
    /\ Visiting /\ nodes[at].kind # "element"
    /\ doomed' = IF o.removeComments /\ Removable(nodes[at])
                 THEN doomed \union {at} ELSE doomed
    /\ at' = at + 1
    /\ UNCHANGED <<nodes, gone>>

DetachComments ==
    /\ pc = "visit" /\ at > Len(nodes)
    /\ pc' = "done"
    /\ gone' = gone \union doomed
    /\ UNCHANGED <<doc, at, nodes, targets, doomed>>

Next == \/ PromoteElement \/ PromotionDone
        \/ CollectTargets \/ VisitElement \/ VisitComment \/ DetachComments

Spec == Init /\ [][Next]_vars

-----------------------------------------------------------------------------
(* Properties. *)

TypeOK ==
    /\ pc \in {"promote", "collect", "visit", "done"}
    /\ at \in 1 .. Len(IF pc = "promote" THEN doc.resolved ELSE doc.nodes) + 1
    /\ nodes \in Seq(Node) /\ Len(nodes) = Len(doc.nodes)
    /\ targets \subseteq DOMAIN Hash
    /\ doomed \union gone \subseteq {k \in DOMAIN nodes : Removable(nodes[k])}
    /\ doomed \subseteq 1 .. at - 1

(* l is a link to t, in the source and in the result. *)
PointsTo(tree, l, t) ==
    /\ tree[l].kind = "element" /\ tree[t].kind = "element"
    /\ tree[l].attrs.href # None /\ tree[l].attrs.href = tree[t].attrs.id

(* Removing ids leaves every anchor pointing at the elements it pointed at,
   wherever in the document the two stand, and no link pointing at an element
   it did not point at. Whether the link of another element (an <area>) keeps
   its target is left open: the code saves it only if an anchor has the same
   target, which "rewriting internal anchors" (inline.go:124) does not say. *)
LinksKeepTargets ==
    pc = "done" =>
        \A l, t \in DOMAIN nodes :
            /\ PointsTo(doc.nodes, l, t) /\ (o.removeIDs => Links(doc.nodes[l]))
                  => PointsTo(nodes, l, t)
            /\ PointsTo(nodes, l, t) => PointsTo(doc.nodes, l, t)

(* Cleanup reaches every node: just the comments that are not conditional go,
   no class or contenteditable is left anywhere, as far as it was asked for,
   and every id left is a hash that some link points at. Of the closing half of
   a conditional comment, <!--<![endif]-->, nothing is claimed: the code takes
   it for a plain one, against "Conditional comments are kept" (inline.go:130). *)
CleanedEverywhere ==
    pc = "done" =>
        /\ \A k \in gone : o.removeComments /\ nodes[k].kind = "comment" /\ nodes[k].name # "["
        /\ \A k \in DOMAIN nodes :
              o.removeComments /\ nodes[k].kind = "comment" /\ nodes[k].name \notin {"[", "<!"}
                 => k \in gone
        /\ \A k \in DOMAIN nodes : nodes[k].kind = "element" =>
              /\ (nodes[k].attrs.class = None) <=>
                    (o.removeClasses \/ doc.nodes[k].attrs.class = None)
              /\ (nodes[k].attrs.contenteditable = None) <=>
                    (o.resetContentEditable \/ doc.nodes[k].attrs.contenteditable = None)
              /\ o.removeIDs =>
                    /\ {nodes[k].attrs.id, nodes[k].attrs.href} \intersect DOMAIN Hash = {}
                    /\ nodes[k].attrs.id # None => \E l \in DOMAIN nodes : PointsTo(nodes, l, k)

(* The declaration that won, if any: the attribute must not contradict it. *)
Winner(el, prop) ==
    {el.slots[k].value : k \in {k \in DOMAIN el.slots :
                                   el.slots[k].prop = prop /\ ~el.slots[k].dead}}

(* Where a client that ignores the CSS and one that honours it could differ:
   a dimension or a table attribute that promotion wrote says what the winning
   declaration says, never what a fallback or a loser said, and a winning
   length in pixels always reaches an element that can have it. *)
AttributesAgree ==
    pc = "done" =>
        \A e \in DOMAIN doc.resolved : LET el == doc.resolved[e]
                                           n == el.node
                                           name == nodes[n].name IN
            /\ \A a \in PresentationalAttrs :
                  nodes[n].attrs[a] # doc.nodes[n].attrs[a] =>
                      \E v \in Winner(el, IF a \in DOMAIN styleToAttribute
                                          THEN styleToAttribute[a] ELSE a) :
                          nodes[n].attrs[a] = v.of
            /\ \A a \in {"width", "height"} :
                  \A v \in Winner(el, a) :
                     v.unit = "px" /\ o[a] /\ name \in {"table", "td", "th", "img"} =>
                         nodes[n].attrs[a] = v.of

=============================================================================
