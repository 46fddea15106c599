---------------------------- MODULE AttrsProofs ----------------------------
(***************************************************************************)
(* Proofs about module Attrs, for any documents: anchors keep what they    *)
(* point at, cleanup reaches every node, and a promoted attribute says     *)
(* what the winning declaration says.                                      *)
(***************************************************************************)
EXTENDS Attrs, SequenceTheorems, NaturalsInduction, WellFoundedInduction, TLAPS

(* The attributes cleanup may change. *)
Plain == {"id", "href", "class", "contenteditable"}

(* The node has been visited by the second walk of cleanup. *)
Visited(k) == Cleans /\ (pc = "done" \/ (pc = "visit" /\ k < at))

(* Promotion is through with the resolved element. *)
Reached(e) == pc = "promote" => e < at

(* The tree keeps its shape, and no node is lost from it. *)
SameTree ==
    /\ doc \in Documents
    /\ \A k \in DOMAIN nodes : /\ nodes[k].kind = doc.nodes[k].kind
                               /\ nodes[k].name = doc.nodes[k].name
                               /\ nodes[k].parent = doc.nodes[k].parent

(* Promotion gives every element it has reached, and no other, what its
   declarations say. *)
PromotedSoFar ==
    \A e \in DOMAIN doc.resolved : \A a \in PresentationalAttrs :
        LET el == doc.resolved[e]
        IN nodes[el.node].attrs[a] =
              IF Reached(e) /\ Promoted(el, a) # None
              THEN Promoted(el, a) ELSE doc.nodes[el.node].attrs[a]

(* Cleanup has rewritten the attributes of the nodes behind it, and left
   those before it. *)
CleanedSoFar ==
    /\ pc \in {"collect", "visit"} => Cleans
    /\ pc = "collect" => at = 1
    /\ \A k \in DOMAIN nodes : \A a \in Plain :
          nodes[k].attrs[a] = IF Visited(k) /\ doc.nodes[k].kind = "element"
                              THEN Cleaned(doc.nodes[k].attrs)[a] ELSE doc.nodes[k].attrs[a]

(* The ids anchors link to, from the document as it was. *)
TargetsKnown ==
    Cleans /\ pc \in {"visit", "done"} =>
        targets = IF o.removeIDs
                  THEN {doc.nodes[k].attrs.href : k \in {k \in DOMAIN doc.nodes : Links(doc.nodes[k])}}
                  ELSE {}

(* The comments behind the walk are doomed, and gone when it is over. *)
CommentsSoFar ==
    /\ doomed = {k \in DOMAIN nodes : Visited(k) /\ o.removeComments /\ Removable(nodes[k])}
    /\ gone = IF pc = "done" THEN doomed ELSE {}

(* The inductive invariant. *)
IInv == TypeOK /\ SameTree /\ PromotedSoFar /\ CleanedSoFar /\ TargetsKnown /\ CommentsSoFar

-----------------------------------------------------------------------------
(* Operators *)

(* What a document is made of, and the domains of its lists. *)
LEMMA DocIs ==
    ASSUME NEW d \in Documents
    PROVE  /\ d.nodes \in Seq(Node) /\ Len(d.nodes) \in Nat /\ DOMAIN d.nodes = 1..Len(d.nodes)
           /\ Len(d.resolved) \in Nat /\ DOMAIN d.resolved = 1..Len(d.resolved)
           /\ \A k \in DOMAIN d.nodes : d.nodes[k] \in Node /\ d.nodes[k].attrs \in [Attribute -> Text]
           /\ \A e \in DOMAIN d.resolved :
                 /\ d.resolved[e].slots \in Seq(Slot)
                 /\ d.resolved[e].node \in DOMAIN d.nodes
           /\ d.o \in [Option -> BOOLEAN]
<1>1. d \in Document
  BY DocumentAssumption
<1>2. /\ d.nodes \in Seq(Node) /\ d.resolved \in Seq(Resolved)
      /\ d.o \in [Option -> BOOLEAN]
  BY <1>1 DEF Document
<1>3. \A k \in DOMAIN d.nodes : d.nodes[k] \in Node
  BY <1>2
<1>4. \A k \in DOMAIN d.nodes : d.nodes[k].attrs \in [Attribute -> Text]
  BY <1>3 DEF Node
<1>5. \A e \in DOMAIN d.resolved : d.resolved[e] \in Resolved
  BY <1>2, ElementOfSeq
<1>6. \A e \in DOMAIN d.resolved : d.resolved[e].slots \in Seq(Slot)
  BY <1>5 DEF Resolved
<1> QED  BY <1>2, <1>3, <1>4, <1>6, DocumentAssumption

(* The property an attribute says something about. *)
PropOf(a) == IF a \in DOMAIN styleToAttribute THEN styleToAttribute[a] ELSE a

(* The least of a non-empty set of positions is one of them. *)
LEMMA LeastIsIn ==
    ASSUME NEW S \in SUBSET Nat, S # {}
    PROVE  Min(S) \in S
<1>1. IsWellFoundedOn(OpToRel(<, Nat), Nat)
  BY NatLessThanWellFounded
<1>2. PICK x \in S : \A y \in S : <<y, x>> \notin OpToRel(<, Nat)
  BY <1>1, WFMin, Zenon
<1>3. \A y \in S : x <= y
  <2> SUFFICES ASSUME NEW y \in S, y < x PROVE FALSE
    OBVIOUS
  <2>1. <<y, x>> \in OpToRel(<, Nat)
    BY DEF OpToRel
  <2> QED  BY <1>2, <2>1
<1> QED  BY <1>3 DEF Min

(* What Promoted gives is what a live slot of the property says. *)
LEMMA PromotedIs ==
    ASSUME NEW el, el.slots \in Seq(Slot), NEW a \in PresentationalAttrs, Promoted(el, a) # None
    PROVE  \E k \in find(el.slots, PropOf(a)) : Promoted(el, a) = el.slots[k].value.of
<1> DEFINE live == find(el.slots, PropOf(a))
           value == el.slots[Min(live)].value
           name == nodes[el.node].name
<1>1. \A v : /\ Dimension(name, v) # None => Dimension(name, v) = v.of
             /\ \A p : Presentation(p, v) # None => Presentation(p, v) = v.of
  BY DEF Dimension, Presentation
<1>2. live # {}
  BY DEF Promoted, PropOf
<1>3. DOMAIN styleToAttribute = PresentationalAttrs \ {"width", "height"}
  BY DEF styleToAttribute, PresentationalAttrs
<1>4. Promoted(el, a) = value.of
  <2>1. CASE a \in {"width", "height"}
    <3>1. Promoted(el, a) = IF o[a] /\ name \in widthHeightElements THEN Dimension(name, value) ELSE None
      BY <1>2, <1>3, <2>1 DEF Promoted, PropOf
    <3> QED  BY <1>1, <3>1
  <2>2. CASE a \notin {"width", "height"}
    <3>1. Promoted(el, a) = IF o.table /\ name \in tableElements
                           THEN Presentation(PropOf(a), value) ELSE None
      BY <1>2, <1>3, <2>2 DEF Promoted, PropOf
    <3> QED  BY <1>1, <3>1
  <2> QED  BY <2>1, <2>2
<1>5. live \in SUBSET Nat
  BY DEF find
<1>6. Min(live) \in live
  BY <1>2, <1>5, LeastIsIn
<1> QED  BY <1>4, <1>6

(* What the second walk makes of the attributes of an element. *)
LEMMA CleanedIs ==
    ASSUME NEW attrs \in [Attribute -> Text], targets \subseteq DOMAIN Hash
    PROVE  /\ Cleaned(attrs) \in [Attribute -> Text]
           /\ \A a \in PresentationalAttrs : Cleaned(attrs)[a] = attrs[a]
           /\ Cleaned(attrs).id = IF ~o.removeIDs THEN attrs.id
                                  ELSE IF attrs.id \in targets THEN Hash[attrs.id] ELSE None
           /\ Cleaned(attrs).href = IF o.removeIDs /\ IsFragment(attrs.href)
                                    THEN Hash[attrs.href] ELSE attrs.href
           /\ Cleaned(attrs).class = IF o.removeClasses THEN None ELSE attrs.class
           /\ Cleaned(attrs).contenteditable =
                  IF o.resetContentEditable THEN None ELSE attrs.contenteditable
<1> DEFINE ids == IF o.removeIDs THEN HashedIDs(attrs) ELSE attrs
           id == IF ~o.removeIDs THEN attrs.id
                 ELSE IF attrs.id \in targets THEN Hash[attrs.id] ELSE None
           href == IF o.removeIDs /\ IsFragment(attrs.href) THEN Hash[attrs.href] ELSE attrs.href
           class == IF o.removeClasses THEN None ELSE attrs.class
           edit == IF o.resetContentEditable THEN None ELSE attrs.contenteditable
<1>1. /\ {"id", "href", "class", "contenteditable"} \subseteq Attribute
      /\ PresentationalAttrs \subseteq Attribute
      /\ \A a \in PresentationalAttrs : a \notin {"id", "href", "class", "contenteditable"}
  BY DEF Attribute, PresentationalAttrs
<1>2. id \in Text /\ href \in Text /\ class \in Text /\ edit \in Text
  BY <1>1, HashAssumption DEF IsFragment
<1>3. ids = [attrs EXCEPT !.id = id, !.href = href]
  BY <1>1 DEF HashedIDs
<1> HIDE DEF id, href
<1>4. Cleaned(attrs) = [ids EXCEPT !.class = class, !.contenteditable = edit]
  BY <1>1, <1>3 DEF Cleaned
<1> HIDE DEF class, edit, ids
<1>5. /\ ids \in [Attribute -> Text] /\ ids.id = id /\ ids.href = href
      /\ \A a \in Attribute \ {"id", "href"} : ids[a] = attrs[a]
  BY <1>1, <1>2, <1>3
<1>6. /\ Cleaned(attrs) \in [Attribute -> Text]
      /\ Cleaned(attrs).class = class /\ Cleaned(attrs).contenteditable = edit
      /\ \A a \in Attribute \ {"class", "contenteditable"} : Cleaned(attrs)[a] = ids[a]
  BY <1>1, <1>2, <1>4, <1>5
<1>7. Cleaned(attrs).id = id /\ Cleaned(attrs).href = href
  BY <1>1, <1>5, <1>6
<1>8. \A a \in PresentationalAttrs : Cleaned(attrs)[a] = attrs[a]
  BY <1>1, <1>5, <1>6
<1> QED  BY <1>6, <1>7, <1>8 DEF id, href, class, edit

-----------------------------------------------------------------------------
(* The steps *)

(* The invariant holds before the first element is promoted. *)
LEMMA InitIInv == Init => IInv
<1> SUFFICES ASSUME Init PROVE IInv
  OBVIOUS
<1>1. /\ doc \in Documents /\ pc = "promote" /\ at = 1 /\ nodes = doc.nodes
      /\ targets = {} /\ doomed = {} /\ gone = {}
  BY DEF Init
<1>2. /\ doc.nodes \in Seq(Node) /\ Len(doc.resolved) \in Nat
      /\ DOMAIN doc.resolved = 1..Len(doc.resolved)
  BY <1>1, DocIs
<1>3. TypeOK
  BY <1>1, <1>2 DEF TypeOK
<1>4. \A e \in DOMAIN doc.resolved : ~Reached(e)
  BY <1>1, <1>2 DEF Reached
<1>5. \A k : ~Visited(k)
  BY <1>1 DEF Visited
<1> QED
  BY <1>1, <1>3, <1>4, <1>5
     DEF IInv, SameTree, PromotedSoFar, CleanedSoFar, TargetsKnown, CommentsSoFar

(* The name of its element is all that Promoted reads from the tree. *)
LEMMA PromotedStable ==
    ASSUME NEW el, NEW a, doc' = doc, nodes'[el.node].name = nodes[el.node].name
    PROVE  Promoted(el, a)' = Promoted(el, a)
BY DEF Promoted, o

WithAttrs(s, n, new) == [s EXCEPT ![n].attrs = new]

(* Rewriting the attributes of one node leaves the rest of the tree alone. *)
LEMMA RewriteNode ==
    ASSUME NEW s \in Seq(Node), NEW n \in DOMAIN s, NEW new \in [Attribute -> Text],
           NEW t, t = WithAttrs(s, n, new)
    PROVE  /\ t \in Seq(Node) /\ Len(t) = Len(s) /\ DOMAIN t = DOMAIN s
           /\ t[n].attrs = new
           /\ \A k \in DOMAIN s : /\ t[k].kind = s[k].kind /\ t[k].name = s[k].name
                                  /\ t[k].parent = s[k].parent
                                  /\ k # n => t[k] = s[k]
<1>1. s[n] \in Node /\ DOMAIN s = 1..Len(s) /\ Len(s) \in Nat
  OBVIOUS
<1> DEFINE node == [s[n] EXCEPT !.attrs = new]
<1>2. t = [s EXCEPT ![n] = node]
  BY DEF WithAttrs
<1>3. /\ node \in Node /\ node.attrs = new /\ node.kind = s[n].kind
      /\ node.name = s[n].name /\ node.parent = s[n].parent
  BY <1>1 DEF Node
<1> HIDE DEF node
<1>4. /\ DOMAIN t = DOMAIN s /\ t[n] = node
      /\ \A k \in DOMAIN s : k # n => t[k] = s[k]
  BY <1>2
<1>5. t \in Seq(Node) /\ Len(t) = Len(s)
  BY <1>1, <1>2, <1>3, ExceptSeq
<1> QED  BY <1>3, <1>4, <1>5

(* One element promoted: its attributes now say what its map says, the others stay. *)
LEMMA PromoteElementStep ==
    ASSUME IInv, PromoteElement
    PROVE  IInv'
<1> DEFINE el == doc.resolved[at]
           n == el.node
           old == nodes[n].attrs
           new == [a \in DOMAIN old |->
                     IF a \in PresentationalAttrs /\ Promoted(el, a) # None
                     THEN Promoted(el, a) ELSE old[a]]
<1>1. /\ pc = "promote" /\ pc' = "promote" /\ at' = at + 1 /\ at <= Len(doc.resolved)
      /\ nodes' = [nodes EXCEPT ![n].attrs = new]
      /\ UNCHANGED <<doc, targets, doomed, gone>>
  BY DEF PromoteElement
<1>2. /\ doc \in Documents /\ nodes \in Seq(Node) /\ Len(nodes) = Len(doc.nodes)
      /\ at \in Nat \ {0}
  <2>1. at \in 1 .. Len(doc.resolved) + 1 /\ doc \in Documents
    BY <1>1 DEF IInv, TypeOK, SameTree
  <2> QED  BY <2>1, DocIs DEF IInv, TypeOK
<1>3. /\ at \in DOMAIN doc.resolved /\ n \in DOMAIN nodes /\ DOMAIN nodes = DOMAIN doc.nodes
      /\ el.slots \in Seq(Slot) /\ Len(doc.resolved) \in Nat
      /\ DOMAIN doc.resolved = 1..Len(doc.resolved)
  <2>1. at \in DOMAIN doc.resolved /\ Len(doc.resolved) \in Nat /\ DOMAIN doc.resolved = 1..Len(doc.resolved)
    BY <1>1, <1>2, DocIs, SMTT(30)
  <2>2. DOMAIN nodes = DOMAIN doc.nodes
    BY <1>2, DocIs
  <2> QED  BY <1>2, <2>1, <2>2, DocIs
<1>4. /\ old \in [Attribute -> Text] /\ PresentationalAttrs \subseteq Attribute
      /\ Plain \subseteq Attribute /\ Plain \intersect PresentationalAttrs = {}
  <2>1. nodes[n] \in Node
    BY <1>2, <1>3
  <2> QED  BY <2>1 DEF Node, Plain, PresentationalAttrs, Attribute
<1>5. ASSUME NEW a \in PresentationalAttrs, Promoted(el, a) # None
      PROVE  Promoted(el, a) \in Text
  <2>1. PICK k \in find(el.slots, PropOf(a)) : Promoted(el, a) = el.slots[k].value.of
    BY <1>3, <1>5, PromotedIs
  <2>2. k \in DOMAIN el.slots
    BY <2>1 DEF find
  <2>3. el.slots[k] \in Slot
    BY <1>3, <2>2
  <2> QED  BY <2>1, <2>3 DEF Slot
<1>6. new \in [Attribute -> Text]
  BY <1>4, <1>5
<1>0. \A a \in Attribute : new[a] = IF a \in PresentationalAttrs /\ Promoted(el, a) # None
                                   THEN Promoted(el, a) ELSE old[a]
  BY <1>4
<1> HIDE DEF new, old, n
<1>7. /\ nodes' \in Seq(Node) /\ Len(nodes') = Len(nodes) /\ DOMAIN nodes' = DOMAIN nodes
      /\ nodes'[n].attrs = new
      /\ \A k \in DOMAIN nodes : /\ nodes'[k].kind = nodes[k].kind /\ nodes'[k].name = nodes[k].name
                                 /\ nodes'[k].parent = nodes[k].parent
                                 /\ k # n => nodes'[k] = nodes[k]
  <2>1. nodes' = WithAttrs(nodes, n, new)
    BY <1>1 DEF WithAttrs
  <2> QED  BY <1>2, <1>3, <1>6, <2>1, RewriteNode
<1>8. TypeOK'
  <2>1. /\ targets \subseteq DOMAIN Hash
        /\ doomed \union gone \subseteq {k \in DOMAIN nodes : Removable(nodes[k])}
        /\ doomed \subseteq 1 .. at - 1
    BY DEF IInv, TypeOK
  <2>2. doomed' \subseteq 1 .. at' - 1
    BY <1>1, <1>2, <2>1
  <2>3. doomed' \union gone' \subseteq {k \in DOMAIN nodes' : Removable(nodes'[k])}
    BY <1>1, <1>7, <2>1 DEF Removable, isConditionalComment
  <2>4. at' \in 1 .. Len(doc.resolved) + 1
    BY <1>1, <1>2, <1>3
  <2> QED  BY <1>1, <1>2, <1>7, <2>1, <2>2, <2>3, <2>4 DEF TypeOK
<1>9. SameTree'
  BY <1>1, <1>7 DEF IInv, SameTree
<1>10. PromotedSoFar'
  <2> SUFFICES ASSUME NEW e \in DOMAIN doc.resolved, NEW a \in PresentationalAttrs
               PROVE  LET x == doc.resolved[e]
                      IN nodes'[x.node].attrs[a] =
                            IF Reached(e)' /\ Promoted(x, a)' # None
                            THEN Promoted(x, a)' ELSE doc.nodes[x.node].attrs[a]
    BY <1>1 DEF PromotedSoFar
  <2> DEFINE x == doc.resolved[e]
  <2>1. x.node \in DOMAIN nodes
    BY <1>2, <1>3, DocIs
  <2>2. Promoted(x, a)' = Promoted(x, a)
    BY <1>1, <1>7, <2>1, PromotedStable
  <2>3. nodes[x.node].attrs[a] = IF Reached(e) /\ Promoted(x, a) # None
                                 THEN Promoted(x, a) ELSE doc.nodes[x.node].attrs[a]
    BY DEF IInv, PromotedSoFar
  <2>4. CASE e = at
    <3>1. ~Reached(e) /\ Reached(e)'
      BY <1>1, <1>2, <2>4 DEF Reached
    <3>2. nodes'[x.node].attrs[a] = IF Promoted(x, a) # None THEN Promoted(x, a) ELSE old[a]
      BY <1>0, <1>4, <1>7, <2>4 DEF n
    <3> QED  BY <2>2, <2>3, <2>4, <3>1, <3>2 DEF n, old
  <2>5. CASE e # at
    <3>1. Reached(e)' <=> Reached(e)
      BY <1>1, <1>2, <1>3, <2>5 DEF Reached
    <3>2. x.node # n
      BY <1>2, <1>3, <2>5, DocumentAssumption DEF n
    <3> QED  BY <1>7, <2>1, <2>2, <2>3, <3>1, <3>2
  <2> QED  BY <2>4, <2>5
<1>11. CleanedSoFar'
  <2>1. \A k : ~Visited(k) /\ ~Visited(k)'
    BY <1>1 DEF Visited
  <2>2. ASSUME NEW k \in DOMAIN nodes, NEW a \in Plain
        PROVE  nodes'[k].attrs[a] = doc.nodes[k].attrs[a]
    <3>1. nodes[k].attrs[a] = doc.nodes[k].attrs[a]
      BY <2>1 DEF IInv, CleanedSoFar
    <3>2. new[a] = old[a]
      BY <1>0, <1>4
    <3> QED  BY <1>7, <3>1, <3>2 DEF old
  <2> QED  BY <1>1, <1>7, <2>1, <2>2 DEF CleanedSoFar
<1>12. TargetsKnown' /\ CommentsSoFar'
  <2>1. \A k : ~Visited(k) /\ ~Visited(k)'
    BY <1>1 DEF Visited
  <2> QED  BY <1>1, <2>1 DEF IInv, TargetsKnown, CommentsSoFar
<1> QED  BY <1>8, <1>9, <1>10, <1>11, <1>12 DEF IInv

(* The end of promotion begins the cleanup, or ends the call. *)
LEMMA PromotionDoneStep ==
    ASSUME IInv, PromotionDone
    PROVE  IInv'
<1>1. /\ pc = "promote" /\ pc' = IF Cleans THEN "collect" ELSE "done"
      /\ at' = 1 /\ at > Len(doc.resolved)
      /\ UNCHANGED <<doc, nodes, targets, doomed, gone>>
  BY DEF PromotionDone
<1>2. Cleans' = Cleans
  BY <1>1 DEF Cleans, o
<1>3. /\ doc \in Documents /\ Len(doc.nodes) \in Nat
      /\ Len(doc.resolved) \in Nat /\ DOMAIN doc.resolved = 1..Len(doc.resolved)
      /\ at \in 1 .. Len(doc.resolved) + 1
  <2>1. doc \in Documents /\ at \in 1 .. Len(doc.resolved) + 1
    BY <1>1 DEF IInv, TypeOK, SameTree
  <2> QED  BY <2>1, DocIs
<1>4. \A k \in DOMAIN nodes : ~Visited(k) /\ ~Visited(k)'
  BY <1>1, <1>2 DEF Visited
<1>5. doomed = {} /\ gone = {}
  BY <1>1, <1>4 DEF IInv, CommentsSoFar
<1>6. TypeOK'
  BY <1>1, <1>3, <1>5 DEF IInv, TypeOK
<1>7. SameTree'
  BY <1>1 DEF IInv, SameTree
<1>8. PromotedSoFar'
  <2>1. \A e \in DOMAIN doc.resolved : Reached(e) /\ Reached(e)'
    BY <1>1, <1>3 DEF Reached
  <2> QED  BY <1>1, <2>1, PromotedStable DEF IInv, PromotedSoFar
<1>9. CleanedSoFar'
  BY <1>1, <1>2, <1>4 DEF IInv, CleanedSoFar
<1>10. TargetsKnown' /\ CommentsSoFar'
  BY <1>1, <1>2, <1>4, <1>5 DEF TargetsKnown, CommentsSoFar
<1> QED  BY <1>6, <1>7, <1>8, <1>9, <1>10 DEF IInv

(* The first walk saves exactly the ids that anchors link to. *)
LEMMA CollectTargetsStep ==
    ASSUME IInv, CollectTargets
    PROVE  IInv'
<1>1. /\ pc = "collect" /\ pc' = "visit" /\ Cleans /\ at = 1
      /\ targets' = IF o.removeIDs
                    THEN {nodes[k].attrs.href : k \in {k \in DOMAIN nodes : Links(nodes[k])}} ELSE {}
      /\ UNCHANGED <<doc, at, nodes, doomed, gone>>
  BY DEF CollectTargets, IInv, CleanedSoFar
<1>2. Cleans' = Cleans /\ o' = o
  BY <1>1 DEF Cleans, o
<1>3. /\ doc \in Documents /\ DOMAIN nodes = DOMAIN doc.nodes /\ DOMAIN nodes \subseteq Nat \ {0}
  <2>1. doc \in Documents /\ nodes \in Seq(Node) /\ Len(nodes) = Len(doc.nodes)
    BY DEF IInv, SameTree, TypeOK
  <2> QED  BY <2>1, DocIs
<1>4. \A k \in DOMAIN nodes : ~Visited(k) /\ ~Visited(k)'
  BY <1>1, <1>3 DEF Visited
<1>5. \A k \in DOMAIN nodes : /\ nodes[k].attrs.href = doc.nodes[k].attrs.href
                              /\ nodes[k].kind = doc.nodes[k].kind
                              /\ nodes[k].name = doc.nodes[k].name
  BY <1>4 DEF IInv, CleanedSoFar, SameTree, Plain
<1>6. \A k \in DOMAIN nodes : Links(nodes[k]) <=> Links(doc.nodes[k])
  BY <1>5 DEF Links
<1>7. targets' = IF o.removeIDs
                 THEN {doc.nodes[k].attrs.href : k \in {k \in DOMAIN doc.nodes : Links(doc.nodes[k])}}
                 ELSE {}
  <2> DEFINE linking == {k \in DOMAIN nodes : Links(nodes[k])}
  <2>1. linking = {k \in DOMAIN doc.nodes : Links(doc.nodes[k])}
    BY <1>3, <1>6
  <2>2. linking \subseteq DOMAIN nodes
    OBVIOUS
  <2> HIDE DEF linking
  <2>3. {nodes[k].attrs.href : k \in linking} = {doc.nodes[k].attrs.href : k \in linking}
    BY <1>5, <2>2
  <2> QED  BY <1>1, <2>1, <2>3 DEF linking
<1>8. targets' \subseteq DOMAIN Hash
  BY <1>1 DEF Links, IsFragment
<1>9. TypeOK'
  BY <1>1, <1>8 DEF IInv, TypeOK
<1>10. SameTree'
  BY <1>1 DEF IInv, SameTree
<1>11. PromotedSoFar'
  <2>1. \A e \in DOMAIN doc.resolved : Reached(e) /\ Reached(e)'
    BY <1>1 DEF Reached
  <2> QED  BY <1>1, <2>1, PromotedStable DEF IInv, PromotedSoFar
<1>12. CleanedSoFar'
  BY <1>1, <1>2, <1>4 DEF IInv, CleanedSoFar
<1>13. TargetsKnown'
  BY <1>1, <1>2, <1>7 DEF TargetsKnown, Links
<1>14. CommentsSoFar'
  BY <1>1, <1>2, <1>4 DEF IInv, CommentsSoFar
<1> QED  BY <1>9, <1>10, <1>11, <1>12, <1>13, <1>14 DEF IInv

(* What both kinds of visit have in common. *)
LEMMA VisitFacts ==
    ASSUME IInv, Visiting
    PROVE  /\ pc = "visit" /\ pc' = "visit" /\ doc' = doc /\ targets' = targets /\ Cleans /\ Cleans'
           /\ doc \in Documents /\ at \in DOMAIN nodes
           /\ DOMAIN nodes = DOMAIN doc.nodes /\ DOMAIN nodes = 1..Len(nodes) /\ Len(nodes) \in Nat
           /\ nodes \in Seq(Node) /\ Len(nodes) = Len(doc.nodes)
           /\ at' = at + 1 => \A k \in DOMAIN nodes : Visited(k)' <=> Visited(k) \/ k = at
           /\ ~Visited(at)
<1>1. pc = "visit" /\ pc' = "visit" /\ doc' = doc /\ targets' = targets /\ at <= Len(nodes)
  BY DEF Visiting
<1>2. Cleans /\ Cleans'
  BY <1>1 DEF IInv, CleanedSoFar, Cleans, o
<1>3. nodes \in Seq(Node) /\ Len(nodes) = Len(doc.nodes) /\ doc \in Documents
  BY DEF IInv, TypeOK, SameTree
<1>4. DOMAIN nodes = 1..Len(nodes) /\ Len(nodes) \in Nat /\ DOMAIN nodes = DOMAIN doc.nodes
  BY <1>3, DocIs
<1>5. at \in 1 .. Len(doc.nodes) + 1
  BY <1>1 DEF IInv, TypeOK
<1>6. at \in DOMAIN nodes
  BY <1>1, <1>3, <1>4, <1>5
<1>7. ASSUME at' = at + 1, NEW k \in DOMAIN nodes PROVE Visited(k)' <=> Visited(k) \/ k = at
  BY <1>1, <1>2, <1>4, <1>6, <1>7 DEF Visited
<1>8. ~Visited(at)
  BY <1>1, <1>4, <1>6 DEF Visited
<1> QED  BY <1>1, <1>2, <1>3, <1>4, <1>6, <1>7, <1>8

(* One element cleaned: everything before the walk's position is clean. *)
LEMMA VisitElementStep ==
    ASSUME IInv, VisitElement
    PROVE  IInv'
<1> DEFINE old == nodes[at].attrs
           new == Cleaned(old)
<1>1. /\ nodes[at].kind = "element" /\ nodes' = [nodes EXCEPT ![at].attrs = new]
      /\ at' = at + 1 /\ UNCHANGED <<doomed, gone>> /\ Visiting
  BY DEF VisitElement
<1>2. /\ pc = "visit" /\ pc' = "visit" /\ doc' = doc /\ targets' = targets /\ Cleans /\ Cleans'
      /\ doc \in Documents /\ at \in DOMAIN nodes
      /\ DOMAIN nodes = DOMAIN doc.nodes /\ DOMAIN nodes = 1..Len(nodes) /\ Len(nodes) \in Nat
      /\ nodes \in Seq(Node) /\ Len(nodes) = Len(doc.nodes)
      /\ \A k \in DOMAIN nodes : Visited(k)' <=> Visited(k) \/ k = at
      /\ ~Visited(at)
  BY <1>1, VisitFacts
<1>3. o' = o /\ \A x : Cleaned(x)' = Cleaned(x)
  BY <1>2 DEF o, Cleaned, HashedIDs
<1>4. /\ old \in [Attribute -> Text] /\ PresentationalAttrs \subseteq Attribute
      /\ Plain \subseteq Attribute /\ targets \subseteq DOMAIN Hash
  <2>1. nodes[at] \in Node
    BY <1>2
  <2>2. targets \subseteq DOMAIN Hash
    BY DEF IInv, TypeOK
  <2> QED  BY <2>1, <2>2 DEF Node, Plain, PresentationalAttrs, Attribute
<1> HIDE DEF new
<1>5. new \in [Attribute -> Text] /\ \A a \in PresentationalAttrs : new[a] = old[a]
  BY <1>4, CleanedIs DEF new
<1>6. /\ nodes' \in Seq(Node) /\ Len(nodes') = Len(nodes) /\ DOMAIN nodes' = DOMAIN nodes
      /\ nodes'[at].attrs = new
      /\ \A k \in DOMAIN nodes : /\ nodes'[k].kind = nodes[k].kind /\ nodes'[k].name = nodes[k].name
                                 /\ nodes'[k].parent = nodes[k].parent
                                 /\ k # at => nodes'[k] = nodes[k]
  <2>1. nodes' = WithAttrs(nodes, at, new)
    BY <1>1 DEF WithAttrs
  <2>2. nodes \in Seq(Node) /\ at \in DOMAIN nodes /\ new \in [Attribute -> Text]
    BY <1>2, <1>5
  <2> HIDE DEF old
  <2> QED  BY <2>1, <2>2, RewriteNode
<1>7. TypeOK'
  <2>1. /\ targets \subseteq DOMAIN Hash
        /\ doomed \union gone \subseteq {k \in DOMAIN nodes : Removable(nodes[k])}
        /\ doomed \subseteq 1 .. at - 1
    BY DEF IInv, TypeOK
  <2>2. doomed' \subseteq 1 .. at' - 1
    BY <1>1, <1>2, <2>1
  <2>3. doomed' \union gone' \subseteq {k \in DOMAIN nodes' : Removable(nodes'[k])}
    BY <1>1, <1>6, <2>1 DEF Removable, isConditionalComment
  <2>4. at' \in 1 .. Len(doc.nodes) + 1
    BY <1>1, <1>2
  <2> QED  BY <1>1, <1>2, <1>6, <2>1, <2>2, <2>3, <2>4 DEF TypeOK
<1>8. SameTree'
  BY <1>2, <1>6 DEF IInv, SameTree
<1>9. PromotedSoFar'
  <2> SUFFICES ASSUME NEW e \in DOMAIN doc.resolved, NEW a \in PresentationalAttrs
               PROVE  LET x == doc.resolved[e]
                      IN nodes'[x.node].attrs[a] =
                            IF Reached(e)' /\ Promoted(x, a)' # None
                            THEN Promoted(x, a)' ELSE doc.nodes[x.node].attrs[a]
    BY <1>2 DEF PromotedSoFar
  <2> DEFINE x == doc.resolved[e]
  <2>1. x.node \in DOMAIN nodes
    BY <1>2, DocIs
  <2>2. Promoted(x, a)' = Promoted(x, a)
    BY <1>2, <1>6, <2>1, PromotedStable
  <2>3. nodes[x.node].attrs[a] = IF Reached(e) /\ Promoted(x, a) # None
                                 THEN Promoted(x, a) ELSE doc.nodes[x.node].attrs[a]
    BY DEF IInv, PromotedSoFar
  <2>4. Reached(e) /\ Reached(e)'
    BY <1>2 DEF Reached
  <2>5. nodes'[x.node].attrs[a] = nodes[x.node].attrs[a]
    BY <1>5, <1>6, <2>1
  <2> QED  BY <2>2, <2>3, <2>4, <2>5
<1>10. CleanedSoFar'
  <2>1. \A k \in DOMAIN nodes : \A a \in Plain :
          nodes[k].attrs[a] = IF Visited(k) /\ doc.nodes[k].kind = "element"
                              THEN Cleaned(doc.nodes[k].attrs)[a] ELSE doc.nodes[k].attrs[a]
    BY DEF IInv, CleanedSoFar
  <2>2. ASSUME NEW a \in Plain
        PROVE  new[a] = Cleaned(doc.nodes[at].attrs)[a]
    <3>1. doc.nodes[at].attrs \in [Attribute -> Text]
      BY <1>2, DocIs
    <3>2. \A b \in Plain : old[b] = doc.nodes[at].attrs[b]
      BY <1>2, <2>1
    <3> QED  BY <1>4, <3>1, <3>2, CleanedIs DEF new, Plain
  <2>3. doc.nodes[at].kind = "element"
    BY <1>1, <1>2 DEF IInv, SameTree
  <2>4. ASSUME NEW k \in DOMAIN nodes, NEW a \in Plain
        PROVE  nodes'[k].attrs[a] = IF Visited(k)' /\ doc.nodes[k].kind = "element"
                                    THEN Cleaned(doc.nodes[k].attrs)[a] ELSE doc.nodes[k].attrs[a]
    <3>1. CASE k = at
      BY <1>2, <1>6, <2>2, <2>3, <3>1
    <3>2. CASE k # at
      BY <1>2, <1>6, <2>1, <3>2
    <3> QED  BY <3>1, <3>2
  <2>5. \A k \in DOMAIN nodes' : \A a \in Plain :
          nodes'[k].attrs[a] = IF Visited(k)' /\ doc'.nodes[k].kind = "element"
                               THEN (Cleaned(doc.nodes[k].attrs)')[a] ELSE doc'.nodes[k].attrs[a]
    BY <1>2, <1>3, <1>6, <2>4
  <2> QED  BY <1>2, <2>5 DEF CleanedSoFar
<1>11. TargetsKnown'
  BY <1>2, <1>3 DEF IInv, TargetsKnown, Links
<1>12. CommentsSoFar'
  <2>1. \A k \in DOMAIN nodes' : Visited(k)' /\ Removable(nodes'[k]) <=>
                                   Visited(k) /\ Removable(nodes[k])
    BY <1>1, <1>2, <1>6 DEF Removable, isConditionalComment
  <2> QED  BY <1>1, <1>2, <1>3, <1>6, <2>1 DEF IInv, CommentsSoFar
<1> QED  BY <1>7, <1>8, <1>9, <1>10, <1>11, <1>12 DEF IInv

(* A comment on the way is marked if comments are to go. *)
LEMMA VisitCommentStep ==
    ASSUME IInv, VisitComment
    PROVE  IInv'
<1>1. /\ nodes[at].kind # "element" /\ at' = at + 1 /\ UNCHANGED <<nodes, gone>> /\ Visiting
      /\ doomed' = IF o.removeComments /\ Removable(nodes[at]) THEN doomed \union {at} ELSE doomed
  BY DEF VisitComment
<1>2. /\ pc = "visit" /\ pc' = "visit" /\ doc' = doc /\ targets' = targets /\ Cleans /\ Cleans'
      /\ doc \in Documents /\ at \in DOMAIN nodes
      /\ DOMAIN nodes = DOMAIN doc.nodes /\ DOMAIN nodes = 1..Len(nodes) /\ Len(nodes) \in Nat
      /\ nodes \in Seq(Node) /\ Len(nodes) = Len(doc.nodes)
      /\ \A k \in DOMAIN nodes : Visited(k)' <=> Visited(k) \/ k = at
      /\ ~Visited(at)
  BY <1>1, VisitFacts
<1>3. o' = o /\ \A x : Cleaned(x)' = Cleaned(x)
  BY <1>2 DEF o, Cleaned, HashedIDs
<1>4. TypeOK'
  <2>1. /\ targets \subseteq DOMAIN Hash /\ at \in Nat
        /\ doomed \union gone \subseteq {k \in DOMAIN nodes : Removable(nodes[k])}
        /\ doomed \subseteq 1 .. at - 1
    BY <1>2 DEF IInv, TypeOK
  <2>2. doomed' \subseteq 1 .. at' - 1
    BY <1>1, <1>2, <2>1
  <2>3. doomed' \union gone' \subseteq {k \in DOMAIN nodes' : Removable(nodes'[k])}
    BY <1>1, <1>2, <2>1
  <2>4. at' \in 1 .. Len(doc.nodes) + 1
    BY <1>1, <1>2
  <2> QED  BY <1>1, <1>2, <2>1, <2>2, <2>3, <2>4 DEF TypeOK
<1>5. SameTree'
  BY <1>1, <1>2 DEF IInv, SameTree
<1>6. PromotedSoFar'
  <2>1. \A e \in DOMAIN doc.resolved : Reached(e) /\ Reached(e)'
    BY <1>2 DEF Reached
  <2> QED  BY <1>1, <1>2, <2>1, PromotedStable DEF IInv, PromotedSoFar
<1>7. CleanedSoFar'
  <2>1. doc.nodes[at].kind # "element"
    BY <1>1, <1>2 DEF IInv, SameTree
  <2>2. \A k \in DOMAIN nodes : (Visited(k)' /\ doc.nodes[k].kind = "element") <=>
                                (Visited(k) /\ doc.nodes[k].kind = "element")
    BY <1>2, <2>1
  <2>3. \A k \in DOMAIN nodes : \A a \in Plain :
          nodes[k].attrs[a] = IF Visited(k)' /\ doc.nodes[k].kind = "element"
                              THEN Cleaned(doc.nodes[k].attrs)[a] ELSE doc.nodes[k].attrs[a]
    BY <2>2 DEF IInv, CleanedSoFar
  <2>4. \A k \in DOMAIN nodes' : \A a \in Plain :
          nodes'[k].attrs[a] = IF Visited(k)' /\ doc'.nodes[k].kind = "element"
                               THEN (Cleaned(doc.nodes[k].attrs)')[a] ELSE doc'.nodes[k].attrs[a]
    BY <1>1, <1>2, <1>3, <2>3
  <2> QED  BY <1>2, <2>4 DEF CleanedSoFar
<1>8. TargetsKnown'
  BY <1>2, <1>3 DEF IInv, TargetsKnown, Links
<1>9. CommentsSoFar'
  <2>1. /\ doomed = {k \in DOMAIN nodes : Visited(k) /\ o.removeComments /\ Removable(nodes[k])}
        /\ gone = {}
    BY <1>2 DEF IInv, CommentsSoFar
  <2>2. doomed' = {k \in DOMAIN nodes : Visited(k)' /\ o.removeComments /\ Removable(nodes[k])}
    BY <1>1, <1>2, <2>1
  <2> QED  BY <1>1, <1>2, <1>3, <2>1, <2>2 DEF CommentsSoFar
<1> QED  BY <1>4, <1>5, <1>6, <1>7, <1>8, <1>9 DEF IInv

(* The marked comments are detached once the walk has seen every node. *)
LEMMA DetachCommentsStep ==
    ASSUME IInv, DetachComments
    PROVE  IInv'
<1>1. /\ pc = "visit" /\ pc' = "done" /\ at > Len(nodes) /\ gone' = gone \union doomed
      /\ UNCHANGED <<doc, at, nodes, targets, doomed>>
  BY DEF DetachComments
<1>2. Cleans /\ Cleans' /\ o' = o /\ \A x : Cleaned(x)' = Cleaned(x)
  <2>1. Cleans /\ Cleans' /\ o' = o
    BY <1>1 DEF IInv, CleanedSoFar, Cleans, o
  <2> QED  BY <1>1, <2>1 DEF o, Cleaned, HashedIDs
<1>3. DOMAIN nodes = 1..Len(nodes) /\ Len(nodes) \in Nat /\ at \in Nat /\ gone = {}
  BY <1>1 DEF IInv, TypeOK, CommentsSoFar
<1>4. \A k \in DOMAIN nodes : Visited(k) /\ Visited(k)'
  BY <1>1, <1>2, <1>3 DEF Visited
<1>5. TypeOK'
  BY <1>1, <1>3 DEF IInv, TypeOK
<1>6. SameTree'
  BY <1>1 DEF IInv, SameTree
<1>7. PromotedSoFar'
  <2>1. \A e \in DOMAIN doc.resolved : Reached(e) /\ Reached(e)'
    BY <1>1 DEF Reached
  <2> QED  BY <1>1, <2>1, PromotedStable DEF IInv, PromotedSoFar
<1>8. CleanedSoFar'
  <2>1. \A k \in DOMAIN nodes' : \A a \in Plain :
          nodes'[k].attrs[a] = IF Visited(k)' /\ doc'.nodes[k].kind = "element"
                               THEN (Cleaned(doc.nodes[k].attrs)')[a] ELSE doc'.nodes[k].attrs[a]
    BY <1>1, <1>2, <1>4 DEF IInv, CleanedSoFar
  <2> QED  BY <1>1, <2>1 DEF CleanedSoFar
<1>9. TargetsKnown'
  BY <1>1, <1>2 DEF IInv, TargetsKnown, Links
<1>10. CommentsSoFar'
  BY <1>1, <1>2, <1>3, <1>4 DEF IInv, CommentsSoFar
<1> QED  BY <1>5, <1>6, <1>7, <1>8, <1>9, <1>10 DEF IInv

(* The inductive invariant holds throughout. *)
THEOREM InductiveInvariant == Spec => []IInv
<1>1. ASSUME IInv, UNCHANGED vars PROVE IInv'
  <2>1. /\ UNCHANGED <<doc, pc, at, nodes, targets, doomed, gone>> /\ o' = o /\ Cleans' = Cleans
        /\ \A x : Cleaned(x)' = Cleaned(x)
    BY <1>1 DEF vars, o, Cleans, Cleaned, HashedIDs
  <2>2. \A k : (Visited(k)' <=> Visited(k)) /\ (Reached(k)' <=> Reached(k))
    BY <2>1 DEF Visited, Reached
  <2>3. PromotedSoFar'
    BY <1>1, <2>1, <2>2, PromotedStable DEF IInv, PromotedSoFar
  <2>4. CleanedSoFar'
    <3>1. \A k \in DOMAIN nodes' : \A a \in Plain :
            nodes'[k].attrs[a] = IF Visited(k)' /\ doc'.nodes[k].kind = "element"
                                 THEN (Cleaned(doc.nodes[k].attrs)')[a] ELSE doc'.nodes[k].attrs[a]
      BY <1>1, <2>1, <2>2 DEF IInv, CleanedSoFar
    <3> QED  BY <1>1, <2>1, <3>1 DEF IInv, CleanedSoFar
  <2>5. TargetsKnown' /\ CommentsSoFar'
    BY <1>1, <2>1, <2>2 DEF IInv, TargetsKnown, CommentsSoFar, Links
  <2>6. TypeOK' /\ SameTree'
    BY <1>1, <2>1 DEF IInv, TypeOK, SameTree
  <2> QED  BY <2>3, <2>4, <2>5, <2>6 DEF IInv
<1>2. IInv /\ [Next]_vars => IInv'
  BY <1>1, PromoteElementStep, PromotionDoneStep, CollectTargetsStep,
     VisitElementStep, VisitCommentStep, DetachCommentsStep DEF Next
<1> QED  BY <1>2, InitIInv, PTL DEF Spec

(***************************************************************************)
(* The state of promotion and cleanup has its type: the tree stays a tree  *)
(* of nodes, and only comments are ever marked or removed.                 *)
(***************************************************************************)
THEOREM TypeCorrect == Spec => []TypeOK
<1>1. IInv => TypeOK
  BY DEF IInv
<1> QED  BY <1>1, InductiveInvariant, PTL

(* What the attributes and the comments of a finished document are. *)
LEMMA WhenDone ==
    ASSUME IInv, pc = "done"
    PROVE  /\ DOMAIN nodes = DOMAIN doc.nodes
           /\ gone = {k \in DOMAIN nodes : o.removeComments /\ Removable(nodes[k])}
           /\ o.removeIDs =>
                 targets = {doc.nodes[k].attrs.href : k \in {k \in DOMAIN doc.nodes : Links(doc.nodes[k])}}
           /\ \A k \in DOMAIN nodes :
                 LET old == doc.nodes[k].attrs
                     new == nodes[k].attrs
                 IN /\ nodes[k].kind = doc.nodes[k].kind /\ nodes[k].name = doc.nodes[k].name
                    /\ nodes[k].kind = "element" =>
                       /\ new.id = IF ~o.removeIDs THEN old.id
                                   ELSE IF old.id \in targets THEN Hash[old.id] ELSE None
                       /\ new.href = IF o.removeIDs /\ IsFragment(old.href) THEN Hash[old.href] ELSE old.href
                       /\ new.class = IF o.removeClasses THEN None ELSE old.class
                       /\ new.contenteditable = IF o.resetContentEditable THEN None ELSE old.contenteditable
<1>1. doc \in Documents /\ nodes \in Seq(Node) /\ Len(nodes) = Len(doc.nodes)
      /\ targets \subseteq DOMAIN Hash
  BY DEF IInv, SameTree, TypeOK
<1>2. DOMAIN nodes = DOMAIN doc.nodes
  BY <1>1, DocIs
<1>3. \A k : Visited(k) <=> Cleans
  BY DEF Visited
<1>4. gone = {k \in DOMAIN nodes : o.removeComments /\ Removable(nodes[k])}
  BY <1>3 DEF IInv, CommentsSoFar, Cleans
<1>5. o.removeIDs => targets = {doc.nodes[k].attrs.href : k \in {k \in DOMAIN doc.nodes : Links(doc.nodes[k])}}
  BY DEF IInv, TargetsKnown, Cleans
<1>6. ASSUME NEW k \in DOMAIN nodes
      PROVE  LET old == doc.nodes[k].attrs
                 new == nodes[k].attrs
             IN /\ nodes[k].kind = doc.nodes[k].kind /\ nodes[k].name = doc.nodes[k].name
                /\ nodes[k].kind = "element" =>
                   /\ new.id = IF ~o.removeIDs THEN old.id
                               ELSE IF old.id \in targets THEN Hash[old.id] ELSE None
                   /\ new.href = IF o.removeIDs /\ IsFragment(old.href) THEN Hash[old.href] ELSE old.href
                   /\ new.class = IF o.removeClasses THEN None ELSE old.class
                   /\ new.contenteditable = IF o.resetContentEditable THEN None ELSE old.contenteditable
  <2> DEFINE old == doc.nodes[k].attrs
             new == nodes[k].attrs
  <2>1. nodes[k].kind = doc.nodes[k].kind /\ nodes[k].name = doc.nodes[k].name
    BY DEF IInv, SameTree
  <2>2. old \in [Attribute -> Text]
    BY <1>1, <1>2, DocIs
  <2>3. ASSUME NEW a \in Plain, nodes[k].kind = "element"
        PROVE  new[a] = IF Cleans THEN Cleaned(old)[a] ELSE old[a]
    BY <1>3, <2>1, <2>3 DEF IInv, CleanedSoFar
  <2>4. CASE ~Cleans
    BY <2>1, <2>3, <2>4 DEF Cleans, Plain
  <2>5. CASE Cleans
    <3>1. nodes[k].kind = "element" => /\ new.id = Cleaned(old).id /\ new.href = Cleaned(old).href
                                       /\ new.class = Cleaned(old).class
                                       /\ new.contenteditable = Cleaned(old).contenteditable
      BY <2>3, <2>5 DEF Plain
    <3> HIDE DEF old, new
    <3>2. QED  BY <1>1, <2>1, <2>2, <3>1, CleanedIs DEF old, new
  <2> QED  BY <2>4, <2>5
<1> QED  BY <1>2, <1>4, <1>5, <1>6

(***************************************************************************)
(* Whatever the document links to, an anchor of the result points at every *)
(* element it pointed at in the source, and no link points at an element   *)
(* it did not point at (attrs.go, cleanup). The links of other elements    *)
(* may lose their targets.                                                 *)
(***************************************************************************)
THEOREM LinksSurvive == Spec => []LinksKeepTargets
<1>1. ASSUME IInv PROVE LinksKeepTargets
  <2> SUFFICES ASSUME pc = "done", NEW l \in DOMAIN nodes, NEW t \in DOMAIN nodes
               PROVE  /\ PointsTo(doc.nodes, l, t) /\ (o.removeIDs => Links(doc.nodes[l]))
                            => PointsTo(nodes, l, t)
                      /\ PointsTo(nodes, l, t) => PointsTo(doc.nodes, l, t)
    BY DEF LinksKeepTargets
  <2> DEFINE old(k) == doc.nodes[k].attrs
             new(k) == nodes[k].attrs
  <2>1. /\ DOMAIN nodes = DOMAIN doc.nodes
        /\ \A k \in DOMAIN nodes : nodes[k].kind = doc.nodes[k].kind
    BY <1>1, WhenDone
  <2>2. \A k \in DOMAIN nodes : nodes[k].kind = "element" =>
           /\ new(k).id = IF ~o.removeIDs THEN old(k).id
                          ELSE IF old(k).id \in targets THEN Hash[old(k).id] ELSE None
           /\ new(k).href = IF o.removeIDs /\ IsFragment(old(k).href)
                            THEN Hash[old(k).href] ELSE old(k).href
    BY <1>1, WhenDone
  <2>3. doc \in Documents
    BY <1>1 DEF IInv, SameTree
  <2>4. \A k \in DOMAIN nodes : /\ old(k).id \in DOMAIN Hash \union {None}
                                /\ \A x \in DOMAIN Hash : old(k).href # Hash[x]
    BY <2>1, <2>3, HashAssumption
  <2>5. CASE ~o.removeIDs
    BY <2>1, <2>2, <2>5 DEF PointsTo
  <2>6. CASE o.removeIDs
    <3>1. targets = {doc.nodes[k].attrs.href : k \in {k \in DOMAIN doc.nodes : Links(doc.nodes[k])}}
      BY <1>1, <2>6, WhenDone
    <3>2. PointsTo(doc.nodes, l, t) /\ Links(doc.nodes[l]) => old(t).id \in targets
      BY <2>1, <3>1 DEF PointsTo
    <3>3. CASE nodes[l].kind = "element" /\ nodes[t].kind = "element"
      <4> DEFINE i == old(t).id
                 h == old(l).href
      <4>1. /\ new(t).id = IF i \in targets THEN Hash[i] ELSE None
            /\ new(l).href = IF h \in DOMAIN Hash THEN Hash[h] ELSE h
        BY <2>2, <2>6, <3>3 DEF IsFragment
      <4>2. targets \subseteq DOMAIN Hash
        BY <1>1 DEF IInv, TypeOK
      <4>3. i \in DOMAIN Hash \union {None} /\ \A x \in DOMAIN Hash : h # Hash[x]
        BY <2>4
      <4>4. (new(l).href # None /\ new(l).href = new(t).id) <=> (h # None /\ h = i /\ i \in targets)
        <5> HIDE DEF i, h
        <5> QED  BY <4>1, <4>2, <4>3, HashAssumption
      <4> QED  BY <2>1, <2>6, <3>2, <3>3, <4>4 DEF PointsTo
    <3>4. CASE ~(nodes[l].kind = "element" /\ nodes[t].kind = "element")
      BY <2>1, <3>4 DEF PointsTo
    <3> QED  BY <3>3, <3>4
  <2> QED  BY <2>5, <2>6
<1> QED  BY <1>1, InductiveInvariant, PTL

(***************************************************************************)
(* Cleanup reaches every node of every document: no class or               *)
(* contenteditable is left that was to go and none goes that was to stay,  *)
(* every plain comment goes that was to and nothing else but the closing   *)
(* half of a conditional one, and every id left is the hash of one that a  *)
(* link points at (attrs.go, cleanup).                                     *)
(***************************************************************************)
THEOREM NothingUncleaned == Spec => []CleanedEverywhere
<1>1. ASSUME IInv PROVE CleanedEverywhere
  <2> SUFFICES ASSUME pc = "done" PROVE CleanedEverywhere
    BY DEF CleanedEverywhere
  <2> DEFINE old(k) == doc.nodes[k].attrs
             new(k) == nodes[k].attrs
  <2>1. /\ DOMAIN nodes = DOMAIN doc.nodes
        /\ gone = {k \in DOMAIN nodes : o.removeComments /\ Removable(nodes[k])}
        /\ \A k \in DOMAIN nodes : nodes[k].kind = doc.nodes[k].kind /\ nodes[k].name = doc.nodes[k].name
    BY <1>1, WhenDone
  <2>2. \A k \in DOMAIN nodes : nodes[k].kind = "element" =>
           /\ new(k).id = IF ~o.removeIDs THEN old(k).id
                          ELSE IF old(k).id \in targets THEN Hash[old(k).id] ELSE None
           /\ new(k).href = IF o.removeIDs /\ IsFragment(old(k).href)
                            THEN Hash[old(k).href] ELSE old(k).href
           /\ new(k).class = IF o.removeClasses THEN None ELSE old(k).class
           /\ new(k).contenteditable = IF o.resetContentEditable THEN None ELSE old(k).contenteditable
    BY <1>1, WhenDone
  <2>3. targets \subseteq DOMAIN Hash
    BY <1>1 DEF IInv, TypeOK
  <2>4. ASSUME NEW k \in DOMAIN nodes, nodes[k].kind = "element", o.removeIDs
        PROVE  /\ new(k).id \notin DOMAIN Hash /\ new(k).href \notin DOMAIN Hash
               /\ new(k).id # None =>
                     \E l \in DOMAIN nodes : PointsTo(nodes, l, k)
    <3>1. /\ new(k).id = IF old(k).id \in targets THEN Hash[old(k).id] ELSE None
          /\ new(k).href = IF old(k).href \in DOMAIN Hash THEN Hash[old(k).href] ELSE old(k).href
      BY <2>2, <2>4 DEF IsFragment
    <3>2. new(k).id \notin DOMAIN Hash /\ new(k).href \notin DOMAIN Hash
      BY <2>3, <3>1, HashAssumption
    <3>3. ASSUME new(k).id # None
          PROVE  \E l \in DOMAIN nodes : PointsTo(nodes, l, k)
      <4>1. old(k).id \in targets /\ new(k).id = Hash[old(k).id]
        BY <3>1, <3>3
      <4>2. targets = {doc.nodes[j].attrs.href : j \in {j \in DOMAIN doc.nodes : Links(doc.nodes[j])}}
        BY <1>1, <2>4, WhenDone
      <4>3. PICK a \in DOMAIN doc.nodes : Links(doc.nodes[a]) /\ old(k).id = old(a).href
        BY <4>1, <4>2
      <4>4. /\ nodes[a].kind = "element" /\ nodes[a].name = "a" /\ a \in DOMAIN nodes
            /\ new(a).href = Hash[old(a).href]
        BY <2>1, <2>2, <2>4, <4>3 DEF Links
      <4> QED  BY <2>4, <3>3, <4>1, <4>3, <4>4 DEF PointsTo
    <3> QED  BY <3>2, <3>3
  <2>5. /\ \A k \in gone : o.removeComments /\ nodes[k].kind = "comment" /\ nodes[k].name # "["
        /\ \A k \in DOMAIN nodes :
              o.removeComments /\ nodes[k].kind = "comment" /\ nodes[k].name \notin {"[", "<!"}
                 => k \in gone
    BY <2>1 DEF Removable, isConditionalComment
  <2> QED  BY <2>1, <2>2, <2>4, <2>5 DEF CleanedEverywhere
<1> QED  BY <1>1, InductiveInvariant, PTL

(***************************************************************************)
(* A promoted attribute never contradicts the CSS: what it says is what    *)
(* the winning declaration of its property says, and a winning length in   *)
(* pixels always reaches an element that can have it.                      *)
(***************************************************************************)
THEOREM PromotionAgrees == Spec => []AttributesAgree
<1>1. ASSUME IInv PROVE AttributesAgree
  <2> SUFFICES ASSUME pc = "done", NEW e \in DOMAIN doc.resolved
               PROVE  LET el == doc.resolved[e]
                          n == el.node
                          name == nodes[n].name
                      IN /\ \A a \in PresentationalAttrs :
                               nodes[n].attrs[a] # doc.nodes[n].attrs[a] =>
                                   \E v \in Winner(el, IF a \in DOMAIN styleToAttribute
                                                       THEN styleToAttribute[a] ELSE a) :
                                       nodes[n].attrs[a] = v.of
                         /\ \A a \in {"width", "height"} :
                               \A v \in Winner(el, a) :
                                  v.unit = "px" /\ o[a] /\ name \in {"table", "td", "th", "img"} =>
                                      nodes[n].attrs[a] = v.of
    BY DEF AttributesAgree
  <2> DEFINE el == doc.resolved[e]
             n == el.node
             name == nodes[n].name
  <2>1. el.slots \in Seq(Slot) /\ doc \in Documents
    BY <1>1, DocIs DEF IInv, SameTree
  <2>2. \A a \in PresentationalAttrs :
           nodes[n].attrs[a] = IF Promoted(el, a) # None THEN Promoted(el, a) ELSE doc.nodes[n].attrs[a]
    BY <1>1 DEF IInv, PromotedSoFar, Reached
  <2>3. \A p : Winner(el, p) = {el.slots[k].value : k \in find(el.slots, p)}
    BY DEF Winner, find
  <2>4. ASSUME NEW a \in PresentationalAttrs, nodes[n].attrs[a] # doc.nodes[n].attrs[a]
        PROVE  \E v \in Winner(el, PropOf(a)) : nodes[n].attrs[a] = v.of
    <3>1. Promoted(el, a) # None /\ nodes[n].attrs[a] = Promoted(el, a)
      BY <2>2, <2>4
    <3>2. PICK k \in find(el.slots, PropOf(a)) : Promoted(el, a) = el.slots[k].value.of
      BY <2>1, <3>1, PromotedIs
    <3> QED  BY <2>3, <3>1, <3>2
  <2>5. ASSUME NEW a \in {"width", "height"}, NEW v \in Winner(el, a),
               v.unit = "px", o[a], name \in {"table", "td", "th", "img"}
        PROVE  nodes[n].attrs[a] = v.of
    <3> DEFINE live == find(el.slots, a)
    <3>1. PICK k \in live : v = el.slots[k].value
      BY <2>3
    <3>2. k \in DOMAIN el.slots /\ live = {k}
      <4>1. \A x, y \in DOMAIN el.slots :
               el.slots[x].prop = el.slots[y].prop /\ ~el.slots[x].dead /\ ~el.slots[y].dead => x = y
        BY <2>1, DocumentAssumption
      <4> HIDE DEF el
      <4> QED  BY <3>1, <4>1 DEF find
    <3>3. k \in Nat /\ Min(live) = k
      BY <2>1, <3>2 DEF Min
    <3>4. a \in PresentationalAttrs /\ a \notin DOMAIN styleToAttribute
      BY DEF PresentationalAttrs, styleToAttribute
    <3>5. Promoted(el, a) = Dimension(name, v)
      BY <2>5, <3>1, <3>3, <3>4 DEF Promoted, widthHeightElements
    <3>6. Dimension(name, v) = v.of
      BY <2>5 DEF Dimension
    <3>7. v.of # None
      BY <2>1, <3>1, <3>2, DocumentAssumption
    <3> QED  BY <2>2, <3>4, <3>5, <3>6, <3>7
  <2> QED  BY <2>4, <2>5 DEF PropOf
<1> QED  BY <1>1, InductiveInvariant, PTL

=============================================================================
