------------------------------ MODULE MCAttrs ------------------------------
(***************************************************************************)
(* Small documents for module Attrs. For the cleanup: three nodes in every *)
(* arrangement, comments, anchors and areas that link, elements with ids.  *)
(* For the promotion: an image, a cell or a paragraph whose property map   *)
(* has up to three slots, one property superseded.                         *)
(***************************************************************************)
EXTENDS Attrs

MCText == {"element", "comment", "[", "<!", "a", "area", "div", "img", "td", "tr", "p",
           "none", "x", "y", "hx", "hy", "page", "c", "true", "200", "px", "100", "auto", "%",
           "50%", "other", "3em", "url", "pic", "gradient", "g", "gone", "red", "width",
           "height", "background-image", "background-color", "text-align", "vertical-align"}

HashXY == [x |-> "hx", y |-> "hy"]

Bare == [a \in {"id", "href", "class", "contenteditable", "width", "height",
                "bgcolor", "background", "align", "valign"} |-> None]

Marked(id, href) == [Bare EXCEPT !.id = id, !.href = href,
                                 !.class = "c", !.contenteditable = "true"]

El(name, parent, attrs) == [kind |-> "element", name |-> name, parent |-> parent, attrs |-> attrs]
Comment(opens, parent) == [kind |-> "comment", name |-> opens, parent |-> parent, attrs |-> Bare]

NodesAt(parents) ==
    {Comment(w, p) : w \in {None, "[", "<!"}, p \in parents}
    \union {El("a", p, Marked(id, h)) : id \in {None, "x"}, h \in {"x", "y"}, p \in parents}
    \union {El("area", p, Marked(None, h)) : h \in {"x", "page"}, p \in parents}
    \union {El("div", p, Marked(id, None)) : id \in {"x", "y"}, p \in parents}

Trees == {<<a, b, c>> : a \in NodesAt({0}), b \in NodesAt({0, 1}), c \in NodesAt({0, 1, 2})}

(* Only elements have children, and a parent is an open element. *)
InOrder(t) == \A k \in DOMAIN t :
                 /\ t[k].parent # 0 => t[t[k].parent].kind = "element"
                 /\ t[k].parent = 1 /\ k = 3 => t[2].parent # 0

Cleaning(ids, rest, comments) ==
    [width |-> TRUE, height |-> TRUE, table |-> TRUE, removeIDs |-> ids,
     removeClasses |-> rest, resetContentEditable |-> ~rest, removeComments |-> comments]

Nothing == [Cleaning(FALSE, FALSE, FALSE) EXCEPT !.resetContentEditable = FALSE]

CleanupDocuments ==
    {[nodes |-> t, resolved |-> <<>>, o |-> op] :
        t \in {t \in Trees : InOrder(t)},
        op \in {Cleaning(TRUE, TRUE, TRUE), Cleaning(FALSE, FALSE, TRUE), Nothing}}

(* Promotion. *)
V(unit, of) == [unit |-> unit, of |-> of]
Values(prop) ==
    CASE prop \in {"width", "height"} ->
            {V("px", "100"), V("auto", "auto"), V("%", "50%"), V("other", "3em")}
      [] prop = "background-image" -> {V("url", "pic"), V("gradient", "g"), V("other", "gone")}
      [] prop \in {"background-color", "text-align", "vertical-align"} -> {V("other", "red"), V("gradient", "g")}

SlotOf(prop, value, dead) == [prop |-> prop, value |-> value, dead |-> dead]

Maps == UNION {{<<SlotOf(p, v, TRUE), SlotOf(p, w, FALSE), SlotOf(q, u, FALSE)>> :
                   v \in Values(p), w \in Values(p), u \in Values(q)} :
                   p \in {"width", "background-image"},
                   q \in {"height", "background-color", "vertical-align", "text-align"}}

Options == {[Nothing EXCEPT !.width = w, !.height = ~w, !.table = t] :
               w \in BOOLEAN, t \in BOOLEAN} \union {Cleaning(TRUE, TRUE, TRUE)}

PromotionDocuments ==
    {[nodes |-> <<El(name, 0, [Bare EXCEPT !.width = old]), Comment(None, 0)>>,
      resolved |-> <<[node |-> 1, slots |-> m]>>, o |-> op] :
        name \in {"img", "td", "tr", "p"}, old \in {None, "200"}, m \in Maps, op \in Options}

MCDocuments == CleanupDocuments \union PromotionDocuments

=============================================================================
