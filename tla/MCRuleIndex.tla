---------------------------- MODULE MCRuleIndex ----------------------------
(***************************************************************************)
(* Small stylesheets and pages for module RuleIndex: up to three rules and *)
(* up to two elements.                                                     *)
(***************************************************************************)
EXTENDS RuleIndex

CONSTANTS a, b, t, u  \* identifiers; u is written with an escape and means a

MCDenotes == [x \in Ident |-> IF x = u THEN a ELSE x]

El(id, class, tag, first) == [id |-> id, class |-> class, tag |-> tag, classFirst |-> first]

MCElements ==
    {El(NoIdent, <<>>, t, TRUE), El(a, <<>>, t, FALSE), El(NoIdent, <<a>>, t, TRUE),
     El(b, <<b, a>>, t, TRUE), El(a, <<a, b, a>>, t, FALSE)}

Sel(ids, classes, tag, rest) == [ids |-> ids, classes |-> classes, tag |-> tag, rest |-> rest]

(* Some elements meet the rest of their selector, such as :not(.b). *)
NotB == {el \in MCElements : el.class \notin {<<b, a>>, <<a, b, a>>}}

MCSelectors ==
    {Sel(<<a>>, <<>>, NoIdent, MCElements),
     Sel(<<b>>, <<a>>, NoIdent, MCElements),
     Sel(<<>>, <<a>>, NoIdent, NotB),
     Sel(<<>>, <<b, a>>, t, MCElements),
     Sel(<<>>, <<>>, t, MCElements),
     Sel(<<>>, <<>>, NoIdent, NotB)}

UpTo(n, S) == UNION {[1..k -> S] : k \in 0..n}

MCSheets == UpTo(3, MCSelectors)
MCPages == UpTo(2, MCElements)

(* A selector whose class is written with an escape. *)
EscapedSelectors == MCSelectors \union {Sel(<<>>, <<u>>, NoIdent, MCElements)}
EscapedSheets == UpTo(1, EscapedSelectors)

=============================================================================
