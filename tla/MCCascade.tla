----------------------------- MODULE MCCascade -----------------------------
(***************************************************************************)
(* Small stylesheets for module Cascade.  A document has a style attribute *)
(* of at most two declarations and two rulesets: a selector list of one or *)
(* two arms with up to two declarations, and a one-declaration ruleset.    *)
(* Two arms share their declarations and their numbers, as css.go makes    *)
(* them. Any subset of the rules may match.                                *)
(***************************************************************************)
EXTENDS Cascade

CONSTANTS color, font, vcolor, content

Declared(P) == [prop : P, important : BOOLEAN]

UpToTwo(S) == {<<a>> : a \in S} \union {<<a, b>> : a \in S, b \in S}

Numbered(decls, ord) ==
    [k \in DOMAIN decls |-> [prop |-> decls[k].prop,
                             important |-> decls[k].important, ord |-> ord + k - 1]]

Ruleset(arms, decls, ord, pseudo) ==
    [a \in DOMAIN arms |-> [spec |-> arms[a], pseudo |-> pseudo,
                            decls |-> Numbered(decls, ord)]]

(* The documents with an attribute and rulesets over these properties. *)
DocumentsOf(styles, one, two, arms, specs, pseudo) ==
    {[style |-> st, rules |-> Ruleset(as, first, 0, FALSE)
                              \o Ruleset(<<sp>>, <<second>>, Len(first), ps)]
        : st \in styles, as \in arms, first \in UpToTwo(Declared(one)),
          sp \in specs, second \in Declared(two), ps \in pseudo}

Loud(p) == [prop |-> p, important |-> TRUE]
Quiet(p) == [prop |-> p, important |-> FALSE]
Styles == {<<>>, <<Quiet(color)>>, <<Loud(color), Quiet(color)>>, <<Quiet(color), Loud(color)>>}

(* One ruleset with one arm or two, in both orders of strength; the second
   ruleset weaker than, equal to or stronger than it. *)
TagArm == <<0, 0, 1>>
ClassArm == <<0, 1, 0>>
Ordinary ==
    DocumentsOf(Styles, {color, font}, {color}, {<<TagArm, ClassArm>>, <<ClassArm, TagArm>>},
                {TagArm, ClassArm}, {FALSE})
    \union DocumentsOf({<<>>, <<Quiet(color)>>}, {color, font}, {content}, {<<ClassArm>>}, {TagArm}, {FALSE})
    \union DocumentsOf(Styles, {color}, {color}, {<<ClassArm, ClassArm>>}, {ClassArm}, BOOLEAN)

(* Vectors on both sides of a field that holds 3: four classes saturate it
   and five of them, in a later rule, must not beat one id. *)
Crowded ==
    DocumentsOf({<<>>, <<Loud(color)>>}, {color}, {color},
                {<<<<1, 0, 0>>>>, <<<<0, 4, 0>>>>, <<<<0, 3, 0>>, <<0, 2, 4>>>>},
                {<<1, 0, 0>>, <<0, 3, 0>>, <<0, 5, 1>>}, {FALSE})

(* A custom property, alone or beside a declaration that stays. *)
Custom == DocumentsOf({<<>>} \union UpToTwo(Declared({vcolor, color})), {vcolor}, {vcolor, color},
                      {<<ClassArm>>}, {ClassArm}, {FALSE})

MCDocuments == Ordinary \union Crowded \union Custom

=============================================================================
