----------------------------- MODULE MCInliner -----------------------------
(***************************************************************************)
(* Small documents for module Inliner: up to three style elements, each    *)
(* with up to two statements, and ExtraCSS of up to two.                   *)
(***************************************************************************)
EXTENDS Inliner

St(n, d, k) == [rules |-> n, decls |-> d, kept |-> k]

(* A plain ruleset; one with three declarations; a selector list of two arms;
   an @media block; `a:hover { ... }`; `a:hover, b { ... }`. *)
MCStatement ==
    {St(1, 1, FALSE), St(1, 3, FALSE), St(2, 1, FALSE),
     St(0, 0, TRUE), St(0, 1, TRUE), St(1, 1, TRUE)}

UpTo(n, S) == UNION {[1..k -> S] : k \in 0..n}

TagOf(one, emb, sh) == [oneText |-> one, embed |-> emb, sheet |-> sh]

MCTags ==
    {TagOf(TRUE, FALSE, sh) : sh \in UpTo(2, MCStatement)}
    \union {TagOf(one, emb, <<St(1, 1, TRUE)>>) : one \in BOOLEAN, emb \in BOOLEAN}

MCPages == UpTo(2, MCTags) \union {<<s, t, s>> : s \in MCTags, t \in MCTags}

MCExtras == UpTo(1, MCStatement) \union {<<s, s>> : s \in MCStatement}

=============================================================================
