---------------------------- MODULE MCSelectors ----------------------------
(***************************************************************************)
(* Small arms for module Selectors: up to three pieces, lists of one to    *)
(* three alternatives, one of them nested, tags only where a compound      *)
(* begins. With a cap of 4, two lists of three are cut, two of two are not.*)
(***************************************************************************)
EXTENDS Selectors

CONSTANT MaxPieces

Plain(kind, name) == [kind |-> kind, name |-> name, alts |-> <<>>]
Fn(kind, alts) == [kind |-> kind, name |-> "", alts |-> alts]

P == Plain("tag", "p")
B == Plain("tag", "b")
C == Plain("class", "c")
D == Plain("class", "d")
Blank == Plain("descendant", "")
Hover == Plain("ignored", "hover")

FewElements == {[tag |-> "p", classes |-> cs] : cs \in SUBSET {"c", "d"}}
                  \union {[tag |-> "b", classes |-> cs] : cs \in {{}, {"c"}}}

Functions3 ==
    {Fn("is", <<<<C>>>>), Fn("is", <<<<P, C>>, <<D>>>>),
     Fn("is", <<<<B, Blank, C>>, <<P>>>>), Fn("is", <<<<C>>, <<D, Hover>>>>),
     Fn("is", <<<<C>>, <<D>>, <<P>>>>), Fn("is", <<<<C>>, <<D>>, <<C, D>>>>),
     Fn("is", <<<<D>>, <<C, Fn("is", <<<<D>>, <<P>>>>)>>>>),
     Fn("is", <<<<Fn("is", <<<<P>>, <<D>>>>), C>>, <<B>>>>),
     Fn("where", <<<<P, C>>, <<D>>>>),
     Fn("is", <<<<>>, <<C>>>>),
     Fn("not", <<<<C>>, <<P>>>>)}

Pieces == {P, C, D, Blank, Hover, Plain("pseudo", "before")} \union Functions3

WellFormed(sel) ==
    /\ sel[1].kind \notin {"descendant", "pseudo"} /\ Last(sel).kind # "descendant"
    /\ \A k \in DOMAIN sel : k > 1 =>
          /\ sel[k].kind = "tag" => sel[k - 1].kind = "descendant"
          /\ sel[k].kind = "descendant" => sel[k - 1].kind \notin {"descendant", "pseudo"}
          /\ sel[k].kind = "pseudo" => sel[k - 1].kind # "descendant"
          /\ sel[k - 1].kind # "pseudo"

MCArms == {sel \in UNION {[1 .. n -> Pieces] : n \in 1 .. MaxPieces} : WellFormed(sel)}

=============================================================================
