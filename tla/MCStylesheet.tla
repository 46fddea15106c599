---------------------------- MODULE MCStylesheet ----------------------------
(***************************************************************************)
(* Small stylesheets for module Stylesheet, over two selectors: one that   *)
(* compiles to one rule; and one with an arm to ignore, an arm with an     *)
(* :is() of two alternatives, and an arm nothing can be made of.           *)
(***************************************************************************)
EXTENDS Stylesheet

Plain(n) == [ignored |-> FALSE, variants |-> n]
Hover == [ignored |-> TRUE, variants |-> 0]

MCArms ==
    [s \in {"p", "a:hover, :is(p, b), ?"} |->
        IF s = "p" THEN <<Plain(1)>> ELSE <<Hover, Plain(2), Plain(0)>>]

=============================================================================
