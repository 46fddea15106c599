---------------------------- MODULE MCVariables ----------------------------
(***************************************************************************)
(* Small documents for module Variables: an element, its child and, below  *)
(* it, a grandchild no rule matched or did match.  The parent declares     *)
(* --a and --b, the child may override --b, and both have an ordinary      *)
(* declaration, the child also one a later declaration superseded.         *)
(***************************************************************************)
EXTENDS Variables, TLC

CONSTANTS
    a, b, c,   \* custom properties, c declared nowhere
    color,     \* an ordinary one
    compound,  \* what splitVarArgs may take for a name
    None       \* no name

Span(kind, n, v, closes) == [kind |-> kind, name |-> n, fallback |-> v, closes |-> closes]

Text == Span("text", None, NoFallback, TRUE)
Var(n) == Span("ref", n, NoFallback, TRUE)
VarOr(n, v) == Span("ref", n, v, TRUE)

(* A var( never closed, with or without a ")" as the last byte of the value. *)
Open(n, v) == Span("unclosed", n, v, FALSE)
Closing(n, v) == Span("unclosed", n, v, TRUE)

(* var(--a, var(--b) and, compound being no name that is declared, var(--a f(x). *)
Nested == Closing(a, <<Open(b, NoFallback)>>)
Misread == Closing(compound, NoFallback)

MCPiece == {Text, Open(b, NoFallback), Open(a, <<Var(b), Text>>), Nested, Misread, Var(a), Var(b),
            VarOr(a, <<Text>>), VarOr(b, <<Var(a)>>), VarOr(c, <<Nested>>), VarOr(c, <<Var(b)>>)}

(* Values for custom properties, with chains and cycles among them. *)
Definitions == {<<Text>>, <<Var(a)>>, <<Var(b), Text>>, <<Text, Nested>>, <<Var(b), Open(a, <<Var(b), Text>>)>>}

(* Values for ordinary properties. *)
Uses ==
    {<<Var(a)>>, <<Var(b), Text, Var(a)>>, <<VarOr(a, <<Text>>), Open(b, NoFallback)>>,
     <<VarOr(b, <<Var(a)>>), Misread>>, <<VarOr(c, <<Var(b)>>), Nested>>, <<VarOr(c, <<Nested>>), Var(a)>>}

Slot(p, v, dead) == [prop |-> p, value |-> v, dead |-> dead]

Custom(p) == {<<>>} \union {<<Slot(p, v, FALSE)>> : v \in Definitions}

Ordinary == {<<Slot(color, v, TRUE), Slot(color, w, FALSE)>> : v \in {<<Var(b)>>}, w \in Uses}

MCPages ==
    {[parent |-> <<0, 1, 2>>, byNode |-> (1 :> (p \o q)) @@ (k :> (r \o u))]
        : p \in Custom(a), q \in Custom(b), r \in Custom(b), u \in Ordinary, k \in {2, 3}}

=============================================================================
