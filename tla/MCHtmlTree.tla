----------------------------- MODULE MCHtmlTree -----------------------------
(***************************************************************************)
(* Small documents for module HtmlTree: every document of up to ShortLen   *)
(* tokens, and some beginnings followed by every continuation of up to     *)
(* TailLen tokens. The names are one of each kind: p is closed by tags and *)
(* made by end tags, td and tr pop one and two elements, br is void, svg   *)
(* foreign, noscript raw text to parse again, style raw text to keep.      *)
(***************************************************************************)
EXTENDS HtmlTree

CONSTANTS ShortLen, TailLen

Names == {"p", "td", "tr", "br", "svg", "noscript", "style"}

Tokens == {Leaf} \union {Start(n) : n \in Names}
                 \union {Self(n) : n \in {"p", "svg", "noscript"}}
                 \union {End(n) : n \in Names \ {"td"}}

Beginnings ==
    {<<Start("svg"), Start("svg")>>, <<Start("svg"), Start("p")>>,
     <<Start("svg"), Start("noscript")>>, <<Start("noscript"), Start("svg")>>,
     <<Start("tr"), Start("td")>>, <<Start("p"), Start("noscript")>>,
     <<Start("svg"), Start("noscript"), Start("svg")>>,
     <<Start("svg"), Start("noscript"), Start("p")>>,
     <<Start("noscript"), Start("p"), End("noscript")>>}

MCDocuments == UNION {[1 .. n -> Tokens] : n \in 0 .. ShortLen}
               \union {b \o t : b \in Beginnings, t \in [1 .. TailLen -> Tokens]}

=============================================================================
