---------------------------- MODULE MCCodeBlocks ----------------------------
(***************************************************************************)
(* Small texts for module CodeBlocks: every text of up to AtomLen atoms,   *)
(* and every text of up to WordLen words, alone and behind Blocks blocks,  *)
(* so that numbers of two digits occur. Digits are binary.                 *)
(***************************************************************************)
EXTENDS CodeBlocks

CONSTANTS AtomLen, WordLen

Binary == <<"0", "1">>
Pairs == {<<"{{", "}}">>, <<"<%", "%>">>}

Atoms == {"x", "{{", "}}", "<%", "%>", "0", "1", Prefix, Underscore, Empty}

Words == {<<"{{", "}}">>, <<"<%", "{{", "%>">>, <<"1">>, <<Empty>>, <<"x">>,
          <<Prefix>>, <<Prefix, "1", Underscore>>, <<Prefix, "1", "0", "0", "0", "0", "0", Underscore>>}

ThreeBlocks == <<"{{", "}}", "<%", "%>", "{{", "{{", "}}">>

MCDocuments ==
    UNION {[1 .. n -> Atoms] : n \in 0 .. AtomLen}
    \union {start \o FlattenSeq(w) :
                start \in {<<>>, ThreeBlocks}, w \in UNION {[1 .. n -> Words] : n \in 0 .. WordLen}}

=============================================================================
