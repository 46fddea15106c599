----------------------------- MODULE CodeBlocks -----------------------------
(***************************************************************************)
(* Template expressions (codeblocks.go): encodeCodeBlocks swaps them for   *)
(* numbered placeholders before the document is parsed, decodeCodeBlocks   *)
(* puts them back into what is written.                                    *)
(*                                                                         *)
(* A text is a sequence of atoms: delimiters, digits, the placeholder's    *)
(* prefix and its trailing underscore, the ="" of an empty attribute, and  *)
(* anything else. Delimiters that overlap ({%} holds both of {% and %})    *)
(* have no atoms. A block is kept as the slice of the source it is.        *)
(*                                                                         *)
(* The specification's own names begin with Code: a module may extend this *)
(* one together with Inliner, which runs between the two halves.           *)
(***************************************************************************)
EXTENDS Integers, Sequences, FiniteSets, SequencesExt

CONSTANTS
    Documents,      \* the texts to process
    Delimiters,     \* the code blocks: pairs of an opening and a closing atom
    Digits,         \* the digits, from zero on
    Prefix, Underscore, Empty,
    IntHalf         \* an int ranges over -IntHalf .. IntHalf - 1

(* A document is a sequence, and its length an int. *)
ASSUME DocumentsAssumption ==
    /\ IntHalf \in Nat \ {0}
    /\ \A d \in Documents : d \in Seq(ToSet(d)) /\ Len(d) < IntHalf

(* The atoms are different: digits from each other and from what surrounds
   them in a placeholder, and all of these from an opening delimiter. *)
ASSUME AtomsAssumption ==
    /\ Digits \in Seq(ToSet(Digits)) /\ Len(Digits) > 1
    /\ \A j, k \in DOMAIN Digits : Digits[j] = Digits[k] => j = k
    /\ Prefix \notin ToSet(Digits) \union {Underscore, Empty, "x"}
    /\ Underscore \notin ToSet(Digits)
    /\ "x" \notin ToSet(Digits) \union {Empty}
    /\ \A d \in Delimiters : d[1] \notin ToSet(Digits) \union {Prefix, Underscore, Empty}

VARIABLES
    doc, pc,
    i,          \* how far the running loop has read its text
    out,        \* what it has written
    found,      \* the blocks of doc, as slices <<from, to>>
    text        \* what the decoder reads: the encoded document, processed

codeVars == <<doc, pc, i, out, found, text>>

Base == Len(Digits)
Digit(n) == Digits[n + 1]
Val(atom) == (CHOOSE k \in DOMAIN Digits : Digits[k] = atom) - 1

(* appendInt: n in decimal. *)
Numeral(n) ==
    LET numeral[k \in 0 .. n] ==
            IF k >= Base THEN Append(numeral[k \div Base], Digit(k % Base)) ELSE <<Digit(k)>>
    IN numeral[n]

(* MUTANT of placeholder: without the underscore that ends the number. *)
placeholder_Open(n) == <<Prefix>> \o Numeral(n)

placeholder(n) == <<Prefix>> \o Numeral(n) \o <<Underscore>>

Slice(s, span) == SubSeq(s, span[1], span[2])
From(s, k) == SubSeq(s, k, Len(s))

-----------------------------------------------------------------------------
(* The next block at or after k: the earliest opening delimiter, up to the
   first closing one of its kind. No block if there is none to open, or the
   earliest is not closed, whatever follows it. *)
Openings(s, k) == {p \in k .. Len(s) : \E d \in Delimiters : s[p] = d[1]}

Closings(s, p) == {q \in p .. Len(s) : <<s[p], s[q]>> \in Delimiters}

(* MUTANT of NextBlock: the delimiter that opens later wins. *)
NextBlock_Latest(s, k) ==
    LET firsts == {Min({p \in Openings(s, k) : s[p] = d[1]}) :
                      d \in {d \in Delimiters : \E p \in Openings(s, k) : s[p] = d[1]}}
    IN IF firsts = {} \/ Closings(s, Max(firsts)) = {} THEN <<>>
       ELSE <<Max(firsts), Min(Closings(s, Max(firsts)))>>

(* MUTANT of NextBlock: any closing delimiter ends the block. *)
NextBlock_AnyEnd(s, k) ==
    LET p == Min(Openings(s, k))
        ends == {q \in p .. Len(s) : \E d \in Delimiters : s[q] = d[2]}
    IN IF Openings(s, k) = {} \/ ends = {} THEN <<>> ELSE <<p, Min(ends)>>

NextBlock(s, k) ==
    IF Openings(s, k) = {} THEN <<>>
    ELSE LET p == Min(Openings(s, k))
         IN IF Closings(s, p) = {} THEN <<>> ELSE <<p, Min(Closings(s, p))>>

CodeInit == /\ doc \in Documents
            /\ pc = "encode" /\ i = 1 /\ out = <<>> /\ found = <<>> /\ text = <<>>

EncodeBlock ==
    LET block == NextBlock(doc, i)
    IN /\ pc = "encode" /\ block # <<>>
       /\ out' = out \o SubSeq(doc, i, block[1] - 1) \o placeholder(Len(found))
       /\ found' = Append(found, block)
       /\ i' = block[2] + 1
       /\ UNCHANGED <<doc, pc, text>>

EncodeRest ==
    /\ pc = "encode" /\ NextBlock(doc, i) = <<>>
    /\ pc' = "process"
    /\ text' = out \o From(doc, i)
    /\ out' = <<>> /\ i' = 1
    /\ UNCHANGED <<doc, found>>

(* Between the two, Inline parses, inlines and serializes. A placeholder lives
   through it, and one that stands in a declaration is written as often as the
   declaration is inlined: here the text is written once or twice. *)
Process ==
    /\ pc = "process"
    /\ pc' = "decode"
    /\ \E copies \in {<<text>>, <<text, <<"x">>, text>>} : text' = FlattenSeq(copies)
    /\ UNCHANGED <<doc, i, out, found>>

-----------------------------------------------------------------------------
(* An int of the program's width. *)
Wrap(n) == ((n + IntHalf) % (2 * IntHalf)) - IntHalf

(* The digits after the prefix at p, and the number they write. *)
AfterDigits(s, p) == Min({q \in p + 1 .. Len(s) + 1 : q > Len(s) \/ s[q] \notin ToSet(Digits)})

Written(s, p) == FoldLeft(LAMBDA n, c : n * Base + Val(c), 0,
                          SubSeq(s, p + 1, AfterDigits(s, p) - 1))

(* What the decoder reads them as. To wrap after every digit or after the last
   is the same, modulo the width. *)
Number(s, p) == Wrap(Written(s, p))

(* MUTANT of Ours: the number is not compared with the blocks there are. *)
Ours_AnyNumber(s, p) ==
    LET q == AfterDigits(s, p)
    IN q > p + 1 /\ q <= Len(s) /\ s[q] = Underscore

(* The decoder takes the prefix at p for one of its placeholders. *)
Ours(s, p) ==
    LET q == AfterDigits(s, p)
    IN /\ q > p + 1 /\ q <= Len(s) /\ s[q] = Underscore
       /\ Number(s, p) < Len(found)

PrefixesFrom(s, k) == {p \in k .. Len(s) : s[p] = Prefix}
next == Min(PrefixesFrom(text, i))

(* decodeCodeBlocks reads on at the next prefix. *)
Decoding == /\ pc = "decode"
            /\ found # <<>> /\ PrefixesFrom(text, i) # {}
            /\ UNCHANGED <<doc, found, text>>

(* Past a placeholder that ends at q, and past a ="" right after it. *)
Resume(q) == IF q < Len(text) /\ text[q + 1] = Empty THEN q + 2 ELSE q + 1

DecodeBlock ==
    LET n == Number(text, next)
    IN /\ Decoding /\ Ours(text, next) /\ n + 1 \in DOMAIN found
       /\ out' = out \o SubSeq(text, i, next - 1) \o Slice(doc, found[n + 1])
       /\ i' = Resume(AfterDigits(text, next))
       /\ UNCHANGED pc

(* found[n] for an n outside it. *)
Panic ==
    /\ Decoding /\ Ours(text, next) /\ Number(text, next) + 1 \notin DOMAIN found
    /\ pc' = "panicked"
    /\ UNCHANGED <<i, out>>

(* Any other prefix is passed over. Nothing is written: what was passed over
   is in the result only if no placeholder is restored. *)
NotOurs ==
    /\ Decoding /\ ~Ours(text, next)
    /\ i' = next + 1
    /\ UNCHANGED <<pc, out>>

(* Without a block put back the text is returned as it is. *)
DecodeRest ==
    /\ pc = "decode"
    /\ found = <<>> \/ PrefixesFrom(text, i) = {}
    /\ pc' = "done"
    /\ out' = IF out = <<>> THEN text ELSE out \o From(text, i)
    /\ UNCHANGED <<doc, i, found, text>>

CodeNext == \/ EncodeBlock \/ EncodeRest \/ Process
            \/ DecodeBlock \/ Panic \/ NotOurs \/ DecodeRest

CodeSpec == CodeInit /\ [][CodeNext]_codeVars

-----------------------------------------------------------------------------
(* Properties. *)

Atom == UNION {ToSet(doc), ToSet(Digits), {Prefix, Underscore, "x"}}

CodeTypeOK ==
    /\ pc \in {"encode", "process", "decode", "done", "panicked"}
    /\ i \in 1 .. Len(doc) + Len(text) + 1
    /\ ToSet(out) \subseteq Atom /\ ToSet(text) \subseteq Atom
    /\ \A k \in DOMAIN found :
          /\ 1 <= found[k][1] /\ found[k][1] <= found[k][2] /\ found[k][2] <= Len(doc)
          /\ <<doc[found[k][1]], doc[found[k][2]]>> \in Delimiters
          /\ k > 1 => found[k - 1][2] < found[k][1]

(* The parser never sees a block: whatever of the encoded text still looks like
   one comes after a delimiter that nothing closes, where the encoder gives
   up; nothing of a block leaks out of its placeholder. *)
ParserSeesNoBlock ==
    pc = "process" =>
        \A p \in DOMAIN text : Closings(text, p) # {} =>
            \E u \in Openings(text, 1) : u < p /\ Closings(text, u) = {}

Plain == {k \in DOMAIN doc : \A b \in DOMAIN found : k \notin found[b][1] .. found[b][2]}

(* The document, without the ="" that stands right after a block. *)
Expected ==
    LET kept == {k \in DOMAIN doc : ~(doc[k] = Empty /\ \E b \in DOMAIN found :
                                                        found[b][2] = k - 1)}
        once == FlattenSeq([k \in DOMAIN doc |-> IF k \in kept THEN <<doc[k]>> ELSE <<>>])
    IN {once, once \o <<"x">> \o once}

(* The round trip: encoding and decoding give the document back, each block at
   its place however its number begins, ends or is neighboured, if nothing in
   it but the placeholders has the placeholder's prefix. *)
RoundTrip ==
    pc = "done" /\ Prefix \notin {doc[k] : k \in Plain} => out \in Expected

(* A number the decoder accepts is one of a block, unless the document itself
   writes a number that an int cannot hold. *)
StaysInBounds ==
    pc = "panicked" =>
        \E p \in Plain : /\ doc[p] = Prefix
                         /\ AfterDigits(doc, p) > p + 1
                         /\ Written(doc, p) >= IntHalf

(* A prefix that no placeholder of the document continues is "not one of ours":
   it is skipped, and the document still comes back. *)
SkippedIsKept ==
    pc = "done" /\ (\A p \in Plain : doc[p] = Prefix => ~Ours(doc, p)) => out \in Expected

=============================================================================
