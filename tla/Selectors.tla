----------------------------- MODULE Selectors -----------------------------
(***************************************************************************)
(* One arm of a selector list becomes rules (compileRule of selector.go):  *)
(* its specificity is scanned, its :is() and :where() lists are expanded   *)
(* round by round up to a cap, and every variant is compiled.              *)
(*                                                                         *)
(* An arm is a sequence of pieces: tags, classes, descendant combinators,  *)
(* pseudo-classes no inline style can express ("ignored", as :hover),      *)
(* pseudo-elements, and functions with a list of arms: is, where, not.     *)
(* Splicing an alternative in is concatenation of text: a tag put behind   *)
(* another name becomes part of that name. Unclosed parentheses, :has()    *)
(* and attribute selectors are left out.                                   *)
(***************************************************************************)
EXTENDS Naturals, Sequences, FiniteSets, SequencesExt

CONSTANTS
    Arms,           \* the arms to compile
    Elements,       \* records [tag, classes]
    MaxDepth,       \* bound: how deep an element is in its document
    maxExpansion    \* 32 in the code

ASSUME CapAssumption == maxExpansion \in Nat \ {0}

VARIABLES
    arm, pc,        \* pc: "scan", "expand", "compile", "done"
    todo,           \* the candidates of this round still to look at
    next,           \* those of the next round
    grew,           \* whether this round expanded a list
    rules,          \* the rules compiled
    ignored,        \* whether the arm is preserved instead of inlined
    cut             \* history: the cap has dropped or left something

vars == <<arm, pc, todo, next, grew, rules, ignored, cut>>

-----------------------------------------------------------------------------
(* Specificity. *)

Zero == <<0, 0, 0>>
Plus(s, t) == [k \in 1 .. 3 |-> s[k] + t[k]]
Stronger(s, t) == \E k \in 1 .. 3 : s[k] > t[k] /\ \A j \in 1 .. k - 1 : s[j] = t[j]

(* splitSelector on the arguments of a function: empty alternatives are dropped. *)
Alternatives(piece) == SelectSeq(piece.alts, LAMBDA alt : alt # <<>>)

IsIgnored(sel) == \E k \in DOMAIN sel : sel[k].kind = "ignored"

RECURSIVE scanSelector(_)

(* MUTANT of argSpecificity: the first alternative counts, not the strongest. *)
argSpecificity_First(alts) == IF alts = <<>> THEN Zero ELSE scanSelector(alts[1])

(* The highest specificity among the alternatives that can be inlined. *)
argSpecificity(alts) ==
    LET specs == {scanSelector(alts[k]) : k \in {k \in DOMAIN alts : ~IsIgnored(alts[k])}}
    IN IF specs = {} THEN Zero
       ELSE CHOOSE s \in specs : \A t \in specs : ~Stronger(t, s)

Weight(piece) ==
    CASE piece.kind = "class" -> <<0, 1, 0>>
      [] piece.kind \in {"tag", "pseudo"} -> <<0, 0, 1>>
      [] piece.kind \in {"is", "not"} -> argSpecificity(Alternatives(piece))
      [] OTHER -> Zero

(* The specificity scanSelector counts. *)
scanSelector(sel) == FoldLeft(LAMBDA s, piece : Plus(s, Weight(piece)), Zero, sel)

-----------------------------------------------------------------------------
(* Expansion. *)

Lists(sel) == {k \in DOMAIN sel : sel[k].kind \in {"is", "where"}}

(* MUTANT of Spliced: what follows the list is lost. *)
Spliced_NoTail(sel) ==
    LET at == Min(Lists(sel))
        alts == Alternatives(sel[at])
    IN [k \in DOMAIN alts |-> SubSeq(sel, 1, at - 1) \o alts[k]]

(* sel with its first list replaced by each alternative in turn. *)
Spliced(sel) ==
    LET at == Min(Lists(sel))
        alts == Alternatives(sel[at])
    IN [k \in DOMAIN alts |->
           SubSeq(sel, 1, at - 1) \o alts[k] \o SubSeq(sel, at + 1, Len(sel))]

Init == /\ arm \in Arms
        /\ pc = "scan" /\ todo = <<>> /\ next = <<>> /\ grew = FALSE
        /\ rules = {} /\ ignored = FALSE /\ cut = FALSE

ScanArm ==
    /\ pc = "scan"
    /\ ignored' = IsIgnored(arm)
    /\ pc' = IF IsIgnored(arm) THEN "done" ELSE "expand"
    /\ todo' = IF IsIgnored(arm) THEN <<>> ELSE <<arm>>
    /\ UNCHANGED <<arm, next, grew, rules, cut>>

Looking == pc = "expand" /\ todo # <<>> /\ todo' = Tail(todo)
                         /\ UNCHANGED <<arm, pc, rules, ignored>>

KeepCandidate ==
    /\ Looking /\ Lists(Head(todo)) = {}
    /\ next' = Append(next, Head(todo))
    /\ UNCHANGED <<grew, cut>>

(* MUTANT of Room: no cap. *)
Room_Unlimited(variants) == Len(variants)

(* How many of the variants the cap lets into the next round. *)
Room(variants) ==
    Cardinality({k \in DOMAIN variants : Len(next) + k <= maxExpansion})

ExpandCandidate ==
    LET variants == Spliced(Head(todo))
    IN /\ Looking /\ Lists(Head(todo)) # {}
       /\ next' = next \o SubSeq(variants, 1, Room(variants))
       /\ grew' = TRUE
       /\ cut' = (cut \/ Room(variants) < Len(variants))

(* MUTANT of LastRound: only a full round is the last. *)
LastRound_OnlyFull == Len(next) >= maxExpansion

LastRound == ~grew \/ Len(next) >= maxExpansion

RoundDone ==
    /\ pc = "expand" /\ todo = <<>>
    /\ pc' = IF LastRound THEN "compile" ELSE pc
    /\ cut' = (cut \/ (LastRound /\ \E k \in DOMAIN next : Lists(next[k]) # {}))
    /\ todo' = next
    /\ next' = <<>>
    /\ grew' = FALSE
    /\ UNCHANGED <<arm, rules, ignored>>

-----------------------------------------------------------------------------
(* Compilation. *)

(* MUTANT of TextOf: a list that is left is dropped as :where() is. *)
TextOf_ListsDropped(sel) ==
    LET kept == SelectSeq(sel, LAMBDA piece : piece.kind \notin {"is", "where", "pseudo"})
        names == {k \in DOMAIN kept : kept[k].kind # "descendant"}
        stays == {k \in DOMAIN kept :
                     \/ k \in names
                     \/ k - 1 \in names /\ \E j \in names : j > k}
    IN FlattenSeq([k \in DOMAIN kept |-> IF k \in stays THEN <<kept[k]>> ELSE <<>>])

(* The text handed to the matcher: :where() and pseudo-elements are not in it,
   what blanks are left at its ends is trimmed, and several are one. *)
TextOf(sel) ==
    LET kept == SelectSeq(sel, LAMBDA piece : piece.kind \notin {"where", "pseudo"})
        names == {k \in DOMAIN kept : kept[k].kind # "descendant"}
        stays == {k \in DOMAIN kept :
                     \/ k \in names
                     \/ k - 1 \in names /\ \E j \in names : j > k}
    IN FlattenSeq([k \in DOMAIN kept |-> IF k \in stays THEN <<kept[k]>> ELSE <<>>])

(* External: cascadia knows neither :is() nor the empty selector. *)
Parses(text) == text # <<>> /\ \A k \in DOMAIN text : text[k].kind # "is"

CompileVariant ==
    LET variant == Head(todo)
    IN /\ pc = "compile" /\ todo # <<>>
       /\ todo' = Tail(todo)
       /\ rules' = IF ~IsIgnored(variant) /\ Parses(TextOf(variant))
                   THEN rules \union {[text |-> TextOf(variant), spec |-> scanSelector(arm),
                                       pseudo |-> \E k \in DOMAIN arm : arm[k].kind = "pseudo"]}
                   ELSE rules
       /\ UNCHANGED <<arm, pc, next, grew, ignored, cut>>

CompileDone ==
    /\ pc = "compile" /\ todo = <<>>
    /\ pc' = "done"
    /\ UNCHANGED <<arm, todo, next, grew, rules, ignored, cut>>

Next == \/ ScanArm \/ KeepCandidate \/ ExpandCandidate \/ RoundDone
        \/ CompileVariant \/ CompileDone

Spec == Init /\ [][Next]_vars /\ WF_vars(Next)

-----------------------------------------------------------------------------
(* What a selector means. A path is an element with its ancestors before it. *)

Paths == UNION {[1 .. n -> Elements] : n \in 1 .. MaxDepth}

RECURSIVE Matches(_, _)

Holds(piece, path) ==
    CASE piece.kind = "tag" -> Last(path).tag = piece.name
      [] piece.kind = "class" -> piece.name \in Last(path).classes
      [] piece.kind = "ignored" -> FALSE
      [] piece.kind \in {"is", "where"} -> \E alt \in ToSet(Alternatives(piece)) : Matches(alt, path)
      [] piece.kind = "not" -> \A alt \in ToSet(Alternatives(piece)) : ~Matches(alt, path)
      [] OTHER -> TRUE

Matches(sel, path) ==
    LET blanks == {k \in DOMAIN sel : sel[k].kind = "descendant"}
        last == IF blanks = {} THEN 0 ELSE Max(blanks)
    IN /\ \A k \in last + 1 .. Len(sel) : Holds(sel[k], path)
       /\ last > 0 => \E n \in 1 .. Len(path) - 1 :
                         Matches(SubSeq(sel, 1, last - 1), SubSeq(path, 1, n))

(* A tag right behind another name is part of that name: no element has it. *)
Glued(text) == \E k \in DOMAIN text : /\ k > 1 /\ text[k].kind = "tag"
                                      /\ text[k - 1].kind # "descendant"

MatchedByRules ==
    {path \in Paths : \E r \in rules : ~Glued(r.text) /\ Matches(r.text, path)}

MatchedByArm == {path \in Paths : Matches(arm, path)}

(* Splicing keeps the meaning: alternatives that begin with a tag stand where
   a compound begins, and alternatives with combinators open the selector. *)
RECURSIVE Spliceable(_, _, _)
Spliceable(sel, begins, opens) ==
    \A k \in Lists(sel) :
        LET here == IF k = 1 THEN begins ELSE sel[k - 1].kind = "descendant"
            first == k = 1 /\ opens
        IN \A alt \in ToSet(Alternatives(sel[k])) :
              /\ alt[1].kind = "tag" => here
              /\ (\E i \in DOMAIN alt : alt[i].kind = "descendant") => first
              /\ Spliceable(alt, here, first)

RECURSIVE WhereFree(_)
WhereFree(sel) == \A k \in DOMAIN sel : /\ sel[k].kind # "where"
                                        /\ \A j \in DOMAIN sel[k].alts : WhereFree(sel[k].alts[j])

-----------------------------------------------------------------------------
(* Properties. *)

(* The cap bounds the candidates, but not at its own value: those without a
   list are added to a full round. *)
TypeOK ==
    /\ pc \in {"scan", "expand", "compile", "done"}
    /\ grew \in BOOLEAN /\ ignored \in BOOLEAN /\ cut \in BOOLEAN
    /\ Len(todo) + Len(next) <= 3 * maxExpansion
    /\ Len(next) <= 2 * maxExpansion - 1
    /\ ignored => rules = {}

(* Below the cap the rules of an arm match exactly the elements the arm
   matches, whatever the nesting, when splicing text is sound. *)
ExpansionExact ==
    pc = "done" /\ ~ignored /\ ~cut /\ Spliceable(arm, TRUE, TRUE) =>
        MatchedByRules = MatchedByArm

(* At the cap matches are lost but none is invented, as long as no :where() is
   left in a variant: its text is dropped as if it were expanded. *)
CapOnlyLoses ==
    pc = "done" /\ Spliceable(arm, TRUE, TRUE) /\ WhereFree(arm) =>
        MatchedByRules \subseteq MatchedByArm

(* Every rule carries the specificity of the strongest alternative of each
   list: that of the strongest variant, counted by itself. *)
SpecificityOfStrongest ==
    pc = "compile" /\ ~cut /\ WhereFree(arm) /\ rules = {} =>
        \A k \in DOMAIN todo : ~IsIgnored(todo[k]) =>
            /\ ~Stronger(scanSelector(todo[k]), scanSelector(arm))
            /\ \E j \in DOMAIN todo : scanSelector(todo[j]) = scanSelector(arm)

(* Rounds come to an end: every round removes a level of lists. *)
ExpansionEnds == <>(pc = "done")

(* "Expanding is exact", for every arm below the cap. *)
ExactForEveryArm ==
    pc = "done" /\ ~ignored /\ ~cut => MatchedByRules = MatchedByArm

=============================================================================
