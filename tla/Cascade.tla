------------------------------ MODULE Cascade ------------------------------
(***************************************************************************)
(* The cascade of one element: how its visit in applyRules (inline.go)     *)
(* accumulates declarations in a propMap (props.go), and how styleAttr     *)
(* writes the survivors back into the style attribute.                     *)
(*                                                                         *)
(* A propMap is an insertion-ordered arena.  A declaration that wins its   *)
(* property is appended as a new slot and the slot it supersedes is marked *)
(* dead; if both came from the same rule the new slot also links to the    *)
(* dead one, so that both are emitted.                                     *)
(*                                                                         *)
(* Slots and rules are numbered from 1 here and from 0 in the code; 0      *)
(* stands for the code's -1, both as "no slot" and as the synthetic rule   *)
(* the style attribute is read as.                                         *)
(***************************************************************************)
EXTENDS Specificity, Sequences, FiniteSets, SequencesExt

CONSTANTS
    Prop,                 \* property names
    CustomProp,           \* those that start with "--"
    Content,              \* the property named content
    Documents,            \* style attributes and stylesheets an element may meet
    None,                 \* no declaration (used by the abstract specification)
    ResolveCSSVariables,  \* options.resolveCSSVariables
    PreserveImportant     \* options.preserveImportant

InlineDecl == [prop : Prop, important : BOOLEAN]
SheetDecl == [prop : Prop, important : BOOLEAN, ord : Nat]
Rule == [spec : Nat \X Nat \X Nat, pseudo : BOOLEAN, decls : Seq(SheetDecl)]
Document == [style : Seq(InlineDecl), rules : Seq(Rule)]

(* Declarations are numbered in the order they are parsed, so within one
   rule the numbers grow. Two rules may share declarations: the arms of a
   selector list do. *)
ASSUME DocumentsAssumption ==
    \A doc \in Documents :
        /\ doc \in Document
        /\ \A r \in 1..Len(doc.rules) :
             \A a, b \in 1..Len(doc.rules[r].decls) :
                a < b => doc.rules[r].decls[a].ord < doc.rules[r].decls[b].ord

(* A declaration on its way into a map. Its identity also stands for the
   text of its value; ord and rule are the slot's. *)
FullDecl == [prop : Prop, important : BOOLEAN, inline : BOOLEAN,
             spec : Nat \X Nat \X Nat, ord : Nat, rule : Nat]

(* The k-th declaration of a style attribute, as seedInline reads it: the
   sentinel selector scores as one tag name. *)
StyleDecl(st, k) ==
    [prop |-> st[k].prop, important |-> st[k].important, inline |-> TRUE,
     spec |-> <<0, 0, 1>>, ord |-> k - 1, rule |-> 0]

(* The k-th declaration of the r-th rule. *)
RuleDecl(rs, r, k) ==
    [prop |-> rs[r].decls[k].prop, important |-> rs[r].decls[k].important,
     inline |-> FALSE, spec |-> rs[r].spec, ord |-> rs[r].decls[k].ord, rule |-> r]

(* Every declaration some element may be offered. *)
DeclsOf(doc) ==
    {StyleDecl(doc.style, k) : k \in DOMAIN doc.style}
    \union UNION {{RuleDecl(doc.rules, r, k) : k \in DOMAIN doc.rules[r].decls}
                      : r \in DOMAIN doc.rules}

Offerable == UNION {DeclsOf(doc) : doc \in Documents}

ASSUME NoneAssumption == \A d \in Offerable : d # None

ASSUME OptionsAssumption ==
    /\ CustomProp \subseteq Prop
    /\ ResolveCSSVariables \in BOOLEAN
    /\ PreserveImportant \in BOOLEAN

VARIABLES
    style,    \* the declarations of the style attribute in the document
    rules,    \* the compiled rules, in stylesheet order
    matched,  \* the rules whose selector matches this element
    phase,    \* where the visit of the element is
    i,        \* the rule forEach is about to test, or is applying
    j,        \* the declaration of the current source to add next
    visited,  \* the element has a propMap
    slots,    \* propMap.slots
    attr      \* the style attribute as a reader of the output sees it

vars == <<style, rules, matched, phase, i, j, visited, slots, attr>>

-----------------------------------------------------------------------------
(* The priority field: 0 or 2 for a stylesheet, 1 or 3 for the attribute. *)
Priority(d) == (IF d.inline THEN 1 ELSE 0) + (IF d.important THEN 2 ELSE 0)

KeyOf(d) == packKey(Priority(d), d.spec)

-----------------------------------------------------------------------------
(* propMap *)

Live(s, p) == {k \in DOMAIN s : ~s[k].dead /\ s[k].decl.prop = p}

(* The live slot of a property, searched from the end; 0 if there is none. *)
find(s, p) ==
    IF Live(s, p) = {} THEN 0
    ELSE CHOOSE k \in Live(s, p) : \A l \in Live(s, p) : l <= k

(* Mutant of Outranks: of two equal keys the one applied later wins, which
   forgets that the arms of a selector list repeat their declarations. *)
Outranks_LastApplied(d, e) == KeyOf(d) >= e.key

(* The incumbent keeps the property unless the newcomer outranks it. *)
Outranks(d, e) ==
    \/ KeyOf(d) > e.key
    \/ KeyOf(d) = e.key /\ d.ord > e.decl.ord

Slot == [decl : FullDecl, key : Nat, next : Nat, dead : BOOLEAN]

NewSlot(d, next) == [decl |-> d, key |-> KeyOf(d), next |-> next, dead |-> FALSE]

Supersede(s, cur) == [s EXCEPT ![cur] = [@ EXCEPT !.dead = TRUE]]

(* Mutant of add: the superseded slot is linked whatever rule it came from. *)
add_LinksAnyRule(s, d) ==
    LET cur == find(s, d.prop) IN
    IF cur = 0 THEN Append(s, NewSlot(d, 0))
    ELSE IF ~Outranks(d, s[cur]) THEN s
    ELSE Append(Supersede(s, cur), NewSlot(d, cur))

(* One declaration enters the map. The slot it supersedes stays reachable if
   the same rule declared it. *)
add(s, d) ==
    LET cur == find(s, d.prop) IN
    IF cur = 0 THEN Append(s, NewSlot(d, 0))
    ELSE IF ~Outranks(d, s[cur]) THEN s
    ELSE Append(Supersede(s, cur),
                NewSlot(d, IF s[cur].decl.rule = d.rule THEN cur ELSE 0))

(* A slot followed by the superseded slots it links to. *)
Chains(s) ==
    LET chain[k \in 0..Len(s)] ==
            IF k = 0 THEN <<>> ELSE <<k>> \o chain[s[k].next]
    IN chain

(* The emittable slots: every live one, each with its chain behind it. *)
live(s) ==
    FlattenSeq([k \in 1..Len(s) |-> IF s[k].dead THEN <<>> ELSE Chains(s)[k]])

(* Mutant of KeyLess: the attribute keeps the order of the stylesheet. *)
KeyLess_BySource(s, a, b) == s[a].decl.ord < s[b].decl.ord

(* The order styleAttr sorts slots by. *)
KeyLess(s, a, b) ==
    \/ s[a].key < s[b].key
    \/ s[a].key = s[b].key /\ s[a].decl.ord < s[b].decl.ord

(* sort.SliceStable: the element at x goes after the smaller ones and after
   the equal ones that precede it. *)
StableSort(s, idx) ==
    LET Rank(x) == Cardinality({y \in DOMAIN idx :
                        \/ KeyLess(s, idx[y], idx[x])
                        \/ ~KeyLess(s, idx[x], idx[y]) /\ y <= x})
    IN [r \in DOMAIN idx |-> idx[CHOOSE x \in DOMAIN idx : Rank(x) = r]]

(* Mutant of Filtered: the option does not reach the filter. *)
Filtered_ContentOnly(d) == d.prop = Content

(* Declarations that never reach a style attribute. *)
Filtered(d) ==
    \/ d.prop = Content
    \/ ResolveCSSVariables /\ d.prop \in CustomProp

(* Whether the emitted text of a declaration ends in !important. The suffix
   is dropped while parsing; only parseStylesheet can put it back, and not
   on a custom property. *)
HasSuffix(d) ==
    d.important /\ PreserveImportant /\ ~d.inline /\ d.prop \notin CustomProp

(* The declarations of the new style attribute; none if it is not written. *)
styleAttr(s) ==
    LET order == StableSort(s, live(s))
        kept == FlattenSeq([x \in DOMAIN order |->
                    IF Filtered(s[order[x]].decl) THEN <<>> ELSE <<order[x]>>])
    IN [x \in DOMAIN kept |-> [decl |-> s[kept[x]].decl,
                               suffix |-> HasSuffix(s[kept[x]].decl)]]

-----------------------------------------------------------------------------

Init ==
    /\ \E doc \in Documents : style = doc.style /\ rules = doc.rules
    /\ matched \in SUBSET (1..Len(rules))
    /\ phase = "scan"
    /\ i = 1
    /\ j = 1
    /\ visited = FALSE
    /\ slots = <<>>
    /\ attr = [k \in DOMAIN style |->
                  [decl |-> StyleDecl(style, k), suffix |-> style[k].important]]

(* forEach passes over a rule that does not match. *)
SkipRule ==
    /\ phase = "scan"
    /\ i \in 1..Len(rules) \ matched
    /\ i' = i + 1
    /\ UNCHANGED <<style, rules, matched, phase, j, visited, slots, attr>>

(* Mutant of FirstMatch: a candidate of the index counts as a match. *)
FirstMatch_AnyRule ==
    /\ phase = "scan"
    /\ i \in DOMAIN rules
    /\ ~visited
    /\ visited' = TRUE
    /\ phase' = "seed"
    /\ UNCHANGED <<style, rules, matched, i, j, slots, attr>>

(* The first match creates the map and goes on to seed it. *)
FirstMatch ==
    /\ phase = "scan"
    /\ i \in matched
    /\ ~visited
    /\ visited' = TRUE
    /\ phase' = "seed"
    /\ UNCHANGED <<style, rules, matched, i, j, slots, attr>>

(* seedInline adds the attribute's declarations one by one. *)
SeedDecl ==
    /\ phase = "seed"
    /\ j \in DOMAIN style
    /\ slots' = add(slots, StyleDecl(style, j))
    /\ j' = j + 1
    /\ UNCHANGED <<style, rules, matched, phase, i, visited, attr>>

SeedDone ==
    /\ phase = "seed"
    /\ j > Len(style)
    /\ phase' = "apply"
    /\ j' = 1
    /\ UNCHANGED <<style, rules, matched, i, visited, slots, attr>>

(* A later match goes straight to its declarations. *)
LaterMatch ==
    /\ phase = "scan"
    /\ i \in matched
    /\ visited
    /\ phase' = "apply"
    /\ UNCHANGED <<style, rules, matched, i, j, visited, slots, attr>>

(* The declarations of a pseudo-element's rule do not belong here. *)
PseudoRule ==
    /\ phase = "apply"
    /\ rules[i].pseudo
    /\ phase' = "scan"
    /\ i' = i + 1
    /\ UNCHANGED <<style, rules, matched, j, visited, slots, attr>>

AddDecl ==
    /\ phase = "apply"
    /\ ~rules[i].pseudo
    /\ j \in DOMAIN rules[i].decls
    /\ slots' = add(slots, RuleDecl(rules, i, j))
    /\ j' = j + 1
    /\ UNCHANGED <<style, rules, matched, phase, i, visited, attr>>

RuleDone ==
    /\ phase = "apply"
    /\ ~rules[i].pseudo
    /\ j > Len(rules[i].decls)
    /\ phase' = "scan"
    /\ i' = i + 1
    /\ j' = 1
    /\ UNCHANGED <<style, rules, matched, visited, slots, attr>>

(* An element no rule matched is not in pass.resolved and keeps its
   attribute; so does one for which no declaration survives. *)
WriteStyle ==
    /\ phase = "scan"
    /\ i > Len(rules)
    /\ phase' = "done"
    /\ attr' = IF visited /\ styleAttr(slots) # <<>> THEN styleAttr(slots) ELSE attr
    /\ UNCHANGED <<style, rules, matched, i, j, visited, slots>>

Done == phase = "done" /\ UNCHANGED vars

Next ==
    \/ SkipRule
    \/ FirstMatch
    \/ SeedDecl
    \/ SeedDone
    \/ LaterMatch
    \/ PseudoRule
    \/ AddDecl
    \/ RuleDone
    \/ WriteStyle
    \/ Done

Spec == Init /\ [][Next]_vars

-----------------------------------------------------------------------------
(* What has been applied so far. *)

StyleReached(k) == visited /\ (phase = "seed" => k < j)

SeenStyle == {StyleDecl(style, k) : k \in {k \in DOMAIN style : StyleReached(k)}}

(* Rule r's k-th declaration has been offered to the map; a rule for ::before
   or ::after has none that count. *)
Reached(r, k) ==
    /\ r \in matched
    /\ ~rules[r].pseudo
    /\ r < i \/ (r = i /\ phase = "apply" /\ k < j)

SeenRules ==
    UNION {{RuleDecl(rules, r, k) : k \in {k \in DOMAIN rules[r].decls : Reached(r, k)}}
              : r \in DOMAIN rules}

Seen == SeenStyle \union SeenRules

SeenFor(p) == {d \in Seen : d.prop = p}

(* The map's answer for each property, in the terms of the specification. *)
BestOf(p) == IF find(slots, p) = 0 THEN None ELSE slots[find(slots, p)].decl

FallbacksOf(p) ==
    {slots[k].decl : k \in {k \in DOMAIN slots :
        /\ slots[k].dead
        /\ slots[k].decl.prop = p
        /\ find(slots, p) # 0
        /\ slots[k].decl.rule = slots[find(slots, p)].decl.rule}}

Abstract == INSTANCE CascadeSpec WITH
    Decl <- Offerable,
    best <- [p \in Prop |-> BestOf(p)],
    fallbacks <- [p \in Prop |-> FallbacksOf(p)]

-----------------------------------------------------------------------------
(* Properties *)

(* The shape of the state, with the facts about it that index safety rests
   on: forEach and the loops stay within the rules, and a chain of slots only
   leads backwards, so that live() cannot run round it. *)
TypeOK ==
    /\ style \in Seq(InlineDecl)
    /\ rules \in Seq(Rule)
    /\ matched \subseteq DOMAIN rules
    /\ phase \in {"scan", "seed", "apply", "done"}
    /\ i \in Nat \ {0}
    /\ phase = "scan" => i <= Len(rules) + 1
    /\ phase \in {"seed", "apply"} => i \in matched
    /\ j \in Nat \ {0}
    /\ visited \in BOOLEAN
    /\ slots \in Seq(Slot)
    /\ \A k \in DOMAIN slots : slots[k].next < k

(***************************************************************************)
(* At every moment of the visit the live slot of a property holds the      *)
(* winner, in the CSS cascade, of everything offered for it so far, and a  *)
(* property nothing was offered for has no slot.  This is what propMap.add *)
(* must keep up through seeding, !important and the arms of one rule; the  *)
(* map never looks back at what it has rejected.                           *)
(***************************************************************************)
WinnerIsMaximal ==
    \A p \in Prop :
        IF SeenFor(p) = {} THEN find(slots, p) = 0
        ELSE /\ find(slots, p) # 0
             /\ BestOf(p) \in SeenFor(p)
             /\ \A d \in SeenFor(p) : ~Abstract!Beats(d, BestOf(p))

(* Offered to the map before d: an earlier source, or earlier in the same. *)
Earlier(e, d) == e.rule < d.rule \/ (e.rule = d.rule /\ e.ord < d.ord)

(***************************************************************************)
(* What live() yields for a property, by following next links out of the   *)
(* live slot, is exactly the winning rule's declarations that each beat    *)
(* everything offered before them: no fallback is lost, and none survives  *)
(* from a rule that has been overridden.                                   *)
(***************************************************************************)
FallbacksSurvive ==
    \A p \in Prop :
        {slots[live(slots)[x]].decl : x \in {x \in DOMAIN live(slots) :
                slots[live(slots)[x]].decl.prop = p}}
        = {d \in SeenFor(p) :
              /\ d.rule = BestOf(p).rule
              /\ \A e \in SeenFor(p) : Earlier(e, d) => Abstract!Beats(d, e)}

(* How a mail client reads an attribute: of the declarations that concern
   it, the last one with an !important suffix, or else the last one. *)
LastIn(S) == CHOOSE x \in S : \A y \in S : y <= x

ReaderPicks(family) ==
    LET about == {x \in DOMAIN attr : attr[x].decl.prop \in family}
        loud == {x \in about : attr[x].suffix}
    IN attr[LastIn(IF loud # {} THEN loud ELSE about)].decl

(* Reading only what the attribute says of p and q, a client picks what the
   cascade picks among all that was offered for them. *)
MeansCascade(p, q) ==
    LET offered == {d \in Seen : d.prop \in {p, q} /\ ~Filtered(d)} IN
    offered # {} =>
        /\ \E x \in DOMAIN attr : attr[x].decl.prop \in {p, q}
        /\ ReaderPicks({p, q}) \in offered
        /\ \A d \in offered : ~Abstract!Beats(d, ReaderPicks({p, q}))

(***************************************************************************)
(* The written attribute means what the stylesheet meant.  For a property, *)
(* and for two properties that overlap as a shorthand and its longhand do, *)
(* a client that reads only the attribute picks the declaration the        *)
(* cascade would have picked among everything that applied.  This rests on *)
(* styleAttr's sort across properties and on what happens to !important.   *)
(***************************************************************************)
InlineMeansCascade == phase = "done" => \A p, q \in Prop : MeansCascade(p, q)

(***************************************************************************)
(* Custom properties are dropped from a style attribute together or not at *)
(* all: the attribute of an element whose declarations were resolved holds *)
(* one only if nothing else was offered for the element, and then it is    *)
(* the attribute of the source, which writeStyles did not touch            *)
(* ("ResolveCSSVariables ... drops custom properties", inline.go, does not *)
(* mention this case).                                                     *)
(***************************************************************************)
CustomStaysOnlyAlone ==
    phase = "done" /\ visited /\ ResolveCSSVariables =>
        \/ \A x \in DOMAIN attr : attr[x].decl.prop \notin CustomProp
        \/ /\ \A d \in Seen : d.prop \in CustomProp \union {Content}
           /\ [x \in DOMAIN attr |-> attr[x].decl] = [k \in DOMAIN style |-> StyleDecl(style, k)]

(***************************************************************************)
(* The arena implements the map of the specification: what propMap.add     *)
(* does to slots, dead marks and links is, property by property, either    *)
(* the takeover CascadeSpec allows or nothing.                             *)
(***************************************************************************)
ImplementsCascadeSpec == Abstract!AbsSpec

=============================================================================
