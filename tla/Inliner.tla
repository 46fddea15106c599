------------------------------ MODULE Inliner ------------------------------
(***************************************************************************)
(* The passage of CSS through one document (inline.go, run): collectCSS    *)
(* takes the style elements one by one, ExtraCSS is parsed after them, the *)
(* rules are applied, and emitPreserved puts what is left of ExtraCSS into *)
(* a style element of its own.                                             *)
(*                                                                         *)
(* parseStylesheet is module Stylesheet.  What this module needs of it is  *)
(* what that one establishes: rules come in the order written, numbered in *)
(* the order written.  A stylesheet is a sequence of statements, each with *)
(* the number of rules it compiles to, the number of its declarations, and *)
(* whether it is preserved.                                                *)
(***************************************************************************)
EXTENDS Naturals, Sequences, FiniteSets, SequencesExt

CONSTANTS
    Statement,  \* the statements of stylesheets
    Pages,      \* the style elements of a document, as sequences
    Extras,     \* values of options.extraCSS, as stylesheets
    Shift       \* a rule's share of the numbers before ExtraCSS: 256 in the code

Sheet == Seq(Statement)

(* A style element: whether it holds exactly one text, and is marked
   data-embed. *)
Tag == [oneText : BOOLEAN, embed : BOOLEAN, sheet : Sheet]

ASSUME InlinerAssumption ==
    /\ Statement \subseteq [rules : Nat, decls : Nat, kept : BOOLEAN]
    /\ \A st \in Statement : st.rules > 0 => st.decls > 0
    /\ Pages \subseteq Seq(Tag)
    /\ Extras \subseteq Sheet
    /\ Shift \in Nat \ {0}

VARIABLES
    page,             \* the style elements as written
    extra,            \* options.extraCSS
    applyStyleTags,   \* options.applyStyleTags
    removeStyleTags,  \* options.removeStyleTags
    phase,            \* how far run has got
    tag,              \* the style element collectCSS handles next
    tags,             \* the style elements now
    ord,              \* the number of the next declaration
    rules,            \* the rules collected
    keep,             \* what emitPreserved is given
    emitted,          \* what emitPreserved appends
    winner            \* the rule that wins an element which all of them match

options == <<page, extra, applyStyleTags, removeStyleTags>>
vars == <<options, phase, tag, tags, ord, rules, keep, emitted, winner>>

-----------------------------------------------------------------------------
(* A rule: its source, its statement's place there, and the numbers of its
   declarations. *)
Rule == [src : Nat, stmt : Nat, from : Nat, to : Nat]

(* parseStylesheet.  A source is a style element's place, or the number
   after the last one for ExtraCSS. *)

(* The number of declarations in the first k statements. *)
Before(sheet) ==
    LET count[k \in 0..Len(sheet)] ==
            IF k = 0 THEN 0 ELSE count[k - 1] + sheet[k].decls
    IN count

(* The rules of a statement share its declarations, numbered from..to. *)
RulesOf(src, sheet, first) ==
    FlattenSeq([k \in DOMAIN sheet |->
        [v \in 1..sheet[k].rules |->
            [src |-> src, stmt |-> k,
             from |-> first + Before(sheet)[k - 1],
             to |-> first + Before(sheet)[k] - 1]]])

(* The statements preserved. *)
KeptOf(src, sheet) ==
    FlattenSeq([k \in DOMAIN sheet |-> IF sheet[k].kept THEN <<<<src, k>>>> ELSE <<>>])

SourceOf(src, sheet) == [k \in DOMAIN sheet |-> <<src, k>>]

ExtraSource == Len(page) + 1

-----------------------------------------------------------------------------

Init ==
    /\ page \in Pages
    /\ extra \in Extras
    /\ applyStyleTags \in BOOLEAN
    /\ removeStyleTags \in BOOLEAN
    /\ phase = "collect"
    /\ tag = 1
    /\ tags = [t \in DOMAIN page |-> [present |-> TRUE, embed |-> page[t].embed,
                                      text |-> SourceOf(t, page[t].sheet)]]
    /\ ord = 0
    /\ rules = <<>>
    /\ keep = <<>>
    /\ emitted = <<>>
    /\ winner = 0

Collecting == phase = "collect" /\ tag \in DOMAIN page

Detach == tags' = [tags EXCEPT ![tag].present = FALSE]

(* juice ignores a style element that is not exactly one text. *)
IgnoreTag ==
    /\ Collecting
    /\ ~page[tag].oneText
    /\ IF removeStyleTags THEN Detach ELSE UNCHANGED tags
    /\ tag' = tag + 1
    /\ UNCHANGED <<options, phase, ord, rules, keep, emitted, winner>>

(* Mutant of EmbeddedTag: its stylesheet is parsed like any other. *)
EmbeddedTag_Parsed ==
    /\ Collecting
    /\ page[tag].oneText
    /\ page[tag].embed
    /\ tags' = [tags EXCEPT ![tag].embed = FALSE]
    /\ rules' = rules \o RulesOf(tag, page[tag].sheet, ord)
    /\ ord' = ord + Before(page[tag].sheet)[Len(page[tag].sheet)]
    /\ tag' = tag + 1
    /\ UNCHANGED <<options, phase, keep, emitted, winner>>

(* A style element marked data-embed only loses its mark. *)
EmbeddedTag ==
    /\ Collecting
    /\ page[tag].oneText
    /\ page[tag].embed
    /\ tags' = [tags EXCEPT ![tag].embed = FALSE]
    /\ tag' = tag + 1
    /\ UNCHANGED <<options, phase, ord, rules, keep, emitted, winner>>

(* Rules that could not be inlined stay behind in their tag; an element left
   with none of them is removed. *)
Dispose(kept) ==
    IF ~removeStyleTags THEN UNCHANGED tags
    ELSE IF kept = <<>> THEN Detach
    ELSE tags' = [tags EXCEPT ![tag].text = kept]

(* Mutant of ParseTag: what is preserved is also handed to emitPreserved. *)
ParseTag_KeptTwice ==
    /\ Collecting
    /\ page[tag].oneText
    /\ ~page[tag].embed
    /\ applyStyleTags
    /\ rules' = rules \o RulesOf(tag, page[tag].sheet, ord)
    /\ ord' = ord + Before(page[tag].sheet)[Len(page[tag].sheet)]
    /\ keep' = keep \o KeptOf(tag, page[tag].sheet)
    /\ Dispose(KeptOf(tag, page[tag].sheet))
    /\ tag' = tag + 1
    /\ UNCHANGED <<options, phase, emitted, winner>>

(* Mutant of ParseTag: each style element is numbered from 0. *)
ParseTag_NumbersAnew ==
    /\ Collecting
    /\ page[tag].oneText
    /\ ~page[tag].embed
    /\ applyStyleTags
    /\ rules' = rules \o RulesOf(tag, page[tag].sheet, 0)
    /\ ord' = Before(page[tag].sheet)[Len(page[tag].sheet)]
    /\ Dispose(KeptOf(tag, page[tag].sheet))
    /\ tag' = tag + 1
    /\ UNCHANGED <<options, phase, keep, emitted, winner>>

ParseTag ==
    /\ Collecting
    /\ page[tag].oneText
    /\ ~page[tag].embed
    /\ applyStyleTags
    /\ rules' = rules \o RulesOf(tag, page[tag].sheet, ord)
    /\ ord' = ord + Before(page[tag].sheet)[Len(page[tag].sheet)]
    /\ Dispose(KeptOf(tag, page[tag].sheet))
    /\ tag' = tag + 1
    /\ UNCHANGED <<options, phase, keep, emitted, winner>>

(* Without applyStyleTags nothing is parsed, so nothing is found to keep. *)
PassTag ==
    /\ Collecting
    /\ page[tag].oneText
    /\ ~page[tag].embed
    /\ ~applyStyleTags
    /\ Dispose(<<>>)
    /\ tag' = tag + 1
    /\ UNCHANGED <<options, phase, ord, rules, keep, emitted, winner>>

(* Mutant of ParseExtra: its numbers start anew. *)
ParseExtra_FromZero ==
    /\ phase = "collect"
    /\ tag \notin DOMAIN page
    /\ phase' = "apply"
    /\ IF extra = <<>> THEN UNCHANGED <<rules, keep>>
       ELSE /\ rules' = rules \o RulesOf(ExtraSource, extra, 0)
            /\ keep' = keep \o KeptOf(ExtraSource, extra)
    /\ UNCHANGED <<options, tag, tags, ord, emitted, winner>>

(* ExtraCSS is numbered from a base of its own. *)
ParseExtra ==
    /\ phase = "collect"
    /\ tag \notin DOMAIN page
    /\ phase' = "apply"
    /\ IF extra = <<>> THEN UNCHANGED <<rules, keep>>
       ELSE /\ rules' = rules \o RulesOf(ExtraSource, extra, Len(rules) * Shift)
            /\ keep' = keep \o KeptOf(ExtraSource, extra)
    /\ UNCHANGED <<options, tag, tags, ord, emitted, winner>>

(* Between rules of the same specificity a declaration is outranked by one
   with a greater number only (propMap.add; see module Cascade). *)
Outranks(r, s) == rules[r].to > rules[s].to

(* applyRules, on an element that all rules match with one specificity and
   one property: they are offered in order, each against the incumbent. *)
ApplyRules ==
    /\ phase = "apply"
    /\ phase' = "emit"
    /\ winner' = IF rules = <<>> THEN 0
                 ELSE CHOOSE r \in DOMAIN rules :
                        \A s \in DOMAIN rules : /\ s < r => Outranks(r, s)
                                                /\ s > r => ~Outranks(s, r)
    /\ UNCHANGED <<options, tag, tags, ord, rules, keep, emitted>>

EmitPreserved ==
    /\ phase = "emit"
    /\ phase' = "done"
    /\ emitted' = keep
    /\ UNCHANGED <<options, tag, tags, ord, rules, keep, winner>>

Done == phase = "done" /\ UNCHANGED vars

Next ==
    \/ IgnoreTag
    \/ EmbeddedTag
    \/ ParseTag
    \/ PassTag
    \/ ParseExtra
    \/ ApplyRules
    \/ EmitPreserved
    \/ Done

Spec == Init /\ [][Next]_vars

-----------------------------------------------------------------------------
(* Properties *)

(* Whether collectCSS takes rules from a style element. *)
Applied(t) == applyStyleTags /\ page[t].oneText /\ ~page[t].embed

(* The shape of the state; every rule comes from a style element whose rules
   apply or from ExtraCSS, and the sources appear in order. *)
TypeOK ==
    /\ page \in Seq(Tag)
    /\ extra \in Sheet
    /\ phase \in {"collect", "apply", "emit", "done"}
    /\ tag \in 1..Len(page) + 1
    /\ tags \in [DOMAIN page -> [present : BOOLEAN, embed : BOOLEAN, text : Seq(Nat \X Nat)]]
    /\ ord \in Nat
    /\ rules \in Seq(Rule)
    /\ \A r \in DOMAIN rules :
          /\ rules[r].src \in 1..ExtraSource
          /\ rules[r].src \in DOMAIN page => Applied(rules[r].src)
          /\ \A s \in DOMAIN rules : r < s => rules[r].src <= rules[s].src
    /\ keep \in Seq(Nat \X Nat)
    /\ emitted \in Seq(Nat \X Nat)
    /\ winner \in 0..Len(rules)

(***************************************************************************)
(* Between equals the last one written wins: unless ExtraCSS takes part,   *)
(* the element's winner belongs to the last statement of all the style     *)
(* elements that apply and that yields a rule, however many elements the   *)
(* CSS is spread over.                                                     *)
(***************************************************************************)
LastStyleElementWins ==
    phase \in {"emit", "done"} /\ rules # <<>> /\ Last(rules).src # ExtraSource =>
        /\ rules[winner].src = Last(rules).src
        /\ rules[winner].stmt = Last(rules).stmt

(* What the output holds of a style element. *)
Surviving(t) == IF tags[t].present THEN tags[t].text ELSE <<>>

(* Whether the output owes anything to a style element: it was read for its
   rules, marked to be left whole, or style elements are not removed. *)
Heard(t) == ~removeStyleTags \/ (page[t].oneText /\ (page[t].embed \/ applyStyleTags))

(***************************************************************************)
(* What is read and cannot be inlined survives once, whatever the other    *)
(* style elements and ExtraCSS hold: with removeStyleTags a style element  *)
(* that was parsed holds exactly its own preserved statements, and those   *)
(* of ExtraCSS are in the one emitPreserved appends; an embedded one, and  *)
(* every one without removeStyleTags, holds what was written.              *)
(* "Rules that cannot be inlined are kept regardless" (inline.go:79) says  *)
(* more.  A style element removed unread, because applyStyleTags is off or *)
(* it is not exactly one text, takes such rules with it: nothing is        *)
(* claimed of it here.                                                     *)
(***************************************************************************)
NothingReadIsLost ==
    phase = "done" =>
        /\ \A t \in DOMAIN page : Heard(t) =>
              Surviving(t) =
                  IF ~removeStyleTags \/ page[t].embed
                  THEN SourceOf(t, page[t].sheet)
                  ELSE KeptOf(t, page[t].sheet)
        /\ emitted = KeptOf(ExtraSource, extra)

(***************************************************************************)
(* "ExtraCSS is appended to the CSS collected from the document"           *)
(* (inline.go): its last rule wins between equals, for as long as the base *)
(* of its numbers lies beyond the numbers given out before it, which the   *)
(* count of rules alone does not make sure of.                             *)
(***************************************************************************)
ExtraCSSWinsFromItsBase ==
    phase = "done" /\ rules # <<>> /\ Last(rules).src = ExtraSource =>
        LET collected == {r \in DOMAIN rules : rules[r].src # ExtraSource} IN
        (\A r \in collected : rules[r].to < Shift * Cardinality(collected)) =>
            /\ rules[winner].src = ExtraSource
            /\ rules[winner].stmt = Last(rules).stmt

=============================================================================
