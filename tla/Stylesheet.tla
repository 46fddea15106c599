----------------------------- MODULE Stylesheet -----------------------------
(***************************************************************************)
(* parseStylesheet (css.go): the machine that turns the grammar events of  *)
(* the CSS parser into rules to inline and blocks to preserve.             *)
(*                                                                         *)
(* The CSS parser is a library.  It is modelled by the events it may       *)
(* deliver: properly nested blocks, and at any moment the end of the input *)
(* or a parse error, which the code treats alike.  What it delivered is    *)
(* recorded in log, which stands for the text of the stylesheet; a         *)
(* declaration or a block is named by its place in log.                    *)
(***************************************************************************)
EXTENDS Naturals, Sequences, FiniteSets, SequencesExt

CONSTANTS
    AtKind,       \* the kinds of at-rule
    DeclKind,     \* those whose block holds declarations, such as font-face
    Preserved,    \* those preserveKind accepts under the options in force
    Selectors,    \* the selectors of rulesets
    Arms,         \* what compileRule makes of each arm of a selector
    PreservePseudos,  \* options.preservePseudos
    FirstOrd,     \* the values of the ord parameter
    MaxEvents,    \* bound: the events one stylesheet may give rise to
    MaxNesting    \* bound: the depth of its blocks

(* An arm is skipped because of :hover and the like, or yields a rule for
   every alternative of its :is() lists that the matcher can parse. *)
Arm == [ignored : BOOLEAN, variants : Nat]

ASSUME SheetAssumption ==
    /\ DeclKind \subseteq AtKind
    /\ Preserved \subseteq AtKind
    /\ Arms \in [Selectors -> Seq(Arm)]
    /\ PreservePseudos \in BOOLEAN
    /\ FirstOrd \subseteq Nat
    /\ MaxEvents \in Nat
    /\ MaxNesting \in Nat

(* A declaration with a value, one without, or a custom property. *)
Form == {"plain", "blank", "custom"}

VARIABLES
    log,     \* the events delivered so far
    open,    \* the blocks the parser is inside, outermost first
    atKind,  \* the kind of the outermost at-rule
    stack,   \* the blocks being preserved, outermost first
    sel,     \* the ruleset whose selector was read last; 0 if none was
    decls,   \* the declarations collected for it
    rules,   \* the result: rules to inline
    keep,    \* the result: blocks to re-emit
    base,    \* the ord parameter
    ord,     \* the number of the next declaration
    ended    \* the loop has been left

vars == <<log, open, atKind, stack, sel, decls, rules, keep, base, ord, ended>>

-----------------------------------------------------------------------------
(* The parser *)

Event(event, head) == [event |-> event, head |-> head, path |-> open]

Here == Len(log) + 1

Deliver(event, head) ==
    /\ ~ended
    /\ Len(log) < MaxEvents
    /\ log' = Append(log, Event(event, head))

Opens(event, head) ==
    /\ Len(open) < MaxNesting
    /\ Deliver(event, head)
    /\ open' = Append(open, Here)

AtTop == open = <<>>

In(event) == ~AtTop /\ log[Last(open)].event = event

InRuleList == AtTop \/ (In("at-rule") /\ log[Last(open)].head \notin DeclKind)

InDeclList == In("ruleset") \/ (In("at-rule") /\ log[Last(open)].head \in DeclKind)

-----------------------------------------------------------------------------
(* Blocks being preserved.  Only what a block holds matters here, not how it
   is laid out: each thing in it is paired with the block it was put in. *)

Block(b) == [id |-> b, holds |-> {}]

Put(blk, k) == [blk EXCEPT !.holds = @ \union {<<blk.id, k>>}]

Nest(blk, done) == [Put(blk, done.id) EXCEPT !.holds = @ \union done.holds]

(* The innermost block is finished and goes into the one around it. *)
Fold(s) ==
    LET rest == Front(s) IN
    [rest EXCEPT ![Len(rest)] = Nest(@, Last(s))]

PutInLast(s, k) == [s EXCEPT ![Len(s)] = Put(@, k)]

Kept(kind, blk) == [kind |-> kind, id |-> blk.id, holds |-> blk.holds]

-----------------------------------------------------------------------------

Init ==
    /\ base \in FirstOrd
    /\ ord = base
    /\ log = <<>>
    /\ open = <<>>
    /\ atKind = "none"
    /\ stack = <<>>
    /\ sel = 0
    /\ decls = <<>>
    /\ rules = <<>>
    /\ keep = <<>>
    /\ ended = FALSE

(* Mutant of BeginAtRule: every at-rule, nested or not, sets the kind. *)
BeginAtRule_AnyDepth(k) ==
    /\ InRuleList
    /\ Opens("at-rule", k)
    /\ atKind' = k
    /\ stack' = Append(stack, Block(Here))
    /\ UNCHANGED <<sel, decls, rules, keep, base, ord, ended>>

(* css.BeginAtRuleGrammar *)
BeginAtRule(k) ==
    /\ InRuleList
    /\ Opens("at-rule", k)
    /\ atKind' = IF stack = <<>> THEN k ELSE atKind
    /\ stack' = Append(stack, Block(Here))
    /\ UNCHANGED <<sel, decls, rules, keep, base, ord, ended>>

(* css.AtRuleGrammar: an at-rule without a block. *)
BodylessAtRule(k) ==
    /\ InRuleList
    /\ Deliver("bodyless", k)
    /\ keep' = IF stack = <<>> /\ k \in Preserved
               THEN Append(keep, Kept(k, Block(Here))) ELSE keep
    /\ UNCHANGED <<open, atKind, stack, sel, decls, rules, base, ord, ended>>

(* css.EndAtRuleGrammar *)
EndAtRule ==
    /\ ~ended
    /\ In("at-rule")
    /\ open' = Front(open)
    /\ IF Len(stack) > 1
       THEN /\ stack' = Fold(stack)
            /\ keep' = keep
       ELSE /\ stack' = Front(stack)
            /\ keep' = IF atKind \in Preserved
                       THEN Append(keep, Kept(atKind, Last(stack))) ELSE keep
    /\ UNCHANGED <<log, atKind, sel, decls, rules, base, ord, ended>>

(* Mutant of BeginRuleset: a nested ruleset gets no block of its own. *)
BeginRuleset_NoBlock(s) ==
    /\ InRuleList
    /\ Opens("ruleset", s)
    /\ sel' = Here
    /\ decls' = <<>>
    /\ UNCHANGED <<atKind, stack, rules, keep, base, ord, ended>>

(* css.BeginRulesetGrammar *)
BeginRuleset(s) ==
    /\ InRuleList
    /\ Opens("ruleset", s)
    /\ sel' = Here
    /\ decls' = <<>>
    /\ stack' = IF stack = <<>> THEN stack ELSE Append(stack, Block(Here))
    /\ UNCHANGED <<atKind, rules, keep, base, ord, ended>>

(* css.DeclarationGrammar: one without a value is dropped. *)
Declaration(blank) ==
    /\ InDeclList
    /\ Deliver("decl", IF blank THEN "blank" ELSE "plain")
    /\ IF blank THEN UNCHANGED <<stack, decls, ord>>
       ELSE IF stack # <<>>
       THEN /\ stack' = PutInLast(stack, Here)
            /\ UNCHANGED <<decls, ord>>
       ELSE /\ decls' = Append(decls, [id |-> Here, ord |-> ord])
            /\ ord' = ord + 1
            /\ UNCHANGED stack
    /\ UNCHANGED <<open, atKind, sel, rules, keep, base, ended>>

(* Mutant of CustomProperty: a custom property takes no number. *)
CustomProperty_Unnumbered ==
    /\ InDeclList
    /\ Deliver("decl", "custom")
    /\ decls' = IF stack = <<>> THEN Append(decls, [id |-> Here, ord |-> ord]) ELSE decls
    /\ UNCHANGED <<open, atKind, stack, sel, rules, keep, base, ord, ended>>

(* css.CustomPropertyGrammar: kept even without a value, but not in a block. *)
CustomProperty ==
    /\ InDeclList
    /\ Deliver("decl", "custom")
    /\ IF stack # <<>> THEN UNCHANGED <<decls, ord>>
       ELSE /\ decls' = Append(decls, [id |-> Here, ord |-> ord])
            /\ ord' = ord + 1
    /\ UNCHANGED <<open, atKind, stack, sel, rules, keep, base, ended>>

(* The rules of one ruleset: arm by arm, variant by variant, all with the
   same declarations. *)
compile(b, arms, ds) ==
    FlattenSeq([a \in DOMAIN arms |->
        IF arms[a].ignored THEN <<>>
        ELSE [v \in 1..arms[a].variants |-> [sel |-> b, arm |-> a, decls |-> ds]]])

anyIgnored(arms) == \E a \in DOMAIN arms : arms[a].ignored

Written(b, ds) == [kind |-> "pseudo", id |-> b, holds |-> {<<b, ds[x].id>> : x \in DOMAIN ds}]

(* Mutant of FinishRuleset: a selector with an arm to ignore is ignored. *)
FinishRuleset_AllOrNothing ==
    LET arms == Arms[log[sel].head] IN
    IF decls = <<>> THEN UNCHANGED <<rules, keep>>
    ELSE /\ rules' = IF anyIgnored(arms) THEN rules ELSE rules \o compile(sel, arms, decls)
         /\ keep' = IF anyIgnored(arms) /\ PreservePseudos
                    THEN Append(keep, Written(sel, decls)) ELSE keep

(* A ruleset outside every at-rule: its arms are compiled, and if one of them
   is ignored the ruleset is also preserved as written. *)
FinishRuleset ==
    LET arms == Arms[log[sel].head] IN
    IF decls = <<>> THEN UNCHANGED <<rules, keep>>
    ELSE /\ rules' = rules \o compile(sel, arms, decls)
         /\ keep' = IF anyIgnored(arms) /\ PreservePseudos
                    THEN Append(keep, Written(sel, decls)) ELSE keep

(* css.EndRulesetGrammar *)
EndRuleset ==
    /\ ~ended
    /\ In("ruleset")
    /\ open' = Front(open)
    /\ IF stack # <<>>
       THEN /\ stack' = IF Len(stack) > 1 THEN Fold(stack) ELSE stack
            /\ UNCHANGED <<rules, keep>>
       ELSE /\ FinishRuleset
            /\ UNCHANGED stack
    /\ UNCHANGED <<log, atKind, sel, decls, base, ord, ended>>

(* css.ErrorGrammar: the input is exhausted, or could not be parsed. *)
Stop ==
    /\ ~ended
    /\ ended' = TRUE
    /\ UNCHANGED <<log, open, atKind, stack, sel, decls, rules, keep, base, ord>>

Done == ended /\ UNCHANGED vars

Next ==
    \/ \E k \in AtKind : BeginAtRule(k)
    \/ \E k \in AtKind : BodylessAtRule(k)
    \/ EndAtRule
    \/ \E s \in Selectors : BeginRuleset(s)
    \/ \E blank \in BOOLEAN : Declaration(blank)
    \/ CustomProperty
    \/ EndRuleset
    \/ Stop
    \/ Done

Spec == Init /\ [][Next]_vars

-----------------------------------------------------------------------------
(* What the stylesheet says, read off its text. *)

Closed(b) == \A x \in DOMAIN open : open[x] # b

Top(k) == log[k].path = <<>>

(* The events of a set in the order they were delivered. *)
InOrder(S) == FlattenSeq([k \in DOMAIN log |-> IF k \in S THEN <<k>> ELSE <<>>])

(* The declarations written directly in block b that count. *)
Body(b) ==
    InOrder({k \in DOMAIN log : /\ log[k].event = "decl"
                                /\ log[k].head # "blank"
                                /\ Last(log[k].path) = b})

Within(b, k) == \E x \in DOMAIN log[k].path : log[k].path[x] = b

(* What the code takes note of in a block it preserves, at any depth, and
   the block each thing is written in. *)
Noted(b) ==
    {<<Last(log[k].path), k>> : k \in {k \in DOMAIN log :
        /\ Within(b, k)
        /\ \/ log[k].event \in {"at-rule", "ruleset"}
           \/ log[k].event = "decl" /\ log[k].head = "plain"}}

IgnoredIn(b) == anyIgnored(Arms[log[b].head])

(* The rulesets written outside every at-rule that say anything. *)
TopRulesets ==
    {b \in DOMAIN log : log[b].event = "ruleset" /\ Top(b) /\ Closed(b) /\ Body(b) # <<>>}

(* What is to be preserved. *)
ToPreserve ==
    {b \in DOMAIN log : /\ log[b].event \in {"at-rule", "bodyless"}
                        /\ log[b].head \in Preserved
                        /\ Top(b) /\ Closed(b)}
    \union {b \in TopRulesets : IgnoredIn(b) /\ PreservePseudos}

(* What a block that is preserved holds. *)
Held(b) ==
    IF log[b].event = "ruleset" THEN {<<b, Body(b)[x]>> : x \in DOMAIN Body(b)} ELSE Noted(b)

-----------------------------------------------------------------------------
(* Properties *)

Entry == [event : {"at-rule", "bodyless", "ruleset", "decl"},
          head : AtKind \union Selectors \union Form, path : Seq(Nat)]
Numbered == [id : Nat, ord : Nat]
Compiled == [sel : Nat, arm : Nat, decls : Seq(Numbered)]
Holds == SUBSET (Nat \X Nat)
Opened == [id : Nat, holds : Holds]
PreservedBlock == [kind : AtKind \union {"pseudo"}, id : Nat, holds : Holds]

(* The shape of the state, and that no reference leads outside the text.  The
   stack of blocks follows the nesting of the input once the outermost block
   is an at-rule, and is empty otherwise, so the end of a block always finds
   its own block to pop. *)
TypeOK ==
    /\ log \in Seq(Entry)
    /\ \A k \in DOMAIN log : \A x \in DOMAIN log[k].path : log[k].path[x] \in 1..(k - 1)
    /\ open \in Seq(DOMAIN log)
    /\ atKind \in AtKind \union {"none"}
    /\ stack \in Seq(Opened)
    /\ IF ~AtTop /\ log[open[1]].event = "at-rule"
       THEN /\ [x \in DOMAIN stack |-> stack[x].id] = open
            /\ atKind = log[open[1]].head
       ELSE stack = <<>>
    /\ sel \in 0..Len(log)
    /\ decls \in Seq(Numbered)
    /\ \A x \in DOMAIN decls : decls[x].id \in DOMAIN log
    /\ rules \in Seq(Compiled)
    /\ keep \in Seq(PreservedBlock)
    /\ \A x \in DOMAIN keep : keep[x].id \in DOMAIN log
    /\ base \in Nat /\ ord \in Nat
    /\ ended \in BOOLEAN

(***************************************************************************)
(* "At-rules never become rules" (css.go) and nothing else is lost: the    *)
(* rules are, in order, those of the rulesets written outside every        *)
(* at-rule, one for every variant of every arm that can be inlined, each   *)
(* with that ruleset's declarations.  One selector and one list of         *)
(* declarations are kept for all rulesets, nested ones included.           *)
(***************************************************************************)
InlinedAsWritten ==
    LET sources == InOrder(TopRulesets)
        ids(ds) == [x \in DOMAIN ds |-> ds[x].id]
    IN [x \in DOMAIN rules |-> [rules[x] EXCEPT !.decls = ids(@)]]
       = FlattenSeq([x \in DOMAIN sources |->
             compile(sources[x], Arms[log[sources[x]].head], Body(sources[x]))])

(***************************************************************************)
(* What cannot be inlined is kept, once and in the order it was written:   *)
(* at-rules of a preserved kind with the blocks and ordinary declarations  *)
(* nested in them at any depth, each in its own block, and the rulesets    *)
(* with an arm for :hover and the like.                                    *)
(***************************************************************************)
PreservedAsWritten ==
    /\ [x \in DOMAIN keep |-> keep[x].id] = InOrder(ToPreserve)
    /\ \A x \in DOMAIN keep : keep[x].holds = Held(keep[x].id)

(***************************************************************************)
(* Declarations are numbered for the cascade: within a rule the numbers    *)
(* grow, those of a later ruleset exceed those of an earlier one, and the  *)
(* number handed on to the next stylesheet exceeds them all.               *)
(***************************************************************************)
OrdersAscend ==
    \A r, s \in DOMAIN rules : \A x \in DOMAIN rules[r].decls, y \in DOMAIN rules[s].decls :
        LET d == rules[r].decls[x]
            e == rules[s].decls[y]
        IN /\ d.ord \in base..ord - 1
           /\ rules[r].sel < rules[s].sel => d.ord < e.ord
           /\ r = s /\ x < y => d.ord < e.ord

=============================================================================
