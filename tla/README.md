# A verification of go-premailer

`go-premailer` (package `juicer`) moves the CSS of an HTML email from its
`<style>` elements into `style` attributes. It parses the document, compiles its
stylesheets to rules, applies every matching rule to every element, lets the CSS
cascade decide what survives, substitutes `var()` references, writes the result
into attributes, and keeps what cannot be inlined (`@media`, `:hover`, ...) in a
`<style>` element. The program is sequential: one call of `Inliner.Inline` builds
a fresh `pass`, and an `Inliner` shared by goroutines is never written to after
`New`. Nothing is persisted and nothing waits. What makes it hard is therefore not
interleaving but *order*: the cascade is decided by the order in which
declarations arrive, numbering runs across stylesheets and rulesets, state is
reused from element to element, values are rewritten in place while others read
them, and several machines run over input that may stop at any point.

Contents: 1 inventory, 2 modules, 3 runs, 4 bounds, 5 fairness, 6 proofs,
7 disagreements between the code and what is said of it, 8 what is not modelled,
9 plan.

## 1. Inventory

| Component (source) | State | Operations | Talks to |
|---|---|---|---|
| Specificity keys (`props.go`: `packKey`, `sat`) | none | pack a priority and three counts into one word | property map |
| Property map and cascade of one element (`props.go`; `inline.go`: `applyRules`, `writeStyles`) | `propMap.slots`: an insertion-ordered arena with dead marks and links | `find`, `add`, `live`, `styleAttr`, `seedInline` | called back by the rule index per match; read by variable resolution and attribute promotion |
| Rule index (`ruleset.go`; `selector.go`: `rightmostKey`) | four maps of buckets; a scratch (`lists`, `pos`) shared by all visits | `newRuleSet`, `forEach` | calls the matcher, calls back `applyRules` |
| Stylesheet parser (`css.go`) | `stack`, `atKind`, `sel`, `decls`, `ord`, the results | one branch per grammar event | pulls events from the CSS grammar library; `compileRule` for selectors |
| Custom property resolution (`variables.go`) | the property maps, rewritten in place; a recursion per reference | `resolveVariables`, `substitute`, `lookupVar` | reads the maps of ancestors |
| Inlining pass (`inline.go`) | rules, `ord`, kept blocks, the tree | `run`, `collectCSS`, `emitPreserved` | calls all of the above |
| Selector scanning and expansion (`selector.go`) | the candidates of the running round | `compileRule`: `scanSelector`, `argSpecificity`, `expandFunctional` (cap 32) over `splitSelector` and `findSelectorList`; `rewriteHas` | stylesheet parser; the matcher compiles its results |
| HTML tree (`parse.go`) | per call of `parseDocument`: the current node, the count of open foreign elements | one branch per token, `reparseChildren` (a nested call), `render` | pulls tokens from x/net/html |
| Template code blocks (`codeblocks.go`) | the list of blocks found | `encodeCodeBlocks`, `decodeCodeBlocks` | around the whole pass |
| Attribute promotion and cleanup (`attrs.go`) | the tree | `promoteAttributes`, `cleanup` | reads the property maps after resolution |
| Libraries (cascadia, tdewolff/parse, x/net/html) | - | matching, CSS grammar events, HTML tokens | external: not in the repository |

What is hard in each, and what makes it correct:

* **Specificity keys.** A field overflows into the next. Correct: comparing keys is
  comparing clamped vectors.
* **Property map.** `add` compares a newcomer with the incumbent only; it never
  looks back. Two rules may hold the same declarations (the arms of `a, .b {}`),
  a rule may declare a property twice (fallbacks), the attribute is seeded in the
  middle, `!important` inverts layers. Correct: the live slot is the cascade's
  winner over everything offered so far; exactly the winning rule's earlier
  winners are emitted with it; and the attribute as written, read by a client that
  knows nothing of the stylesheet, means the same, also where a shorthand and a
  longhand overlap.
* **Rule index.** A bucket reached twice, a position left over from the element
  before, a key no matching element leads to. Correct: the index calls back for
  exactly the rules brute force finds, in order, once, and ends.
* **Stylesheet parser.** Nested blocks, one `sel` and `decls` for all rulesets, an
  input that stops in the middle, selectors of which one arm is ignored. Correct:
  nothing in an at-rule is inlined, nothing else is lost, what is kept is kept
  once and whole, numbers grow.
* **Variables.** Recursion over data that may be cyclic, splicing while scanning,
  maps rewritten while they are read. Correct: it ends, and the result does not
  depend on the order in which slots and elements are rewritten.
* **Inlining pass.** Numbers handed from sheet to sheet, several ways out of the
  loop over style elements. Correct: what is written last wins ties, and what
  is read and cannot be inlined survives exactly once.
* **Selectors.** Splicing alternatives in as text, round by round, up to a cap;
  one specificity for all variants. Correct: the rules match what the arm matches,
  at the cap no more than that, and carry the strongest alternative's specificity.
* **HTML tree.** Elements close implicitly, foreign content is counted, raw text is
  parsed a second time by a nested call. Correct: the count is that of open
  `svg`/`math` elements in every call; everything said is in the tree; what is
  written parses to the same tree.
* **Code blocks.** Numbered placeholders in a text somebody else wrote. Correct: the
  parser never sees a block, and decoding undoes encoding.
* **Attributes.** Promotion reads property maps in which losers still stand; cleanup
  walks twice and detaches nodes it found while walking. Correct: an attribute
  says what the winning declaration says; a link to a fragment still has its
  target; every node is reached.

`PROJECT.json` lists the hazards line by line, with the property that would catch
each of them.

## 2. Modules

| Module | Models | Notes |
|---|---|---|
| `Specificity` | `packKey`, `sat` | the field width is the parameter `FieldMax` (65535 in the code) |
| `CascadeSpec` | what inlining promises for one element | abstract: a map from properties to the winner and its fallbacks; layers, vectors and order compared directly, no key and no arena |
| `Cascade` | `propMap` and the visit of one element | implements `CascadeSpec` |
| `RuleIndex` | `newRuleSet`, `rightmostKey`, `forEach`, the walk | |
| `Stylesheet` | the loop of `parseStylesheet` | the grammar library is its environment |
| `Variables` | `resolveVariables`, `substitute`, `lookupVar` | one record per activation of the recursive function |
| `Inliner` | `run`, `collectCSS`, ExtraCSS, `emitPreserved` | uses of `parseStylesheet` what `Stylesheet` establishes |
| `HtmlTree` | `parseDocument`, `reparseChildren`, `render` | one frame per call of `parseDocument`; the output is parsed again by the same actions |
| `CodeBlocks` | `encodeCodeBlocks`, `decodeCodeBlocks`, the pass between them | an int lies between `-IntHalf` and `IntHalf - 1`; the names of the specification begin with `Code` |
| `Attrs` | `promoteAttributes`, `cleanup` | one action per element or node visited |
| `Selectors` | `compileRule` with `expandFunctional`, `scanSelector`, `argSpecificity` | recursive operators; checked against the meaning of a selector |
| `CascadeProofs`, `RuleIndexProofs`, `StylesheetProofs`, `VariablesProofs`, `InlinerProofs`, `AttrsProofs`, `HtmlTreeProofs` | theorems about the module each is named for; those about `Specificity` are in `CascadeProofs`, those about `CodeBlocks` in `InlinerProofs` | see section 6 |
| `InductionLemmas` | what `FlattenSeq` and concatenation return, and induction without an operator as a parameter | cited by the proofs |
| `MC*` | finite inputs for TLC | |

`Cascade`, `RuleIndex`, `Stylesheet`, `Variables` and `Inliner` meet at stated
interfaces rather than in one composed machine, since the phases follow one
another: `RuleIndex` shows that `forEach` calls back exactly for the matching
rules in ascending order, which is how `Cascade` receives them (`matched`,
`SkipRule`); `Stylesheet` shows that numbers grow within and across rulesets
(`OrdersAscend`), which is `Cascade`'s `DocumentsAssumption` and what `Inliner`
builds its rules from; `Cascade` shows that a property has at most one live slot,
which `Variables` uses in `lookupVar` and `Attrs` in `find`. `Selectors` says what
becomes of one arm, which `Stylesheet` takes as an input (`compile`), and what its
rules match is what `RuleIndex` takes as `Match`. `HtmlTree` gives the document
order that `RuleIndex` and `Attrs` walk in, and `CodeBlocks` wraps all of it: its
`Process` is the whole pass.

How states and actions correspond to the code:

* **Cascade.** One behaviour is one element. `phase` is where control is: `scan`
  (the loop of `forEach`), `seed` (inside `seedInline`), `apply` (the loop over a
  rule's declarations), `done`. `FirstMatch`/`LaterMatch` are the callback's
  first lines, `SeedDecl`/`AddDecl` one call of `add` each, `PseudoRule` the early
  return for `::before` and `::after`, `WriteStyle` the element's turn in
  `writeStyles`. Slots and rules count from 1; the code's `-1` is 0, both for "no
  slot" and for the synthetic rule of the style attribute. A declaration's
  identity stands for its value.
* **RuleIndex.** `IndexRule` is one round of `newRuleSet`; `Visit` the reset of the
  scratch at the head of `forEach`, `Add` one call of its local function `add` (one
  bucket the element can reach), `Gathered` its early return, which leaves `pos`
  alone, or the reset of `pos`; `Take` one round of the merge; `NextNode` the walk.
  The matcher is the
  predicate `Match`: ids, classes, tag, and a set of elements that satisfy the
  rest of the selector.
* **Stylesheet.** One action per grammar event, each doing all that its branch
  does. `log` stands for the text: what was delivered, where. `Stop` is both the
  end of the input and a parse error, enabled at any moment, inside any block.
* **Variables.** `frames` are the activations of `substitute`: `out` and `from` are
  its locals. `Descend` is the recursive call, `ReturnToCaller` the splice after
  it, `PassOver` the reference left in place. A value is a sequence of pieces, the
  spans the scan finds: text, a closed `var()`, and a `var(` never closed, which
  reaches to the end of the value (`parenEnd` falls back to it) and counts as closed
  if the last byte happens to be a `)` (`Usable`), else ends the scan (`Stuck`). So
  `var(--a, var(--b)` is one piece with the name `--a` and a fallback that is stuck. The
  reference definition, `Expansion`, has no position and no splicing: level 0 is the
  text itself, and each level up replaces the references of a text by what they
  stand for one level down; the cap is the number of levels.
* **HtmlTree.** `frames` is the call stack `parseDocument` -> `reparseChildren` ->
  `parseDocument`; a frame has `cur`, `foreign` and what its tokenizer has left.
  One action per branch of the token switch; `EndTag` does the pops, the count and
  the beginning of the nested parse, `ReturnFromReparse` its end. `nodes` is the
  tree in document order; the parent pointers the code walks are the sets
  `Above(n)`, and the element a walk stops at is the last of such a set, as an
  ancestor comes earlier in the document. `SourceParsed` writes the tree (`Render`) and starts
  parsing what was written; that second parse is not in the code, it is the reader
  of the output, and uses the code's own parser.
* **CodeBlocks.** `EncodeBlock` and `EncodeRest` are the rounds and the end of the
  encoder's loop, `DecodeBlock`, `NotOurs`, `DecodeRest` those of the decoder's,
  `Panic` the index outside `found`. `Process` keeps the text or doubles it, as
  inlining does with a declaration that matches twice.
* **Attrs.** Texts are atoms, and md5 is the constant function `Hash` on them.
  `PromoteElement` is one round of `promoteAttributes`; `CollectTargets`
  the first walk of `cleanup`, `VisitElement`/`VisitComment` one node of the second,
  `DetachComments` the loop over `doomed`.
* **Selectors.** `ScanArm` is the first scan with its early return;
  `KeepCandidate`/`ExpandCandidate` one candidate of a round, `RoundDone` its end,
  `CompileVariant` one variant. An arm is a sequence of pieces and a list holds
  arms, so splicing is concatenation; that a tag behind a name becomes part of the
  name is kept (`Glued`).
* **Inliner.** One action per way through the body of the loop of `collectCSS`,
  then ExtraCSS, the application of rules (reduced to one element that all rules
  match with equal specificity: the tie that numbering decides), `emitPreserved`.
  The rules of a sheet are one `Rule` for each arm of each statement, in order.

## 3. Runs

| Run | Config | Shows |
|---|---|---|
| `cascade` | `MCCascade.cfg` | `TypeOK`; `WinnerIsMaximal`: the arena always holds the winners; `FallbacksSurvive`: exactly the right superseded declarations are emitted; `InlineMeansCascade`: the attribute written means what the stylesheet meant; `CustomStaysOnlyAlone`: custom properties go unless there is nothing else; `ImplementsCascadeSpec`: the refinement |
| `rule_index` | `MCRuleIndex.cfg` | `TypeOK`; `CandidatesAscend`; `EveryMatchCalled` against brute force; `WalkEnds` |
| `stylesheet` | `MCStylesheet.cfg` | `TypeOK`; `InlinedAsWritten`; `PreservedAsWritten`; `OrdersAscend` |
| `variables` | `MCVariables.cfg` | `TypeOK`; `ResolvedIsExpansion`; `NoneResolvableLeft`; `ResolutionEnds` |
| `inliner` | `MCInliner.cfg` | `TypeOK`; `LastStyleElementWins`; `NothingReadIsLost`: what cannot be inlined survives once, in its place, if its style element was read (section 7); `ExtraCSSWinsFromItsBase`: ExtraCSS wins ties as long as its base lies beyond the numbers before it |
| `html_tree` | `MCHtmlTree.cfg` | `TypeOK`, with the foreign count of every call; `NamespaceFromContext`; `EverythingParsed`; `RenderedAgain`: what is written parses to the same tree, with four exceptions (section 7); `ParseEnds` |
| `code_blocks` | `MCCodeBlocks.cfg` | `CodeTypeOK`: the blocks found are blocks of the document, in order; `ParserSeesNoBlock`: only behind a delimiter never closed is one left; `RoundTrip`: the document comes back, from a text copied, too; `StaysInBounds` |
| `attrs` | `MCAttrs.cfg` | `TypeOK`; `LinksKeepTargets`: anchors keep their targets and no link gains one; `CleanedEverywhere`; `AttributesAgree` |
| `selectors` | `MCSelectors.cfg` | `TypeOK`; `ExpansionExact` below the cap; `CapOnlyLoses` at it; `SpecificityOfStrongest`; `ExpansionEnds` |
| `rule_index_escapes`, `code_blocks_skipped`, `selectors_exact` | `MCRuleIndexEscapes.cfg`, `MCCodeBlocksSkipped.cfg`, `MCSelectorsExact.cfg` | each refutes one sentence said of the code (section 7) |

Every property of the passing runs has a mutant in the module it is about: the
definition changed the way a plausible bug would change it (`..._LastApplied`,
`..._StalePos`, `..._Rescans`, ...). TLC finds each mutant in violation, which is
what shows the property is not satisfied by the model's shape.

`TypeOK` is more than a typing in each module: it holds the facts that index
safety rests on (a chain of slots leads backwards; no merge position runs past its
list; the end of a block always finds its own block to pop; recursion is no deeper
than the cap; the count of foreign elements is that of the open ones; only comments
that may go are marked; a round of expansion holds less than twice the cap).

## 4. Bounds, and why they are enough

* **cascade**: a style attribute of up to two declarations; one ruleset with one or
  two declarations and two arms; one of a single declaration, possibly for
  `::before`. That is the least in which a rule supersedes itself and is then
  superseded by its own second arm, by another rule, or by the attribute, in
  every layer. `FieldMax = 3` keeps the four priorities apart, as any field must;
  the `Crowded` documents have counts 3, 4 and 5 to cross it, and the `Custom` ones
  a custom property alone and beside a declaration that stays.
* **rule_index**: three rules (a bucket needs two to be out of order, a merge a
  third from another bucket) and two elements (the second meets the scratch of
  the first); elements with a repeated class token, with an id equal to a class
  name, and with no attribute.
* **stylesheet**: six events that open or declare something (`MaxEvents`; closing a
  block is free), three levels of blocks (`MaxNesting`): an at-rule in an at-rule
  around a ruleset with a declaration, next to a ruleset at the top. `FirstOrd =
  {3}`, so that a number restarted from 0 shows.
* **variables**: three elements in a line of which the middle or last has no map,
  two custom properties with chains, cycles of one and two, fallbacks with
  references; `var(` never closed, in declared values, fallbacks and uses, with and
  without a `)` at the end of the value, and one whose name is misread for lack of it. `maxVarDepth = 2` (16 in the code): the longest
  chain without a cycle (a fallback to `--b`, that to `--a`) is as long as the cap
  allows, and the cycles exceed it.
* **inliner**: up to three style elements of up to two statements, and ExtraCSS of
  up to two, under all values of `applyStyleTags` and `removeStyleTags`. `Shift = 4`
  stands for the 256 of `len(rules) << 8`, so that a few statements can exceed it;
  in the code it takes 257 declarations to one rule.

* **html_tree**: every document of up to three tokens over seven element names, one
  of each kind (closed by implication, popping two levels, void, foreign, raw to
  parse again, raw to keep, the two with orphan end tags), and nine beginnings
  with every continuation of two: nested foreign elements, raw text in foreign
  content and the reverse, both kinds of raw text cut off by the end.
* **code_blocks**: texts of up to four atoms, and up to three words with or without
  three blocks before them, so up to six blocks. Digits are binary, which makes
  the third block's number one of two digits, and an int has six bits, so that
  `100000` overflows it and every length fits; the code's has 64.
* **attrs**: three nodes are an anchor, its target and a bystander, or a comment
  (plain, or either half of a conditional one) with siblings on both sides, in every arrangement of parents; the property maps
  hold a superseded and a live slot of one property and a slot of another.
* **selectors**: arms of up to three pieces, lists of up to three alternatives, one
  nested; two such lists exceed `maxExpansion = 4` (32 in the code), two of two
  alternatives do not. Meaning is compared over all elements with two tags and two
  classes, alone or with one ancestor.

No state space is cut by a constraint; the runs that bound a growing structure do
so in guards (`MaxEvents`, `MaxNesting`), and inputs are finite sets. No symmetry
is used.

## 5. Fairness

`WalkEnds`, `ResolutionEnds`, `ParseEnds` and `ExpansionEnds` assume
`WF_vars(Next)`: the code is one sequential computation in which no step waits for
anything, so it always takes its next step. Nothing stronger is assumed, and in
particular not that any one branch is taken. The other runs need no fairness.
`Cascade`, `RuleIndex`, `Stylesheet`, `Variables` and `Inliner` end in a `Done` that
stutters, so there TLC's deadlock check means that none of them gets stuck on the
way. `HtmlTree`, `CodeBlocks`, `Attrs` and `Selectors` simply stop when the call
returns, and their configurations turn the check off; that the first and the last
of them do return is `ParseEnds` and `ExpansionEnds`, and `CodeBlocks` and `Attrs`
advance an index over a finite text or list in every step.

## 6. Proofs

Checked by TLAPS, for every value of the constants that meets the named
assumptions, which TLC evaluates in the runs. Each `TypeCorrect` is
`Spec => []TypeOK` of its module.

**Specificity** (in `CascadeProofs`). `PackedOrder`: a packed key is greater exactly if priority, then
ids, classes and types, each clamped, are lexicographically greater. By
`PlaceOrder`: with a low part below the field size, the high part decides. Needs
`FieldMaxAssumption` (a field can hold the four priorities).

**Cascade.** `TypeCorrect`; `WinnerAlwaysMaximal` (`WinnerIsMaximal`);
`ArenaImplementsMap` (`ImplementsCascadeSpec`); `FallbacksAlwaysSurvive`
(`FallbacksSurvive`); `AttributeMeansCascade` (`InlineMeansCascade`, if
`PreserveImportant` is off, see section 7) and `EachPropertyMeansCascade` (the same
of each property by itself, under every option); `CustomAlwaysAlone`
(`CustomStaysOnlyAlone`).

`WinnerIsMaximal` is not inductive: it says nothing of dead slots, of the stored
keys, or of where the loops stand. The inductive invariant is `IInv == TypeOK /\
Inputs /\ Loops /\ Arena(slots, Seen)`. `Inputs` ties the state to a document,
`Loops` bounds the counters of each phase, and `Arena(s, S)` says what an arena
built from the declarations `S` guarantees: each slot holds one of them with its
own key; of two slots for one property the earlier is dead; slots are in the order
of their rules; and every declaration of `S` is represented by a live slot it does
not beat. `AddPreserves` proves that `add(s, d)` turns `Arena(s, S)` into
`Arena(add(s, d), S \cup {d})` for *any* newcomer; it rests on `BeatsIsKeyOrder`
(the order by key and number is the cascade order of `CascadeSpec`, by
`PackedOrder`) and on that order being negatively transitive, which is why looking
at the incumbent alone is enough. Each action then either leaves `Seen` alone or
adds the one declaration it passes to `add`. For the refinement, `AddRefines` shows
that a call of `add` is a step `Win(d)` of `CascadeSpec` or changes nothing. For
the fallbacks, `Traced(s, S)` adds what links mean: a slot was filled by each
declaration that beat all before it, and links to the last slot of its rule and
property. `ChainIs` and `LiveIs` then say what the recursive `Chains` and
the emission order are, and `SortIs` that counting predecessors sorts; the
last places of the attribute, property by property, are its live slots. Needs
`DocumentsAssumption` (documents are well formed and numbers grow within a rule,
which is `NumbersGrow` below), `NoneAssumption` and `OptionsAssumption` (typing).

**RuleIndex.** `TypeCorrect`; `MergeAscends` (`CandidatesAscend`);
`IndexLosesNoMatch` (`EveryMatchCalled`, if `KeysDenoteThemselves`: no rule is filed
under a name written with an escape, without which it is false, section 7);
`EscapeCostsOnlyItsRule` (without that hypothesis: nothing is called that does not
match, and no rule is lost for another rule's escape). The invariant is `TypeOK`
with `Indexed` (each bucket ascends and holds exactly the rules of its key, so
buckets are disjoint), `Queued` (no bucket twice among the lists, every bucket
asked for and not empty among them) and `Merged` (the candidates tested ascend, are
what the lists were advanced over, and lie below all pending heads). The step that
matters is `Take`: the least head is above all tested, and as buckets are disjoint
only its own list can offer it. Needs `IdentAssumption`, `InputsAssumption` (typing).

**Stylesheet.** `TypeCorrect`; `NumbersGrow` (`OrdersAscend`); `EveryRuleInlined`
(`InlinedAsWritten`); `EverythingElseKept` (`PreservedAsWritten`), for texts of any
length cut off anywhere and blocks of any depth. `TypeOK` needs the nesting: the
invariant `Shape` ties the stack to the open blocks of the text written so far
(`Entries`, `Blocks`, and `sel` is that of the open ruleset). `Numbers` adds the
order of declarations and rules; `Gathered` that what is still open, in `decls` and
in each block on the stack, is what the text holds inside it; `Results` that rules
and kept blocks are those of the text so far. The events that write are one case:
the text has grown by one entry (`Grown`), and the sets the properties are about
change by that entry only.

**Variables.** `TypeCorrect`; `ResolvedEverywhere` (`ResolvedIsExpansion`);
`NothingResolvableLeft` (`NoneResolvableLeft`). The idea is that the text of
an activation *means* the same at every moment: what is behind `from` as it stands,
followed by the expansion of what is ahead (`Meant`, `ResultOf`). `ScanReaches` cuts
that meaning at the next reference, which is where expanding piece by piece is
needed (`ExpansionSplits`, from `FlattenConcat`); then `Replaced` shows that splicing
in the expansion of the referent and going on behind it leaves the meaning alone,
`LeftInPlace` the same of a reference that stands for nothing, and `NothingLeft` that
an activation which returns has turned its text into its meaning. The invariant
`Resolving`: the shape of the state with `Stack` (each activation but the innermost
waits at a reference, `depth` counts them); `Owes` (each activation means, at its
level, the text its caller waits for, and the outermost the value declared); and
`Rewritten` (slots passed have their expansions, the others their declared values).
For
`NoneResolvableLeft` (no hypothesis about cycles: what the cap excuses is a chain of
references, `TooDeep`), `LevelsClean` shows by induction on the distance to the cap
that a text from which no longer chain leads is expanded to the end.
`LookupAgrees` shows that what a reference names is looked up in the maps as in those
declared, whatever has been rewritten. Needs `NameAssumption` (no reference names an
ordinary property; without it the result may depend on the order of slots, section
7), `PieceAssumption` (typing; a `var(` never closed is the last piece of its value)
and `PagesAssumption` (typing; a property has one live slot in a map, which `Cascade`'s
`Arena` shows).

**Inliner.** `TypeCorrect`; `LastWins` (`LastStyleElementWins`); `ExtraWins`
(`ExtraCSSWinsFromItsBase`); `ReadStylesSurvive` (`NothingReadIsLost`). The
invariant: the rules of style elements come first and lie below `ord`, those of
ExtraCSS after and from `Shift` times their count (`Based`); rules ascend within
either part (`Ascending`); style elements handled survive as they should and those
ahead are as written (`Taken`, `Survives`); the winner is the first of the greatest
(`Won`). What `parseStylesheet` yields for a sheet is `RulesOf`, about which
`Appended` says that numbers grow and lie in the sheet's range. Needs
`InlinerAssumption`: a statement with rules has a declaration.

**Attrs.** `TypeCorrect`; `LinksSurvive` (`LinksKeepTargets`); `NothingUncleaned`
(`CleanedEverywhere`); `PromotionAgrees` (`AttributesAgree`). The invariant says of
every node, for each walk, what it holds before and after the walk has passed it
(`PromotedSoFar`, `CleanedSoFar`), that the targets were collected from the document
as it was (`TargetsKnown`), and that the tree keeps its shape. Needs
`DocumentAssumption` (a resolved element has one property map, with one live slot
for a property, which `Cascade`'s `Arena` shows) and `HashAssumption` (external: md5
does not collide on the ids of a document, and no id is itself such a hash).

**HtmlTree.** `TypeCorrect`; `NamespaceRight` (`NamespaceFromContext`); `AllParsed`
(`EverythingParsed`), for documents of any length, and for the parse of what was
written as for that of the source. `TypeOK` says that each call's `foreign` counts
the open `svg` and `math` elements of its own text, and is not inductive: it says
nothing of what is still to be parsed. The invariant `Parsing` adds three things.
Of each call (`Call`): its `cur` is a node of its own text, and of the elements that
will be parsed again only the one whose raw text or end tag comes next is open, so
that what is opened later is counted by the call that opens it. Of the stack
(`Stacked`): a call waits at the raw element whose text the next one reads, as the
last thing of its own tree. Of the tree (`Encloses`): what comes after an element
still open is inside it, so the text to be parsed again is the last node, and
replacing it by its children disturbs no ancestor. With that, `CallInto` and
`CallOut` follow the count through openings and the pops of an end tag.
`NamespaceRight` then needs only that a node's namespace is fixed when the count is
right (`Ns`). For `EverythingParsed`, `Accounted` is an account: what the document
says is what the tree says followed by what the tokenizers of all calls have left,
the innermost first. A token read passes from one side to the other
(`KeepsReading`, `KeepsAppended`); raw text to be parsed again goes from the tree
back to the calls, to the one that parses it (`EndTagAccounted`). That the tree can be written is by induction from its last
node (`RenderTyped`). Needs `DocumentsAssumption` (typing).

**CodeBlocks** (in `InlinerProofs`: `InlineBytes` encodes the document before the
pass and decodes what it wrote). `CodeTypeCorrect` (`CodeTypeOK`);
`NoBlockReachesTheParser` (`ParserSeesNoBlock`); `DecoderStaysInBounds`
(`StaysInBounds`); `DecodingRestores` (`RoundTrip`), for documents of any length with
any number of blocks, in any base, under any width of an int that holds their length.
None of them is inductive, as they say nothing of what is between the ends. The
invariant `CodeInv` adds what a text in between *is*. While encoding, `Encodes`: the
output is the document up to the last block found, in the document's own parts
(`Past` to `Till`), with the placeholder of each block at a known offset; nothing
opens between two blocks (`Clean`). When that is complete it is `Whole`, and after
the pass `Copied`: once, or twice with other text between. From there every atom of
the text is an atom of a part or of a placeholder (`CodeReads`, `PlainReads`). The
numbers rest on `NumeralWorth` (the numeral of `n` is worth `n`, by induction over the
recursive `Numeral` and the fold of `Written`), `PlaceholderReads` (so a placeholder
reads as its number) and `WrapIs` (a number below `IntHalf`, as that of a block is,
is read as itself). A placeholder the document
contains is alike in the copy (`Alike`, `SameNumber`), so that an index out of bounds
is a number which the document itself writes and an int does not hold (`PanicIs`).
While decoding, `Walks`: what has been written is the document restored up to where
the decoder reads, in the copy it reads. `WalkOn` carries that over text without a
prefix, `WalkBlock` over a placeholder and the `=""` behind it, `WalkEnds` to the
end. Needs `DocumentsAssumption` (documents are sequences, their length an int) and
`AtomsAssumption` (the atoms differ: the digits, what surrounds them, and what
opens a block).

**Induction.** The library's induction theorems take an operator as a parameter,
which the installed provers cannot instantiate. `InductionLemmas` states induction
over a *set* of numbers instead (`SetInduction`, from the least counterexample),
and from it what `FlattenSeq`, a fold, returns (`FlattenIs`); so what the recursive
functions of these modules compute is proved, not only model-checked.

Only model-checked, and why: all liveness (`WalkEnds`, `ResolutionEnds`,
`ParseEnds`, `ExpansionEnds`), which is beyond the prover; every property of
`Selectors`, which declares RECURSIVE operators (a list holds arms); and
`RenderedAgain` of `HtmlTree`, which compares the trees of two parses, the second of
a text that a recursion over the first has written: it would take an invariant that
runs both parses side by side, with the four exceptions in it, and was not attempted.
Every other invariant of the passing runs, and the refinement, is a theorem.

## 7. Disagreements found

Three are runs that TLC refutes, each a line of the source's own words:

1. `rule_index_escapes`: "calls fn for every rule that matches" (`ruleset.go:61`),
   but a class, id or tag written with an escape is filed under its spelling and
   never found.
2. `code_blocks_skipped`: "skip past the prefix and keep looking"
   (`codeblocks.go:110`), but the text up to and including a prefix that is not a
   placeholder's is lost if a placeholder follows.
3. `selectors_exact`: "expanding is exact here" (`selector.go:125`), but a type
   selector spliced in behind another name becomes part of it: `.c:is(p)` is
   compiled as `.cp`.

The others follow from the modelled definitions and are excepted, by name, in the
properties they touch:

* "drops custom properties" (`inline.go:109`): an element that declares nothing else
  keeps those of its style attribute (`props.go:128`), as `CustomStaysOnlyAlone`
  says.
* "keeps the literal !important suffix on inlined values" (`inline.go:94`): not on
  values from the style attribute (`props.go:190`), although they are written back
  by the same function; with the option on, the important value of the attribute
  can then lose, in the reader's cascade, to a value it beat, where a shorthand
  and a longhand overlap. Hence the hypothesis of `AttributeMeansCascade`;
  `EachPropertyMeansCascade` has none.
* "nested rulesets and declarations accumulate into the block being preserved"
  (`css.go:78`): custom properties do not (`css.go:150`); `PreservedAsWritten` leaves
  them out.
* "an ancestor's variables are always substituted before a descendant reads them"
  (`variables.go:11`): custom properties are never substituted (`variables.go:25`);
  a nested reference takes the reader's definitions, and `ResolvedIsExpansion` is
  stated with them.
* "finds a custom property on the element or its nearest ancestor"
  (`variables.go:83`): `lookupVar` asks for no leading `--`, so `var(color)` finds an
  ordinary property, which resolution may or may not have rewritten by then. Hence
  `NameAssumption` in `Variables`.
* "parenEnd falls back to the end of input when the parenthesis is never closed, which
  is not a usable span" (`variables.go:55`): it is used when the value ends in a `)`
  that closes something else. `var(--a, var(--b)` is replaced by the value of `--a`;
  if nothing declares it, by the fallback `var(--b`. `Usable` says so, and
  `NoneResolvableLeft` excuses what follows an unclosed `var(` only where the code
  does stop.
* "Rules that cannot be inlined are kept regardless" (`inline.go:79`): not those of a
  style element that `removeStyleTags` removes unread, because `applyStyleTags` is off
  (`inline.go:240`) or because it is not exactly one text (`inline.go:226`). Its `@media`
  blocks and `:hover` rules are lost. `NothingReadIsLost` (`Heard`) and the theorem
  about it claim nothing of such an element.
* "ExtraCSS is appended to the CSS collected from the document" (`inline.go:72`): its
  numbers start at 256 per rule (`inline.go:193`) and can lie below those of the
  document; it then loses ties. `ExtraCSSWinsFromItsBase` has that as its condition.
* Decoding reads a placeholder's number into an int without a limit
  (`codeblocks.go:105`). A number in the document that an int cannot hold may wrap
  to a negative one and index outside the blocks, although `fuzz_test.go:11` says
  that inlining never panics. `StaysInBounds`: nothing else can.
* Only `<a>` saves the id it links to (`attrs.go:25`), but the href of any element is
  rewritten (`attrs.go:57`): an `<area>` loses its target unless an anchor
  has the same one, although "rewriting internal anchors" (`inline.go:124`) sounds like
  none would. `LinksKeepTargets` neither asks for that target nor for its loss.
* "Conditional comments are kept" (`inline.go:130`): `isConditionalComment` asks for
  `<!--[` (`attrs.go:77`), so `<!--<![endif]-->`, the closing half of a downlevel-revealed
  one, is removed. `CleanedEverywhere` says nothing of such a comment.
* "The text is irrelevant because expandFunctional rewrites it" (`selector.go:245`):
  not when the cap has ended the expansion; a `:where()` left is dropped from the
  text, and the variant matches more than the arm. `CapOnlyLoses` excepts such arms.
* An ignored pseudo-class in an alternative of a list, as in `:is(a:hover, b)`, drops
  that alternative (`selector.go:109`) and preserves nothing, whereas `a:hover, b`
  preserves the ruleset. `ExpansionExact` takes `:hover` to match no element.
* What is written parses to the tree it was written from (`RenderedAgain`) but for
  an element made for an unmatched end tag in foreign content (it has no namespace
  until parsed again), raw text cut off by the end of the document, a childless
  raw element in foreign content (written as closed, which the tokenizer does not
  heed), and a raw element inside one of its own name.

## 8. What is not modelled, and why

* The libraries: not in the repository; each is modelled as its caller's
  environment (`Match`, `Parses`, the grammar events, the tokens).
* CSS nesting: an at-rule or ruleset inside a ruleset is not among the inputs of
  `Stylesheet`; the project's README lists nesting as not implemented.
* In `Cascade`, how a style attribute is split into declarations, and in
  `Variables`, a `var(` that only arises where two pieces meet, and a reference that
  names an ordinary property.
* In `Inliner`, which element hosts the preserved CSS.
* The elements applyRules passes over unvisited (`nonVisualElements`, `inline.go:267`):
  in `RuleIndex` and `Cascade` they are like elements that nothing matches.
* In `Selectors`, malformed text (unclosed parentheses, stray quotes), `:has()` and
  its rewriting, the quoting of attribute values; in `HtmlTree`, the scanning of
  tags and attributes, text outside raw elements, CDATA and the escaping of
  attribute values: character-level functions without state.
* In `CodeBlocks`, delimiters that share characters; in `Attrs`, the characters of a
  value (`100 !important` under `PreserveImportant` is promoted with its suffix).
* Wording and layout of the output, the options' setters, and the test tooling.

## 9. Plan

Order: what decides the output first. Done: 1-13.

1. `Specificity`, `CascadeSpec`, `Cascade` and the proofs about them.
2. `RuleIndex`. 3. `Stylesheet`. 4. `Variables`. 5. `Inliner`.
6. Proofs of the core: type correctness, the winner, the refinement.
7. `HtmlTree`. 8. `CodeBlocks`. 9. `Attrs`. 10. `Selectors`.
11. Proofs about `RuleIndex`, `Stylesheet`, `Inliner` and `Attrs`, and the rest of
    `Cascade`.
12. Proofs about `Variables`.
13. Proofs about `HtmlTree` and `CodeBlocks`, and `NoneResolvableLeft`.
14. Next: a proof of `RenderedAgain`; `Selectors` with a recursive function instead
    of operators, so that its properties can be proved, too.
