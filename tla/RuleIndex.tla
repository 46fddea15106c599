----------------------------- MODULE RuleIndex -----------------------------
(***************************************************************************)
(* The rightmost-key rule index (ruleset.go).                              *)
(*                                                                         *)
(* newRuleSet puts every rule into one bucket, chosen by the rightmost     *)
(* compound of its selector.  forEach then visits an element: it gathers   *)
(* the buckets the element's own id, classes and tag can reach, and merges *)
(* them in ascending rule number, testing each candidate.  The lists and   *)
(* the positions of the merge live in a scratch that all visits share.     *)
(*                                                                         *)
(* Rules, lists and positions are numbered from 1; pos[l] counts the       *)
(* candidates of list l already taken, as in the code.                     *)
(***************************************************************************)
EXTENDS Naturals, Sequences, FiniteSets, SequencesExt

CONSTANTS
    Ident,      \* identifiers: ids, class tokens and tag names, as bytes
    NoIdent,    \* the absence of one
    Denotes,    \* what an identifier written in a selector means once escapes
                \* are resolved: itself, unless it holds a backslash
    Selectors,  \* rightmost compounds a stylesheet may hold
    Elements,   \* elements a document may hold
    Sheets,     \* sequences of Selectors: the compiled rules
    Pages       \* sequences of Elements, in document order

(* A selector, as far as the index is concerned: the simple selectors written
   directly in its rightmost compound, and the elements that satisfy the rest
   of it (other compounds, attributes, pseudo-classes). *)
Selector == [ids : Seq(Ident), classes : Seq(Ident), tag : Ident \union {NoIdent},
             rest : SUBSET Elements]

(* An element: its id, its class attribute split at white space, and its tag.
   classFirst says which of the two attributes is written first. *)
Element == [id : Ident \union {NoIdent}, class : Seq(Ident), tag : Ident,
            classFirst : BOOLEAN]

ASSUME IdentAssumption ==
    /\ NoIdent \notin Ident
    /\ Denotes \in [Ident -> Ident]
    /\ Elements \subseteq Element
    /\ Selectors \subseteq Selector

ASSUME InputsAssumption == Sheets \subseteq Seq(Selectors) /\ Pages \subseteq Seq(Elements)

VARIABLES
    sheet,    \* ruleSet.rules
    page,     \* the elements the document walk meets
    phase,    \* what the code is doing
    indexed,  \* how many rules newRuleSet has placed
    buckets,  \* byID, byClass, byTag and any
    node,     \* the element being visited
    asked,    \* how many of the buckets it can reach add was called on
    lists,    \* scratch.lists
    pos,      \* scratch.pos
    tested    \* the candidates of this visit, in the order they were tested

vars == <<sheet, page, phase, indexed, buckets, node, asked, lists, pos, tested>>

-----------------------------------------------------------------------------
(* Which bucket *)

Kind == {"id", "class", "tag", "any"}

(* The name of a bucket: which of the four maps, and the key in it. *)
Ref == Kind \X (Ident \union {NoIdent})

AnyRef == <<"any", NoIdent>>

(* The id, else a class, else the tag of the rightmost compound, as written. *)
rightmostKey(r) ==
    IF r.ids # <<>> THEN <<"id", r.ids[1]>>
    ELSE IF r.classes # <<>> THEN <<"class", r.classes[1]>>
    ELSE IF r.tag # NoIdent THEN <<"tag", r.tag>>
    ELSE AnyRef

(* The matcher's verdict. *)
Match(r, el) ==
    /\ \A x \in DOMAIN r.ids : el.id = Denotes[r.ids[x]]
    /\ \A x \in DOMAIN r.classes : \E y \in DOMAIN el.class : el.class[y] = Denotes[r.classes[x]]
    /\ r.tag # NoIdent => el.tag = Denotes[r.tag]
    /\ el \in r.rest

(* Mutant of classRefs: only the first token of a class attribute counts. *)
classRefs_FirstToken(el) ==
    IF el.class = <<>> THEN <<>> ELSE <<<<"class", el.class[1]>>>>

(* The buckets the tokens of a class attribute name. *)
classRefs(el) == [x \in DOMAIN el.class |-> <<"class", el.class[x]>>]

idRefs(el) == IF el.id = NoIdent THEN <<>> ELSE <<<<"id", el.id>>>>

(* The buckets an element's own names lead to, in the order forEach asks. *)
reachable(el) ==
    (IF el.classFirst THEN classRefs(el) \o idRefs(el) ELSE idRefs(el) \o classRefs(el))
        \o <<<<"tag", el.tag>>, AnyRef>>

-----------------------------------------------------------------------------
(* The merge *)

Pending(l) == pos[l] < Len(buckets[lists[l]])

Candidate(l) == buckets[lists[l]][pos[l] + 1]

(* The list whose next candidate is the smallest, the first one of several. *)
IsBest(l) ==
    /\ Pending(l)
    /\ \A m \in DOMAIN lists : Pending(m) =>
          Candidate(l) < Candidate(m) \/ (Candidate(l) = Candidate(m) /\ l <= m)

-----------------------------------------------------------------------------

Init ==
    /\ sheet \in Sheets
    /\ page \in Pages
    /\ phase = "index"
    /\ indexed = 0
    /\ buckets = [ref \in Ref |-> <<>>]
    /\ node = 1
    /\ asked = 0
    /\ lists = <<>>
    /\ pos = <<>>
    /\ tested = <<>>

(* newRuleSet places the next rule. *)
IndexRule ==
    /\ phase = "index"
    /\ indexed < Len(sheet)
    /\ indexed' = indexed + 1
    /\ buckets' = [buckets EXCEPT ![rightmostKey(sheet[indexed + 1])] =
                      Append(@, indexed + 1)]
    /\ UNCHANGED <<sheet, page, phase, node, asked, lists, pos, tested>>

IndexDone ==
    /\ phase = "index"
    /\ indexed = Len(sheet)
    /\ phase' = "visit"
    /\ UNCHANGED <<sheet, page, indexed, buckets, node, asked, lists, pos, tested>>

(* forEach starts on an element: the lists of the scratch are emptied. *)
Visit ==
    /\ phase = "visit"
    /\ node <= Len(page)
    /\ asked' = 0
    /\ lists' = <<>>
    /\ tested' = <<>>
    /\ phase' = "gather"
    /\ UNCHANGED <<sheet, page, indexed, buckets, node, pos>>

Asking == phase = "gather" /\ asked < Len(reachable(page[node]))

(* The bucket add is called on next. *)
Asked == reachable(page[node])[asked + 1]

(* Mutant of Add: the same bucket may be queued twice. *)
Add_Repeats ==
    /\ Asking
    /\ asked' = asked + 1
    /\ lists' = IF buckets[Asked] = <<>> THEN lists ELSE Append(lists, Asked)
    /\ UNCHANGED <<sheet, page, phase, indexed, buckets, node, pos, tested>>

(* add queues a bucket that holds rules, once: class="a a" would otherwise
   queue the same bucket twice. *)
Add ==
    /\ Asking
    /\ asked' = asked + 1
    /\ lists' = IF buckets[Asked] = <<>> \/ \E l \in DOMAIN lists : lists[l] = Asked
                THEN lists ELSE Append(lists, Asked)
    /\ UNCHANGED <<sheet, page, phase, indexed, buckets, node, pos, tested>>

(* Mutant of Gathered: the positions of the previous visit are kept. *)
Gathered_StalePos ==
    /\ phase = "gather"
    /\ ~Asking
    /\ pos' = [l \in DOMAIN lists |-> IF l \in DOMAIN pos THEN pos[l] ELSE 0]
    /\ phase' = "merge"
    /\ UNCHANGED <<sheet, page, indexed, buckets, node, asked, lists, tested>>

(* The merge starts: with no list it ends before it touches the positions. *)
Gathered ==
    /\ phase = "gather"
    /\ ~Asking
    /\ pos' = IF lists = <<>> THEN pos ELSE [l \in DOMAIN lists |-> 0]
    /\ phase' = "merge"
    /\ UNCHANGED <<sheet, page, indexed, buckets, node, asked, lists, tested>>

(* Mutant of Take: a candidate that does not match is not passed over. *)
Take_OnlyMatches(l) ==
    /\ phase = "merge"
    /\ IsBest(l)
    /\ Match(sheet[Candidate(l)], page[node])
    /\ pos' = [pos EXCEPT ![l] = @ + 1]
    /\ tested' = Append(tested, Candidate(l))
    /\ UNCHANGED <<sheet, page, phase, indexed, buckets, node, asked, lists>>

(* The smallest candidate is taken off its list and tested; fn is called on
   it if it matches. *)
Take(l) ==
    /\ phase = "merge"
    /\ IsBest(l)
    /\ pos' = [pos EXCEPT ![l] = @ + 1]
    /\ tested' = Append(tested, Candidate(l))
    /\ UNCHANGED <<sheet, page, phase, indexed, buckets, node, asked, lists>>

(* Every list is exhausted: forEach returns. *)
Leave ==
    /\ phase = "merge"
    /\ \A l \in DOMAIN lists : ~Pending(l)
    /\ phase' = "left"
    /\ UNCHANGED <<sheet, page, indexed, buckets, node, asked, lists, pos, tested>>

NextNode ==
    /\ phase = "left"
    /\ phase' = "visit"
    /\ node' = node + 1
    /\ UNCHANGED <<sheet, page, indexed, buckets, asked, lists, pos, tested>>

Finished == phase = "visit" /\ node > Len(page)

Done == Finished /\ UNCHANGED vars

Next ==
    \/ IndexRule
    \/ IndexDone
    \/ Visit
    \/ Add
    \/ Gathered
    \/ \E l \in DOMAIN lists : Take(l)
    \/ Leave
    \/ NextNode
    \/ Done

Spec == Init /\ [][Next]_vars

(* The code is sequential and no step of it waits for anything. *)
FairSpec == Spec /\ WF_vars(Next)

-----------------------------------------------------------------------------
(* Properties *)

(* The shape of the state; no position runs past its list. *)
TypeOK ==
    /\ sheet \in Seq(Selectors)
    /\ page \in Seq(Elements)
    /\ phase \in {"index", "visit", "gather", "merge", "left"}
    /\ indexed \in 0..Len(sheet)
    /\ buckets \in [Ref -> Seq(1..indexed)]
    /\ node \in Nat \ {0}
    /\ phase \in {"gather", "merge", "left"} => node \in DOMAIN page
    /\ asked \in Nat
    /\ lists \in Seq(Ref)
    /\ phase \in {"merge", "left"} /\ lists # <<>> =>
         /\ DOMAIN pos = DOMAIN lists
         /\ \A l \in DOMAIN lists : pos[l] \in 0..Len(buckets[lists[l]])
    /\ tested \in Seq(1..indexed)

(***************************************************************************)
(* "A k-way merge yields every candidate once, in order" (ruleset.go): a   *)
(* visit tests candidates in strictly ascending rule number, so no rule is *)
(* applied twice to an element, and none after one that follows it in the  *)
(* stylesheet.  This rests on the buckets being ascending and disjoint, on *)
(* no bucket being queued twice, and on the scratch being fresh.           *)
(***************************************************************************)
CandidatesAscend ==
    \A x, y \in DOMAIN tested : x < y => tested[x] < tested[y]

(* The candidates fn has been called on in this visit. *)
Called == {k \in ToSet(tested) : Match(sheet[k], page[node])}

(***************************************************************************)
(* "forEach calls fn for every rule that matches n, in stylesheet order":  *)
(* when it returns, the candidates it has called fn on are exactly the     *)
(* rules a brute-force test of every rule would have found, so the index   *)
(* loses no match.                                                         *)
(***************************************************************************)
EveryMatchCalled ==
    phase = "left" => Called = {k \in DOMAIN sheet : Match(sheet[k], page[node])}

(* The walk gets through the document: every visit's merge ends. *)
WalkEnds == <>Finished

=============================================================================
