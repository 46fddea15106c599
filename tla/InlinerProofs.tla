--------------------------- MODULE InlinerProofs ---------------------------
(***************************************************************************)
(* Proofs about module Inliner, for any document, any ExtraCSS and any     *)
(* options: between equals the last style element wins, ExtraCSS wins when *)
(* its base lies beyond the numbers before it, and what is read and cannot *)
(* be inlined survives once.                                               *)
(*                                                                         *)
(* Then about module CodeBlocks, which works on the document before and    *)
(* after that pass, for any documents, any delimiters and any width of an  *)
(* int: the parser sees no template expression, and decoding restores the  *)
(* document.                                                               *)
(***************************************************************************)
EXTENDS Inliner, CodeBlocks, InductionLemmas, FiniteSetTheorems

-----------------------------------------------------------------------------
(* The numbers of declarations *)

(* What the recursive function in Before is, up to statement n. *)
CountUpTo(sheet, n, f) == f = [k \in 0..n |-> IF k = 0 THEN 0 ELSE f[k - 1] + sheet[k].decls]

(* The recursive count of a sheet's declarations has a value. *)
LEMMA CountExists ==
    ASSUME NEW sheet, NEW m \in Nat
    PROVE  \E f : CountUpTo(sheet, m, f)
<1> DEFINE G == {n \in Nat : \E f : CountUpTo(sheet, n, f)}
<1>1. 0 \in G
  <2>1. CountUpTo(sheet, 0, [k \in 0..0 |-> 0])
    BY DEF CountUpTo
  <2> QED  BY <2>1
<1>2. ASSUME NEW n \in Nat, n \in G
      PROVE  n + 1 \in G
  <2>1. PICK f : CountUpTo(sheet, n, f)
    BY <1>2
  <2> DEFINE g == [k \in 0..(n + 1) |-> IF k = n + 1 THEN f[k - 1] + sheet[k].decls ELSE f[k]]
  <2>2. \A k \in 0..n : f[k] = IF k = 0 THEN 0 ELSE f[k - 1] + sheet[k].decls
    BY <2>1 DEF CountUpTo
  <2>3. \A k \in 0..(n + 1) : g[k] = IF k = 0 THEN 0 ELSE g[k - 1] + sheet[k].decls
    BY <2>2
  <2>4. CountUpTo(sheet, n + 1, g)
    BY <2>3 DEF CountUpTo
  <2> QED  BY <2>4
<1> HIDE DEF G
<1>3. m \in G
  BY <1>1, <1>2, SetInduction
<1> QED  BY <1>3 DEF G

(* Before counts up: it never falls, and it grows over a statement that has
   declarations. *)
LEMMA BeforeIs ==
    ASSUME NEW sheet \in Sheet
    PROVE  /\ \A k \in 0..Len(sheet) : Before(sheet)[k] \in Nat
           /\ \A k \in DOMAIN sheet : Before(sheet)[k] = Before(sheet)[k - 1] + sheet[k].decls
           /\ \A j, k \in 0..Len(sheet) : j <= k => Before(sheet)[j] <= Before(sheet)[k]
<1> DEFINE B == Before(sheet)
<1>1. /\ Len(sheet) \in Nat /\ DOMAIN sheet = 1..Len(sheet)
      /\ \A k \in DOMAIN sheet : sheet[k].decls \in Nat
  <2>1. \A k \in DOMAIN sheet : sheet[k] \in Statement
    BY ElementOfSeq DEF Sheet
  <2> QED  BY <2>1, InlinerAssumption DEF Sheet
<1>2. CountUpTo(sheet, Len(sheet), B)
  <2>1. B = CHOOSE f : CountUpTo(sheet, Len(sheet), f)
    BY Zenon DEF Before, CountUpTo
  <2>2. \E f : CountUpTo(sheet, Len(sheet), f)
    BY <1>1, CountExists
  <2> HIDE DEF B
  <2> QED  BY <2>1, <2>2, Zenon
<1> HIDE DEF B
<1>3. \A k \in 0..Len(sheet) : B[k] = IF k = 0 THEN 0 ELSE B[k - 1] + sheet[k].decls
  BY <1>2 DEF CountUpTo
<1> DEFINE P(k) == k \in 0..Len(sheet) => B[k] \in Nat /\ \A j \in 0..k : B[j] \in Nat /\ B[j] <= B[k]
           G == {k \in Nat : P(k)}
<1>4. 0 \in G
  BY <1>1, <1>3
<1>5. ASSUME NEW k \in Nat, k \in G
      PROVE  k + 1 \in G
  <2>1. CASE k + 1 \in 0..Len(sheet)
    <3>1. k \in 0..Len(sheet) /\ k + 1 \in DOMAIN sheet /\ (k + 1) - 1 = k
      BY <1>1, <2>1
    <3>2. B[k] \in Nat /\ \A j \in 0..k : B[j] \in Nat /\ B[j] <= B[k]
      BY <1>5, <3>1
    <3>3. B[k + 1] = B[k] + sheet[k + 1].decls /\ sheet[k + 1].decls \in Nat
      BY <1>1, <1>3, <2>1, <3>1
    <3>4. \A j \in 0..(k + 1) : j \in 0..k \/ j = k + 1
      OBVIOUS
    <3> QED  BY <3>2, <3>3, <3>4
  <2>2. CASE k + 1 \notin 0..Len(sheet)
    BY <2>2
  <2> QED  BY <2>1, <2>2
<1> HIDE DEF G
<1>6. \A k \in Nat : k \in G
  BY <1>4, <1>5, SetInduction
<1>7. \A k \in 0..Len(sheet) : B[k] \in Nat /\ \A j \in 0..k : B[j] <= B[k]
  BY <1>1, <1>6 DEF G
<1>8. \A k \in DOMAIN sheet : B[k] = B[k - 1] + sheet[k].decls
  BY <1>1, <1>3
<1> QED  BY <1>1, <1>7, <1>8 DEF B

-----------------------------------------------------------------------------
(* What a stylesheet compiles to *)

SameStatement(a, b) == a.src = b.src /\ a.stmt = b.stmt

(* The numbers of b are greater, or those of the same statement. *)
NotBefore(a, b) == a.to < b.to \/ (SameStatement(a, b) /\ a.to = b.to)

(* The rules of a stylesheet come numbered in the order of its statements,
   from first on. *)
LEMMA RulesOfIs ==
    ASSUME NEW src \in Nat, NEW sheet \in Sheet, NEW first \in Nat
    PROVE  LET R == RulesOf(src, sheet, first)
           IN  /\ R \in Seq(Rule)
               /\ \A d \in DOMAIN R : /\ R[d].src = src
                                      /\ R[d].to >= first
                                      /\ R[d].to < first + Before(sheet)[Len(sheet)]
               /\ \A d, k \in DOMAIN R : d < k => NotBefore(R[d], R[k])
<1> DEFINE B == Before(sheet)
           rule(k) == [src |-> src, stmt |-> k, from |-> first + B[k - 1], to |-> first + B[k] - 1]
           arms(k) == [v \in 1..sheet[k].rules |-> rule(k)]
           all == [k \in DOMAIN sheet |-> arms(k)]
           R == RulesOf(src, sheet, first)
<1>1. /\ Len(sheet) \in Nat /\ DOMAIN sheet = 1..Len(sheet)
      /\ \A k \in DOMAIN sheet : /\ sheet[k].rules \in Nat /\ sheet[k].decls \in Nat
                                 /\ sheet[k].rules > 0 => sheet[k].decls > 0
  <2>1. \A k \in DOMAIN sheet : sheet[k] \in Statement
    BY ElementOfSeq DEF Sheet
  <2> QED  BY <2>1, InlinerAssumption DEF Sheet
<1>2. R = FlattenSeq(all)
  BY DEF RulesOf
<1>3. /\ \A k \in 0..Len(sheet) : B[k] \in Nat
      /\ \A k \in DOMAIN sheet : B[k] = B[k - 1] + sheet[k].decls
      /\ \A j, k \in 0..Len(sheet) : j <= k => B[j] <= B[k]
  BY BeforeIs
<1> HIDE DEF B
<1>4. ASSUME NEW k \in DOMAIN sheet, sheet[k].rules > 0
      PROVE  /\ rule(k) \in Rule
             /\ rule(k).to >= first
             /\ rule(k).to < first + B[Len(sheet)]
             /\ rule(k).to >= first + B[k - 1]
             /\ rule(k).to < first + B[k]
  <2>1. k \in Nat /\ k - 1 \in 0..Len(sheet) /\ k \in 0..Len(sheet) /\ Len(sheet) \in 0..Len(sheet)
    BY <1>1
  <2>2. B[k - 1] \in Nat /\ B[k] \in Nat /\ B[Len(sheet)] \in Nat /\ B[k] <= B[Len(sheet)]
    BY <1>1, <1>3, <2>1
  <2>3. B[k] > B[k - 1]
    BY <1>1, <1>3, <1>4, <2>2
  <2>4. first + B[k] - 1 \in Nat /\ first + B[k - 1] \in Nat
    BY <2>2, <2>3, SMTT(30)
  <2> QED  BY <2>1, <2>2, <2>3, <2>4, SMTT(30) DEF Rule
<1>5. all \in Seq(Seq(Rule))
  <2>1. ASSUME NEW k \in DOMAIN sheet
        PROVE  arms(k) \in Seq(Rule)
    <3>1. CASE sheet[k].rules > 0
      <4>1. rule(k) \in Rule /\ sheet[k].rules \in Nat
        BY <1>1, <1>4, <3>1
      <4> HIDE DEF rule
      <4>2. arms(k) \in [1..sheet[k].rules -> Rule]
        BY <4>1
      <4> QED  BY <4>1, <4>2, SeqDef
    <3>2. CASE ~(sheet[k].rules > 0)
      <4>1. 1..sheet[k].rules = {}
        BY <1>1, <3>2
      <4> HIDE DEF rule
      <4>2. arms(k) \in [1..0 -> Rule]
        BY <4>1
      <4> QED  BY <4>2, SeqDef, ZenonT(60)
    <3> QED  BY <3>1, <3>2
  <2> HIDE DEF arms
  <2>2. all \in [1..Len(sheet) -> Seq(Rule)]
    BY <1>1, <2>1
  <2> QED  BY <1>1, <2>2, SeqDef
<1>6. /\ DOMAIN all = DOMAIN sheet
      /\ \A k \in DOMAIN sheet : all[k] = arms(k)
  OBVIOUS
<1>7. \A k \in DOMAIN sheet : \A j \in DOMAIN arms(k) : sheet[k].rules > 0 /\ arms(k)[j] = rule(k)
  <2> TAKE k \in DOMAIN sheet
  <2>1. sheet[k].rules \in Nat
    BY <1>1
  <2> HIDE DEF rule
  <2> QED  BY <2>1
<1> HIDE DEF all, arms
<1>8. R \in Seq(Rule)
  BY <1>2, <1>5, FlattenOrigins
<1>9. PICK from \in [DOMAIN R -> DOMAIN sheet] :
        /\ \A d \in DOMAIN R : \E j \in DOMAIN all[from[d]] : R[d] = all[from[d]][j]
        /\ \A d, k \in DOMAIN R : d < k => from[d] <= from[k]
  <2>1. \E from \in [DOMAIN FlattenSeq(all) -> DOMAIN all] :
           /\ \A d \in DOMAIN FlattenSeq(all) :
                 \E j \in DOMAIN all[from[d]] : FlattenSeq(all)[d] = all[from[d]][j]
           /\ \A d, k \in DOMAIN FlattenSeq(all) : d < k => from[d] <= from[k]
    BY <1>5, FlattenOrigins, Zenon
  <2> HIDE DEF R
  <2> QED  BY <1>2, <1>6, <2>1
<1> HIDE DEF R
<1>10. ASSUME NEW d \in DOMAIN R
       PROVE  from[d] \in DOMAIN sheet /\ sheet[from[d]].rules > 0 /\ R[d] = rule(from[d])
  <2>1. from[d] \in DOMAIN sheet
    BY <1>9
  <2>2. PICK j \in DOMAIN all[from[d]] : R[d] = all[from[d]][j]
    BY <1>9
  <2> HIDE DEF rule
  <2> QED  BY <1>6, <1>7, <2>1, <2>2
<1>11. \A d \in DOMAIN R : R[d].src = src /\ R[d].to >= first /\ R[d].to < first + B[Len(sheet)]
  BY <1>4, <1>10
<1>12. ASSUME NEW d \in DOMAIN R, NEW k \in DOMAIN R, d < k
       PROVE  NotBefore(R[d], R[k])
  <2> DEFINE a == from[d]
             b == from[k]
  <2>1. /\ a \in DOMAIN sheet /\ b \in DOMAIN sheet /\ a <= b
        /\ sheet[a].rules > 0 /\ sheet[b].rules > 0
        /\ R[d] = rule(a) /\ R[k] = rule(b)
    BY <1>9, <1>10, <1>12
  <2> HIDE DEF a, b
  <2>2. CASE a = b
    <3>1. rule(a).to \in Nat
      BY <1>4, <2>1 DEF Rule
    <3> QED  BY <2>1, <2>2 DEF NotBefore, SameStatement
  <2>3. CASE a # b
    <3>1. a \in 0..Len(sheet) /\ b - 1 \in 0..Len(sheet) /\ b \in 0..Len(sheet) /\ a <= b - 1
      BY <1>1, <2>1, <2>3
    <3>2. B[a] \in Nat /\ B[b - 1] \in Nat /\ B[a] <= B[b - 1]
      BY <1>3, <3>1
    <3>3. rule(a).to < first + B[a] /\ rule(b).to >= first + B[b - 1]
      BY <1>4, <2>1
    <3>4. rule(a).to \in Nat /\ rule(b).to \in Nat
      <4>1. rule(a) \in Rule /\ rule(b) \in Rule
        BY <1>4, <2>1
      <4> HIDE DEF rule
      <4> QED  BY <4>1 DEF Rule
    <3> HIDE DEF rule
    <3>5. rule(a).to < rule(b).to
      BY <3>2, <3>3, <3>4
    <3> QED  BY <2>1, <3>5 DEF NotBefore
  <2> QED  BY <2>2, <2>3
<1> QED  BY <1>8, <1>11, <1>12 DEF R, B

(* What is preserved of a stylesheet is a sequence of its statements. *)
LEMMA KeptOfIs ==
    ASSUME NEW src \in Nat, NEW sheet \in Sheet
    PROVE  KeptOf(src, sheet) \in Seq(Nat \X Nat)
<1> DEFINE piece(k) == IF sheet[k].kept THEN <<<<src, k>>>> ELSE <<>>
           all == [k \in DOMAIN sheet |-> piece(k)]
<1>1. Len(sheet) \in Nat /\ DOMAIN sheet = 1..Len(sheet)
  BY DEF Sheet
<1>2. \A k \in DOMAIN sheet : piece(k) \in Seq(Nat \X Nat)
  <2> TAKE k \in DOMAIN sheet
  <2>1. <<src, k>> \in Nat \X Nat
    BY <1>1
  <2>2. <<<<src, k>>>> \in Seq(Nat \X Nat) /\ <<>> \in Seq(Nat \X Nat)
    BY <2>1
  <2> QED  BY <2>2
<1>3. KeptOf(src, sheet) = FlattenSeq(all)
  BY DEF KeptOf
<1> HIDE DEF piece
<1>4. all \in [1..Len(sheet) -> Seq(Nat \X Nat)]
  BY <1>1, <1>2
<1>5. all \in Seq(Seq(Nat \X Nat))
  BY <1>1, <1>4, SeqDef
<1> HIDE DEF all
<1> QED  BY <1>3, <1>5, FlattenOrigins

(* The statements of a sheet are listed as pairs of source and position. *)
LEMMA SourceOfIs ==
    ASSUME NEW src \in Nat, NEW sheet \in Sheet
    PROVE  SourceOf(src, sheet) \in Seq(Nat \X Nat)
<1>1. Len(sheet) \in Nat /\ DOMAIN sheet = 1..Len(sheet)
  BY DEF Sheet
<1>2. SourceOf(src, sheet) \in [1..Len(sheet) -> Nat \X Nat]
  BY <1>1 DEF SourceOf
<1> QED  BY <1>1, <1>2, SeqDef

(* An empty sheet leaves nothing to preserve. *)
LEMMA NothingKeptOfNothing ==
    ASSUME NEW src
    PROVE  KeptOf(src, <<>>) = <<>>
<1> DEFINE all == [k \in DOMAIN <<>> |-> IF <<>>[k].kept THEN <<<<src, k>>>> ELSE <<>>]
<1>1. all = <<>>
  OBVIOUS
<1>2. KeptOf(src, <<>>) = FlattenSeq(all)
  BY DEF KeptOf
<1> HIDE DEF all
<1> QED  BY <1>1, <1>2 DEF FlattenSeq

-----------------------------------------------------------------------------
(* The inductive invariant *)

(* The rules collected are the first m, and number less than ord; those of
   ExtraCSS number from m shares on. *)
Based ==
    \E m \in 0..Len(rules) :
        /\ \A r \in DOMAIN rules : rules[r].src \in DOMAIN page <=> r <= m
        /\ \A r \in DOMAIN rules : r <= m => rules[r].to < ord
        /\ \A r \in DOMAIN rules : r > m => rules[r].to >= Shift * m
        /\ phase = "collect" => m = Len(rules)

(* Rules are numbered in their order, in the style elements and in ExtraCSS. *)
Ascending ==
    \A r, s \in DOMAIN rules :
        r < s /\ (rules[r].src \in DOMAIN page <=> rules[s].src \in DOMAIN page) =>
            NotBefore(rules[r], rules[s])

(* The rules collected come from the style elements handled. *)
Taken ==
    IF phase = "collect" THEN \A r \in DOMAIN rules : rules[r].src < tag
    ELSE tag = Len(page) + 1

(* The first of the rules that no other outranks has won. *)
Won ==
    IF phase \in {"emit", "done"} /\ rules # <<>>
    THEN /\ winner \in DOMAIN rules
         /\ \A s \in DOMAIN rules : /\ s < winner => rules[winner].to > rules[s].to
                                    /\ s > winner => rules[s].to <= rules[winner].to
    ELSE winner = 0

(* What the output will hold of a style element that has been handled. *)
Outcome(t) ==
    IF ~removeStyleTags \/ (page[t].oneText /\ page[t].embed)
    THEN SourceOf(t, page[t].sheet)
    ELSE IF Applied(t) THEN KeptOf(t, page[t].sheet)
    ELSE <<>>

Survives ==
    \A t \in DOMAIN page :
        /\ t < tag => Surviving(t) = Outcome(t)
        /\ t >= tag => tags[t].present /\ tags[t].text = SourceOf(t, page[t].sheet)

(* What emitPreserved is given, and appends. *)
Handed ==
    /\ keep = IF phase = "collect" THEN <<>> ELSE KeptOf(ExtraSource, extra)
    /\ emitted = IF phase = "done" THEN keep ELSE <<>>

IInv ==
    /\ TypeOK
    /\ Based
    /\ Ascending
    /\ Taken
    /\ Won
    /\ Survives
    /\ Handed

-----------------------------------------------------------------------------
(* Steps *)

TagState == [present : BOOLEAN, embed : BOOLEAN, text : Seq(Nat \X Nat)]

(* What TypeOK says of the documents. *)
LEMMA PageIs ==
    ASSUME TypeOK
    PROVE  /\ Len(page) \in Nat /\ DOMAIN page = 1..Len(page)
           /\ \A t \in DOMAIN page : page[t] \in Tag /\ page[t].sheet \in Sheet
           /\ tags \in [DOMAIN page -> TagState]
<1>1. \A t \in DOMAIN page : page[t] \in Tag
  BY ElementOfSeq DEF TypeOK
<1> QED  BY <1>1 DEF TypeOK, Tag, TagState

(* Before any style element is handled. *)
LEMMA InitIInv == Init => IInv
<1> SUFFICES ASSUME Init PROVE IInv
  OBVIOUS
<1>1. page \in Seq(Tag) /\ extra \in Sheet
  BY InlinerAssumption DEF Init
<1>2. /\ Len(page) \in Nat /\ DOMAIN page = 1..Len(page)
      /\ \A t \in DOMAIN page : page[t] \in Tag
  BY <1>1, ElementOfSeq
<1>3. tags \in [DOMAIN page -> TagState]
  <2>1. ASSUME NEW t \in DOMAIN page
        PROVE  SourceOf(t, page[t].sheet) \in Seq(Nat \X Nat) /\ page[t].embed \in BOOLEAN
    <3>1. t \in Nat /\ page[t].sheet \in Sheet /\ page[t].embed \in BOOLEAN
      BY <1>2 DEF Tag
    <3> QED  BY <3>1, SourceOfIs
  <2>2. \A t \in DOMAIN page :
           [present |-> TRUE, embed |-> page[t].embed, text |-> SourceOf(t, page[t].sheet)] \in TagState
    BY <2>1 DEF TagState
  <2> QED  BY <2>2 DEF Init
<1>4. TypeOK
  BY <1>1, <1>2, <1>3 DEF Init, TypeOK, TagState
<1>5. Based /\ Ascending /\ Taken /\ Won /\ Handed
  BY <1>2 DEF Init, Based, Ascending, Taken, Won, Handed
<1>6. Survives
  BY <1>2 DEF Init, Survives
<1> QED  BY <1>4, <1>5, <1>6 DEF IInv

(* What the other style elements are is left alone while one is handled. *)
LEMMA TagHandled ==
    ASSUME IInv, Collecting, UNCHANGED options, tag' = tag + 1,
           tags' \in [DOMAIN page -> TagState],
           \A t \in DOMAIN page : t # tag => tags'[t] = tags[t],
           (IF tags'[tag].present THEN tags'[tag].text ELSE <<>>) = Outcome(tag)
    PROVE  Survives'
<1>1. DOMAIN page = 1..Len(page) /\ Len(page) \in Nat /\ tag \in DOMAIN page
  BY PageIs DEF IInv, Collecting
<1>2. page' = page /\ removeStyleTags' = removeStyleTags /\ applyStyleTags' = applyStyleTags
  BY DEF options
<1>3. \A t \in DOMAIN page : Outcome(t)' = Outcome(t)
  BY <1>2 DEF Outcome, Applied
<1> SUFFICES ASSUME NEW t \in DOMAIN page
             PROVE  /\ t < tag + 1 => Surviving(t)' = Outcome(t)
                    /\ t >= tag + 1 => tags'[t].present /\ tags'[t].text = SourceOf(t, page[t].sheet)
  BY <1>2, <1>3 DEF Survives
<1>4. CASE t = tag
  BY <1>1, <1>4 DEF Surviving
<1>5. CASE t # tag
  <2>1. Surviving(t)' = Surviving(t)
    BY <1>5 DEF Surviving
  <2>2. t < tag + 1 => t < tag
    BY <1>1, <1>5
  <2>3. t >= tag + 1 => t >= tag
    BY <1>1
  <2> QED  BY <1>5, <2>1, <2>2, <2>3 DEF IInv, Survives
<1> QED  BY <1>4, <1>5

(* Detaching a style element leaves nothing of it. *)
LEMMA Detached ==
    ASSUME IInv, Collecting, Detach
    PROVE  /\ tags' \in [DOMAIN page -> TagState]
           /\ \A t \in DOMAIN page : t # tag => tags'[t] = tags[t]
           /\ (IF tags'[tag].present THEN tags'[tag].text ELSE <<>>) = <<>>
<1>1. tag \in DOMAIN page /\ tags \in [DOMAIN page -> TagState]
  BY PageIs DEF IInv, Collecting
<1>2. tags[tag] \in TagState
  BY <1>1
<1>3. [tags[tag] EXCEPT !.present = FALSE] \in TagState
  BY <1>2 DEF TagState
<1>4. tags' = [tags EXCEPT ![tag] = [tags[tag] EXCEPT !.present = FALSE]]
  BY DEF Detach
<1>5. tags'[tag].present = FALSE
  BY <1>1, <1>2, <1>4 DEF TagState
<1> QED  BY <1>1, <1>3, <1>4, <1>5

(* A style element not handled yet is whole. *)
LEMMA Untouched ==
    ASSUME IInv, Collecting
    PROVE  /\ tag \in DOMAIN page /\ tag \in Nat /\ page[tag] \in Tag /\ page[tag].sheet \in Sheet
           /\ tags[tag].present /\ tags[tag].text = SourceOf(tag, page[tag].sheet)
<1>1. DOMAIN page = 1..Len(page) /\ tag \in DOMAIN page
  BY PageIs DEF IInv, Collecting
<1> QED  BY <1>1, PageIs DEF IInv, Survives

(* Where Dispose keeps what it is given, if style elements are removed. *)
LEMMA Disposed ==
    ASSUME IInv, Collecting, NEW kept \in Seq(Nat \X Nat), Dispose(kept)
    PROVE  /\ tags' \in [DOMAIN page -> TagState]
           /\ \A t \in DOMAIN page : t # tag => tags'[t] = tags[t]
           /\ (IF tags'[tag].present THEN tags'[tag].text ELSE <<>>)
                = IF removeStyleTags THEN kept ELSE SourceOf(tag, page[tag].sheet)
<1>1. tag \in DOMAIN page /\ tags \in [DOMAIN page -> TagState]
  BY PageIs DEF IInv, Collecting
<1>2. tags[tag] \in TagState
  BY <1>1
<1>3. CASE ~removeStyleTags
  <2>1. tags' = tags
    BY <1>3 DEF Dispose
  <2> QED  BY <1>1, <1>3, <2>1, Untouched
<1>4. CASE removeStyleTags /\ kept = <<>>
  <2>1. Detach
    BY <1>4 DEF Dispose
  <2> QED  BY <1>4, <2>1, Detached
<1>5. CASE removeStyleTags /\ kept # <<>>
  <2>1. tags' = [tags EXCEPT ![tag] = [tags[tag] EXCEPT !.text = kept]]
    BY <1>5 DEF Dispose
  <2>2. [tags[tag] EXCEPT !.text = kept] \in TagState
    BY <1>2 DEF TagState
  <2>3. tags'[tag].present /\ tags'[tag].text = kept
    BY <1>1, <1>2, <2>1, Untouched DEF TagState
  <2> QED  BY <1>1, <1>5, <2>1, <2>2, <2>3
<1> QED  BY <1>3, <1>4, <1>5

(* What a style element that gives no rules leaves as it is. *)
LEMMA NoRulesTaken ==
    ASSUME IInv, Collecting, tag' = tag + 1, UNCHANGED <<options, phase, ord, rules, keep, emitted, winner>>,
           tags' \in [DOMAIN page -> TagState], Survives'
    PROVE  IInv'
<1>1. /\ page' = page /\ extra' = extra /\ applyStyleTags' = applyStyleTags
      /\ removeStyleTags' = removeStyleTags /\ phase' = phase /\ ord' = ord /\ rules' = rules
      /\ keep' = keep /\ emitted' = emitted /\ winner' = winner
  BY DEF options
<1>2. Len(page) \in Nat /\ DOMAIN page = 1..Len(page) /\ tag \in DOMAIN page /\ phase = "collect"
  BY PageIs DEF IInv, Collecting
<1>3. TypeOK'
  BY <1>1, <1>2 DEF IInv, TypeOK, ExtraSource, Applied, TagState
<1>4. Based' /\ Ascending'
  BY <1>1 DEF IInv, Based, Ascending
<1>5. Taken'
  <2>1. \A r \in DOMAIN rules : rules[r] \in Rule
    BY ElementOfSeq DEF IInv, TypeOK
  <2>2. \A r \in DOMAIN rules : rules[r].src < tag /\ rules[r].src \in Nat
    BY <1>2, <2>1 DEF IInv, Taken, Rule
  <2> QED  BY <1>1, <1>2, <2>2 DEF Taken
<1>6. Won' /\ Handed'
  BY <1>1 DEF IInv, Won, Handed, ExtraSource
<1> QED  BY <1>3, <1>4, <1>5, <1>6 DEF IInv

(* A style element that is not one text node leaves everything as it was. *)
LEMMA IgnoreTagStep == IInv /\ IgnoreTag => IInv'
<1> SUFFICES ASSUME IInv, IgnoreTag PROVE IInv'
  OBVIOUS
<1>1. Collecting /\ UNCHANGED options /\ tag' = tag + 1
  BY DEF IgnoreTag
<1>2. ~page[tag].oneText /\ ~Applied(tag)
  BY DEF IgnoreTag, Applied
<1>3. /\ tags' \in [DOMAIN page -> TagState]
      /\ \A t \in DOMAIN page : t # tag => tags'[t] = tags[t]
      /\ (IF tags'[tag].present THEN tags'[tag].text ELSE <<>>) = Outcome(tag)
  <2>1. CASE removeStyleTags
    <3>1. Detach
      BY <2>1 DEF IgnoreTag
    <3> QED  BY <1>1, <1>2, <2>1, <3>1, Detached DEF Outcome
  <2>2. CASE ~removeStyleTags
    <3>1. tags' = tags
      BY <2>2 DEF IgnoreTag
    <3> QED  BY <1>1, <2>2, <3>1, Untouched, PageIs DEF IInv, Outcome
  <2> QED  BY <2>1, <2>2
<1>4. Survives'
  BY <1>1, <1>3, TagHandled
<1>5. UNCHANGED <<options, phase, ord, rules, keep, emitted, winner>>
  BY DEF IgnoreTag
<1> QED  BY <1>1, <1>3, <1>4, <1>5, NoRulesTaken

(* An embedded style element leaves rules and numbers alone. *)
LEMMA EmbeddedTagStep == IInv /\ EmbeddedTag => IInv'
<1> SUFFICES ASSUME IInv, EmbeddedTag PROVE IInv'
  OBVIOUS
<1>1. Collecting /\ UNCHANGED options /\ tag' = tag + 1
  BY DEF EmbeddedTag
<1>2. tag \in DOMAIN page /\ tags \in [DOMAIN page -> TagState] /\ tags[tag] \in TagState
  BY <1>1, PageIs DEF IInv, Collecting
<1>3. /\ tags' \in [DOMAIN page -> TagState]
      /\ \A t \in DOMAIN page : t # tag => tags'[t] = tags[t]
      /\ (IF tags'[tag].present THEN tags'[tag].text ELSE <<>>) = Outcome(tag)
  <2>1. tags' = [tags EXCEPT ![tag] = [tags[tag] EXCEPT !.embed = FALSE]]
    BY DEF EmbeddedTag
  <2>2. [tags[tag] EXCEPT !.embed = FALSE] \in TagState
    BY <1>2 DEF TagState
  <2>3. tags'[tag].present = tags[tag].present /\ tags'[tag].text = tags[tag].text
    BY <1>2, <2>1 DEF TagState
  <2>4. Outcome(tag) = SourceOf(tag, page[tag].sheet)
    BY DEF Outcome, EmbeddedTag
  <2> QED  BY <1>1, <1>2, <2>1, <2>2, <2>3, <2>4, Untouched
<1>4. Survives'
  BY <1>1, <1>3, TagHandled
<1>5. UNCHANGED <<options, phase, ord, rules, keep, emitted, winner>>
  BY DEF EmbeddedTag
<1> QED  BY <1>1, <1>3, <1>4, <1>5, NoRulesTaken

(* A style element that is not applied leaves rules and numbers alone. *)
LEMMA PassTagStep == IInv /\ PassTag => IInv'
<1> SUFFICES ASSUME IInv, PassTag PROVE IInv'
  OBVIOUS
<1>1. Collecting /\ UNCHANGED options /\ tag' = tag + 1 /\ Dispose(<<>>)
  BY DEF PassTag
<1>2. ~page[tag].embed /\ ~Applied(tag)
  BY DEF PassTag, Applied
<1>3. /\ tags' \in [DOMAIN page -> TagState]
      /\ \A t \in DOMAIN page : t # tag => tags'[t] = tags[t]
      /\ (IF tags'[tag].present THEN tags'[tag].text ELSE <<>>) = Outcome(tag)
  <2>1. <<>> \in Seq(Nat \X Nat)
    OBVIOUS
  <2> QED  BY <1>1, <1>2, <2>1, Disposed DEF Outcome
<1>4. Survives'
  BY <1>1, <1>3, TagHandled
<1>5. UNCHANGED <<options, phase, ord, rules, keep, emitted, winner>>
  BY DEF PassTag
<1> QED  BY <1>1, <1>3, <1>4, <1>5, NoRulesTaken

(* Rules of a later source, appended. *)
WithRules(a, src, sheet, first) == a \o RulesOf(src, sheet, first)

(* The rules c are those of a and behind them others, all of source src and
   numbered from first up to upto. *)
Lengthened(a, c, src, first, upto) ==
    /\ c \in Seq(Rule) /\ Len(c) \in Nat /\ Len(a) \in Nat /\ Len(a) <= Len(c)
    /\ DOMAIN c = 1..Len(c) /\ DOMAIN a = 1..Len(a)
    /\ \A d \in DOMAIN c : d <= Len(a) => d \in DOMAIN a /\ c[d] = a[d]
    /\ \A d \in DOMAIN c : d > Len(a) => c[d].src = src /\ c[d].to >= first /\ c[d].to < upto
    /\ \A d, k \in DOMAIN c : d > Len(a) /\ d < k => NotBefore(c[d], c[k])

(* The rules of a sheet behind those before: which are whose, and where their numbers lie. *)
LEMMA Appended ==
    ASSUME NEW a \in Seq(Rule), NEW src \in Nat, NEW sheet \in Sheet, NEW first \in Nat
    PROVE  Lengthened(a, WithRules(a, src, sheet, first), src, first,
                      first + Before(sheet)[Len(sheet)])
<1> DEFINE c == WithRules(a, src, sheet, first)
           b == RulesOf(src, sheet, first)
           B == Before(sheet)[Len(sheet)]
<1>1. /\ b \in Seq(Rule)
      /\ \A d \in DOMAIN b : b[d].src = src /\ b[d].to >= first /\ b[d].to < first + B
      /\ \A d, k \in DOMAIN b : d < k => NotBefore(b[d], b[k])
  BY RulesOfIs
<1>0. c = a \o b
  BY DEF WithRules
<1> HIDE DEF b, B, c
<1>2. /\ c \in Seq(Rule) /\ Len(c) = Len(a) + Len(b) /\ Len(a) \in Nat /\ Len(b) \in Nat
      /\ DOMAIN c = 1..Len(c) /\ DOMAIN a = 1..Len(a) /\ DOMAIN b = 1..Len(b)
      /\ \A d \in DOMAIN c : c[d] = IF d <= Len(a) THEN a[d] ELSE b[d - Len(a)]
  BY <1>0, <1>1
<1>3. \A d \in DOMAIN c : d > Len(a) => d - Len(a) \in DOMAIN b /\ c[d] = b[d - Len(a)]
  BY <1>2
<1>4. \A d \in DOMAIN c : d <= Len(a) => d \in DOMAIN a /\ c[d] = a[d]
  BY <1>2
<1>5. \A d \in DOMAIN c : d > Len(a) => c[d].src = src /\ c[d].to >= first /\ c[d].to < first + B
  BY <1>1, <1>3
<1>6. ASSUME NEW d \in DOMAIN c, NEW k \in DOMAIN c, d > Len(a), d < k
      PROVE  NotBefore(c[d], c[k])
  <2>1. k > Len(a) /\ d - Len(a) < k - Len(a)
    BY <1>2, <1>6
  <2>2. /\ d - Len(a) \in DOMAIN b /\ c[d] = b[d - Len(a)]
        /\ k - Len(a) \in DOMAIN b /\ c[k] = b[k - Len(a)]
    BY <1>3, <1>6, <2>1
  <2> QED  BY <1>1, <2>1, <2>2
<1> QED  BY <1>2, <1>4, <1>5, <1>6 DEF Lengthened, B, c

(* An applied style element: its rules lie above every number before it, its rest is kept. *)
LEMMA ParseTagStep == IInv /\ ParseTag => IInv'
<1> SUFFICES ASSUME IInv, ParseTag PROVE IInv'
  OBVIOUS
<1>1. /\ Collecting /\ tag' = tag + 1 /\ UNCHANGED options
      /\ Dispose(KeptOf(tag, page[tag].sheet))
      /\ page' = page /\ extra' = extra /\ applyStyleTags' = applyStyleTags
      /\ removeStyleTags' = removeStyleTags /\ phase' = phase
      /\ keep' = keep /\ emitted' = emitted /\ winner' = winner
  BY DEF ParseTag, options
<1>2. Applied(tag)
  BY DEF ParseTag, Applied
<1>3. /\ Len(page) \in Nat /\ DOMAIN page = 1..Len(page) /\ phase = "collect"
      /\ tag \in DOMAIN page /\ tag \in Nat /\ page[tag].sheet \in Sheet
  BY <1>1, PageIs, Untouched DEF IInv, Collecting
<1> DEFINE sheet == page[tag].sheet
           B == Before(sheet)[Len(sheet)]
           c == rules \o RulesOf(tag, sheet, ord)
<1>4. B \in Nat
  <2>1. sheet \in Sheet /\ Len(sheet) \in 0..Len(sheet)
    BY <1>3 DEF Sheet
  <2> HIDE DEF sheet
  <2> QED  BY <2>1, BeforeIs
<1>5. rules \in Seq(Rule) /\ ord \in Nat
  BY DEF IInv, TypeOK
<1>0. sheet \in Sheet /\ c = WithRules(rules, tag, sheet, ord)
  BY <1>3 DEF WithRules
<1> HIDE DEF sheet, c
<1>6. /\ c \in Seq(Rule) /\ Len(c) \in Nat /\ Len(rules) \in Nat /\ Len(rules) <= Len(c)
      /\ DOMAIN c = 1..Len(c) /\ DOMAIN rules = 1..Len(rules)
      /\ \A d \in DOMAIN c : d <= Len(rules) => d \in DOMAIN rules /\ c[d] = rules[d]
      /\ \A d \in DOMAIN c : d > Len(rules) => c[d].src = tag /\ c[d].to >= ord /\ c[d].to < ord + B
      /\ \A d, k \in DOMAIN c : d > Len(rules) /\ d < k => NotBefore(c[d], c[k])
  <2>1. Lengthened(rules, WithRules(rules, tag, sheet, ord), tag, ord,
                   ord + Before(sheet)[Len(sheet)])
    BY <1>0, <1>3, <1>5, Appended
  <2> QED  BY <1>0, <2>1 DEF Lengthened, B
<1>7. rules' = c /\ ord' = ord + B
  BY DEF ParseTag, sheet, c
<1> HIDE DEF B, c
<1>8. \A d \in DOMAIN c : c[d] \in Rule
  BY <1>6, ElementOfSeq
<1>9. /\ \A d \in DOMAIN rules : rules[d] \in Rule /\ rules[d].src \in DOMAIN page
      /\ \A d \in DOMAIN rules : rules[d].src < tag /\ rules[d].to < ord
  <2>1. PICK m \in 0..Len(rules) :
          /\ \A r \in DOMAIN rules : rules[r].src \in DOMAIN page <=> r <= m
          /\ \A r \in DOMAIN rules : r <= m => rules[r].to < ord
          /\ phase = "collect" => m = Len(rules)
    BY DEF IInv, Based
  <2> QED  BY <1>3, <1>5, <1>6, <2>1, ElementOfSeq DEF IInv, Taken
<1>10. Survives' /\ tags' \in [DOMAIN page -> TagState]
  <2>1. KeptOf(tag, page[tag].sheet) \in Seq(Nat \X Nat)
    BY <1>3, KeptOfIs
  <2>2. Outcome(tag) = IF removeStyleTags THEN KeptOf(tag, page[tag].sheet) ELSE SourceOf(tag, page[tag].sheet)
    BY <1>2 DEF Outcome, Applied
  <2>3. /\ tags' \in [DOMAIN page -> TagState]
        /\ \A t \in DOMAIN page : t # tag => tags'[t] = tags[t]
        /\ (IF tags'[tag].present THEN tags'[tag].text ELSE <<>>) = Outcome(tag)
    BY <1>1, <2>1, <2>2, Disposed
  <2> QED  BY <1>1, <2>3, TagHandled
<1>11. TypeOK'
  <2>1. \A r \in DOMAIN c : c[r].src \in DOMAIN page /\ Applied(c[r].src)
    <3> TAKE r \in DOMAIN c
    <3>1. CASE r <= Len(rules)
      BY <1>6, <1>9, <3>1 DEF IInv, TypeOK
    <3>2. CASE ~(r <= Len(rules))
      BY <1>2, <1>3, <1>6, <3>2
    <3> QED  BY <3>1, <3>2
  <2>2. ASSUME NEW r \in DOMAIN c, NEW s \in DOMAIN c, r < s
        PROVE  c[r].src <= c[s].src
    <3>1. c[r].src \in Nat /\ c[s].src \in Nat
      BY <1>8 DEF Rule
    <3>2. CASE s <= Len(rules)
      <4>1. r \in DOMAIN rules /\ s \in DOMAIN rules /\ c[r] = rules[r] /\ c[s] = rules[s]
        BY <1>6, <2>2, <3>2
      <4> QED  BY <2>2, <4>1 DEF IInv, TypeOK
    <3>3. CASE ~(s <= Len(rules))
      <4>1. c[s].src = tag
        BY <1>6, <3>3
      <4>2. CASE r <= Len(rules)
        BY <1>3, <1>6, <1>9, <3>1, <4>1, <4>2
      <4>3. CASE ~(r <= Len(rules))
        BY <1>6, <3>1, <4>1, <4>3
      <4> QED  BY <4>2, <4>3
    <3> QED  BY <3>2, <3>3
  <2>3. \A r \in DOMAIN c : /\ c[r].src \in 1..ExtraSource
                            /\ c[r].src \in DOMAIN page => Applied(c[r].src)
                            /\ \A s \in DOMAIN c : r < s => c[r].src <= c[s].src
    BY <1>3, <2>1, <2>2 DEF ExtraSource
  <2>4. \A t : Applied(t)' = Applied(t)
    BY <1>1 DEF Applied
  <2>5. winner \in 0..Len(c)
    BY <1>6 DEF IInv, TypeOK
  <2>6. tag + 1 \in 1..Len(page) + 1
    BY <1>3
  <2>7. ord + B \in Nat
    BY <1>4, <1>5
  <2>8. /\ page \in Seq(Tag) /\ extra \in Sheet /\ phase \in {"collect", "apply", "emit", "done"}
        /\ keep \in Seq(Nat \X Nat) /\ emitted \in Seq(Nat \X Nat)
    BY DEF IInv, TypeOK
  <2>9. ExtraSource' = ExtraSource
    BY <1>1 DEF ExtraSource
  <2> QED  BY <1>1, <1>6, <1>7, <1>10, <2>3, <2>4, <2>5, <2>6, <2>7, <2>8, <2>9 DEF TypeOK, TagState
<1>12. Based'
  <2>1. \A r \in DOMAIN c : r <= Len(c) /\ ~(r > Len(c))
    BY <1>6
  <2>2. \A r \in DOMAIN c : c[r].src \in DOMAIN page /\ c[r].to < ord + B
    <3> TAKE r \in DOMAIN c
    <3>1. c[r].to \in Nat
      BY <1>8 DEF Rule
    <3>2. CASE r <= Len(rules)
      BY <1>4, <1>5, <1>6, <1>9, <3>1, <3>2
    <3>3. CASE ~(r <= Len(rules))
      BY <1>3, <1>6, <3>3
    <3> QED  BY <3>2, <3>3
  <2>3. Len(c) \in 0..Len(c)
    BY <1>6
  <2>4. /\ \A r \in DOMAIN c : c[r].src \in DOMAIN page <=> r <= Len(c)
        /\ \A r \in DOMAIN c : r <= Len(c) => c[r].to < ord + B
        /\ \A r \in DOMAIN c : r > Len(c) => c[r].to >= Shift * Len(c)
    BY <2>1, <2>2
  <2>5. \E m \in 0..Len(c) :
           /\ \A r \in DOMAIN c : c[r].src \in DOMAIN page <=> r <= m
           /\ \A r \in DOMAIN c : r <= m => c[r].to < ord + B
           /\ \A r \in DOMAIN c : r > m => c[r].to >= Shift * m
           /\ phase = "collect" => m = Len(c)
    BY <2>3, <2>4, Zenon
  <2> QED  BY <1>1, <1>7, <2>5 DEF Based
<1>13. Ascending'
  <2> SUFFICES ASSUME NEW r \in DOMAIN c, NEW s \in DOMAIN c, r < s
               PROVE  NotBefore(c[r], c[s])
    BY <1>1, <1>7 DEF Ascending
  <2>1. CASE r > Len(rules)
    BY <1>6, <2>1
  <2>2. CASE ~(r > Len(rules)) /\ s > Len(rules)
    <3>1. r \in DOMAIN rules /\ c[r] = rules[r]
      BY <1>6, <2>2
    <3>2. c[r].to < ord /\ c[s].to >= ord
      BY <1>6, <1>9, <2>2, <3>1
    <3>3. c[r].to \in Nat /\ c[s].to \in Nat
      BY <1>8 DEF Rule
    <3> QED  BY <1>5, <3>2, <3>3 DEF NotBefore
  <2>3. CASE ~(s > Len(rules))
    <3>1. r \in DOMAIN rules /\ s \in DOMAIN rules /\ c[r] = rules[r] /\ c[s] = rules[s]
      BY <1>6, <2>3
    <3> QED  BY <1>9, <3>1 DEF IInv, Ascending
  <2> QED  BY <2>1, <2>2, <2>3
<1>14. Taken'
  <2> SUFFICES ASSUME NEW r \in DOMAIN c PROVE c[r].src < tag + 1
    BY <1>1, <1>3, <1>7 DEF Taken
  <2>1. c[r].src \in Nat
    BY <1>8 DEF Rule
  <2>2. CASE r <= Len(rules)
    BY <1>3, <1>6, <1>9, <2>1, <2>2
  <2>3. CASE ~(r <= Len(rules))
    BY <1>3, <1>6, <2>3
  <2> QED  BY <2>2, <2>3
<1>15. Won'
  BY <1>1, <1>3 DEF IInv, Won
<1>16. Handed'
  BY <1>1 DEF IInv, Handed, ExtraSource
<1> QED  BY <1>10, <1>11, <1>12, <1>13, <1>14, <1>15, <1>16 DEF IInv

(* ExtraCSS comes last, from a base of its own. *)
LEMMA ParseExtraStep == IInv /\ ParseExtra => IInv'
<1> SUFFICES ASSUME IInv, ParseExtra PROVE IInv'
  OBVIOUS
<1>1. /\ phase = "collect" /\ tag \notin DOMAIN page /\ phase' = "apply" /\ tag' = tag /\ tags' = tags
      /\ page' = page /\ extra' = extra /\ applyStyleTags' = applyStyleTags
      /\ removeStyleTags' = removeStyleTags /\ ord' = ord
      /\ emitted' = emitted /\ winner' = winner
  BY DEF ParseExtra, options
<1>2. /\ Len(page) \in Nat /\ DOMAIN page = 1..Len(page) /\ tag = Len(page) + 1
      /\ ExtraSource \in Nat /\ ExtraSource \notin DOMAIN page
      /\ extra \in Sheet /\ rules \in Seq(Rule) /\ ord \in Nat
      /\ keep = <<>> /\ emitted = <<>> /\ winner = 0
  BY <1>1, PageIs DEF IInv, TypeOK, ExtraSource, Won, Handed
<1>3. Survives'
  BY <1>1 DEF IInv, Survives, Surviving, Outcome, Applied
<1>4. keep' = KeptOf(ExtraSource, extra) /\ keep' \in Seq(Nat \X Nat)
  <2>1. KeptOf(ExtraSource, extra) \in Seq(Nat \X Nat)
    BY <1>2, KeptOfIs
  <2>2. CASE extra = <<>>
    BY <1>2, <2>1, <2>2, NothingKeptOfNothing DEF ParseExtra
  <2>3. CASE extra # <<>>
    <3>1. keep' = keep \o KeptOf(ExtraSource, extra)
      BY <2>3 DEF ParseExtra
    <3>2. <<>> \o KeptOf(ExtraSource, extra) = KeptOf(ExtraSource, extra)
      BY <2>1
    <3> QED  BY <1>2, <2>1, <3>1, <3>2
  <2> QED  BY <2>2, <2>3
<1>5. Handed'
  BY <1>1, <1>2, <1>4 DEF Handed, ExtraSource
<1>6. Taken'
  BY <1>1, <1>2 DEF Taken
<1>7. Won'
  BY <1>1, <1>2 DEF Won
<1>8. Len(rules) \in Nat /\ DOMAIN rules = 1..Len(rules) /\ \A d \in DOMAIN rules : rules[d] \in Rule
  BY <1>2, ElementOfSeq
<1>9. /\ \A d \in DOMAIN rules : rules[d].src \in DOMAIN page /\ rules[d].to < ord /\ rules[d].src < tag
      /\ \A d, k \in DOMAIN rules : d < k => NotBefore(rules[d], rules[k])
  <2>1. PICK m \in 0..Len(rules) :
          /\ \A r \in DOMAIN rules : rules[r].src \in DOMAIN page <=> r <= m
          /\ \A r \in DOMAIN rules : r <= m => rules[r].to < ord
          /\ phase = "collect" => m = Len(rules)
    BY DEF IInv, Based
  <2> QED  BY <1>1, <1>8, <2>1 DEF IInv, Taken, Ascending
<1> DEFINE base == Len(rules) * Shift
           c == rules'
<1>10. base \in Nat /\ base = Shift * Len(rules)
  BY <1>8, InlinerAssumption
<1>11. /\ c \in Seq(Rule) /\ Len(c) \in Nat /\ Len(rules) <= Len(c)
       /\ DOMAIN c = 1..Len(c)
       /\ \A d \in DOMAIN c : d <= Len(rules) => d \in DOMAIN rules /\ c[d] = rules[d]
       /\ \A d \in DOMAIN c : d > Len(rules) => c[d].src = ExtraSource /\ c[d].to >= base
       /\ \A d, k \in DOMAIN c : d > Len(rules) /\ d < k => NotBefore(c[d], c[k])
  <2>1. CASE extra = <<>>
    <3>1. c = rules
      BY <2>1 DEF ParseExtra
    <3> HIDE DEF c, base
    <3> QED  BY <1>2, <1>8, <3>1
  <2>2. CASE extra # <<>>
    <3>1. c = WithRules(rules, ExtraSource, extra, base)
      BY <2>2 DEF ParseExtra, WithRules
    <3> HIDE DEF c, base
    <3>2. Lengthened(rules, WithRules(rules, ExtraSource, extra, base), ExtraSource, base,
                     base + Before(extra)[Len(extra)])
      BY <1>2, <1>10, <3>1, Appended
    <3> QED  BY <3>1, <3>2 DEF Lengthened
  <2> QED  BY <2>1, <2>2
<1> HIDE DEF c, base
<1>12. /\ ExtraSource' = ExtraSource /\ DOMAIN page' = DOMAIN page
       /\ \A t : Applied(t)' = Applied(t)
  BY <1>1 DEF ExtraSource, Applied
<1>13. \A d \in DOMAIN c : c[d] \in Rule
  BY <1>11, ElementOfSeq
<1>14. TypeOK'
  <2>1. ASSUME NEW r \in DOMAIN c
        PROVE  c[r].src \in 1..ExtraSource /\ (c[r].src \in DOMAIN page => Applied(c[r].src))
    <3>1. CASE r <= Len(rules)
      BY <1>11, <3>1 DEF IInv, TypeOK
    <3>2. CASE ~(r <= Len(rules))
      BY <1>2, <1>11, <3>2 DEF ExtraSource
    <3> QED  BY <3>1, <3>2
  <2>2. ASSUME NEW r \in DOMAIN c, NEW s \in DOMAIN c, r < s
        PROVE  c[r].src <= c[s].src
    <3>1. c[r].src \in 1..ExtraSource /\ c[s].src \in 1..ExtraSource
      BY <2>1
    <3>2. CASE s <= Len(rules)
      <4>1. r \in DOMAIN rules /\ s \in DOMAIN rules /\ c[r] = rules[r] /\ c[s] = rules[s]
        BY <1>8, <1>11, <2>2, <3>2
      <4> QED  BY <2>2, <4>1 DEF IInv, TypeOK
    <3>3. CASE ~(s <= Len(rules))
      <4>1. c[s].src = ExtraSource
        BY <1>8, <1>11, <3>3
      <4> QED  BY <1>2, <3>1, <4>1
    <3> QED  BY <3>2, <3>3
  <2>3. winner \in 0..Len(c)
    BY <1>2, <1>11
  <2>4. /\ page \in Seq(Tag) /\ tag \in 1..Len(page) + 1
        /\ tags \in [DOMAIN page -> [present : BOOLEAN, embed : BOOLEAN, text : Seq(Nat \X Nat)]]
        /\ emitted \in Seq(Nat \X Nat)
    BY DEF IInv, TypeOK
  <2> QED  BY <1>1, <1>2, <1>4, <1>11, <1>12, <2>1, <2>2, <2>3, <2>4 DEF TypeOK, c
<1>15. Based'
  <2>1. Len(rules) \in 0..Len(c)
    BY <1>8, <1>11
  <2>2. ASSUME NEW r \in DOMAIN c
        PROVE  /\ c[r].src \in DOMAIN page <=> r <= Len(rules)
               /\ r <= Len(rules) => c[r].to < ord
               /\ r > Len(rules) => c[r].to >= Shift * Len(rules)
    <3>1. CASE r <= Len(rules)
      <4>1. ~(r > Len(rules))
        BY <1>8, <1>11, <3>1
      <4> QED  BY <1>9, <1>11, <3>1, <4>1
    <3>2. CASE r > Len(rules)
      <4>1. ~(r <= Len(rules))
        BY <1>8, <1>11, <3>2
      <4> QED  BY <1>2, <1>10, <1>11, <3>2, <4>1
    <3> QED  BY <1>8, <1>11, <3>1, <3>2
  <2>3. phase' # "collect"
    BY <1>1
  <2>4. \E m \in 0..Len(c) :
           /\ \A r \in DOMAIN c : c[r].src \in DOMAIN page <=> r <= m
           /\ \A r \in DOMAIN c : r <= m => c[r].to < ord
           /\ \A r \in DOMAIN c : r > m => c[r].to >= Shift * m
           /\ phase' = "collect" => m = Len(c)
    BY <2>1, <2>2, <2>3, Zenon
  <2> QED  BY <1>1, <2>4 DEF Based, c
<1>16. Ascending'
  <2> SUFFICES ASSUME NEW r \in DOMAIN c, NEW s \in DOMAIN c, r < s,
                      c[r].src \in DOMAIN page <=> c[s].src \in DOMAIN page
               PROVE  NotBefore(c[r], c[s])
    BY <1>1 DEF Ascending, c
  <2>1. CASE r > Len(rules)
    BY <1>11, <2>1
  <2>2. CASE ~(r > Len(rules)) /\ s > Len(rules)
    <3>1. r \in DOMAIN rules /\ c[r] = rules[r]
      BY <1>8, <1>11, <2>2
    <3>2. c[r].src \in DOMAIN page /\ c[s].src = ExtraSource
      BY <1>9, <1>11, <2>2, <3>1
    <3> QED  BY <1>2, <3>2
  <2>3. CASE ~(s > Len(rules))
    <3>1. r \in DOMAIN rules /\ s \in DOMAIN rules /\ c[r] = rules[r] /\ c[s] = rules[s]
      BY <1>8, <1>11, <2>3
    <3> QED  BY <1>9, <3>1
  <2> QED  BY <2>1, <2>2, <2>3
<1> QED  BY <1>3, <1>5, <1>6, <1>7, <1>14, <1>15, <1>16 DEF IInv

(* Some rule is the first that no other outranks. *)
LEMMA ApplyRulesStep == IInv /\ ApplyRules => IInv'
<1> SUFFICES ASSUME IInv, ApplyRules PROVE IInv'
  OBVIOUS
<1>1. /\ phase = "apply" /\ phase' = "emit" /\ tag' = tag /\ tags' = tags
      /\ page' = page /\ extra' = extra /\ applyStyleTags' = applyStyleTags
      /\ removeStyleTags' = removeStyleTags /\ ord' = ord /\ rules' = rules
      /\ keep' = keep /\ emitted' = emitted
  BY DEF ApplyRules, options
<1>2. /\ rules \in Seq(Rule) /\ Len(rules) \in Nat /\ DOMAIN rules = 1..Len(rules)
      /\ \A d \in DOMAIN rules : rules[d].to \in Nat
  <2>1. rules \in Seq(Rule)
    BY DEF IInv, TypeOK
  <2>2. \A d \in DOMAIN rules : rules[d] \in Rule
    BY <2>1, ElementOfSeq
  <2> QED  BY <2>1, <2>2 DEF Rule
<1> DEFINE Wins(r) == \A s \in DOMAIN rules : /\ s < r => Outranks(r, s)
                                              /\ s > r => ~Outranks(s, r)
<1>3. CASE rules = <<>>
  <2>1. winner' = 0
    BY <1>3 DEF ApplyRules
  <2>2. Won'
    BY <1>1, <1>3, <2>1 DEF Won
  <2>3. winner' \in 0..Len(rules)
    BY <1>2, <2>1
  <2> QED  BY <1>1, <2>2, <2>3 DEF IInv, TypeOK, Based, Ascending, Taken, Survives, Handed,
                                   ExtraSource, Applied, Surviving, Outcome
<1>4. CASE rules # <<>>
  <2>1. \E r \in DOMAIN rules : Wins(r)
    <3> DEFINE f == [d \in DOMAIN rules |-> rules[d].to]
    <3>1. Len(rules) > 0 /\ \A d \in 1..Len(rules) : f[d] = rules[d].to /\ f[d] \in Int
      BY <1>2, <1>4
    <3> HIDE DEF f
    <3>2. PICK r \in 1..Len(rules) : \A d \in 1..Len(rules) : (d < r => f[r] > f[d]) /\ (d > r => f[d] <= f[r])
      BY <1>2, <3>1, FirstMaximum
    <3>3. Wins(r)
      BY <1>2, <3>1, <3>2 DEF Outranks
    <3> QED  BY <1>2, <3>3
  <2>2. winner' = CHOOSE r \in DOMAIN rules : Wins(r)
    BY <1>4 DEF ApplyRules
  <2>3. winner' \in DOMAIN rules /\ Wins(winner')
    <3> HIDE DEF Wins
    <3> QED  BY <2>1, <2>2, Zenon
  <2>4. winner' \in 0..Len(rules)
    BY <1>2, <2>3
  <2>5. Won'
    <3>1. \A s \in DOMAIN rules : /\ s < winner' => rules[winner'].to > rules[s].to
                                  /\ s > winner' => rules[s].to <= rules[winner'].to
      BY <1>2, <2>3 DEF Outranks
    <3> QED  BY <1>1, <1>4, <2>3, <3>1 DEF Won
  <2> QED  BY <1>1, <2>4, <2>5 DEF IInv, TypeOK, Based, Ascending, Taken, Survives, Handed,
                                   ExtraSource, Applied, Surviving, Outcome
<1> QED  BY <1>3, <1>4

(* What was kept is written once; nothing else changes. *)
LEMMA EmitPreservedStep == IInv /\ EmitPreserved => IInv'
<1> SUFFICES ASSUME IInv, EmitPreserved PROVE IInv'
  OBVIOUS
<1>1. /\ phase = "emit" /\ phase' = "done" /\ tag' = tag /\ tags' = tags
      /\ page' = page /\ extra' = extra /\ applyStyleTags' = applyStyleTags
      /\ removeStyleTags' = removeStyleTags /\ ord' = ord /\ rules' = rules
      /\ keep' = keep /\ emitted' = keep /\ winner' = winner
  BY DEF EmitPreserved, options
<1> QED  BY <1>1 DEF IInv, TypeOK, Based, Ascending, Taken, Won, Survives, Handed,
                     ExtraSource, Applied, Surviving, Outcome

(* The invariant holds of every state of the pass. *)
THEOREM InductiveInvariant == Spec => []IInv
<1>1. Init => IInv
  BY InitIInv
<1>2. IInv /\ [Next]_vars => IInv'
  <2> SUFFICES ASSUME IInv, [Next]_vars PROVE IInv'
    OBVIOUS
  <2>1. CASE IgnoreTag
    BY <2>1, IgnoreTagStep
  <2>2. CASE EmbeddedTag
    BY <2>2, EmbeddedTagStep
  <2>3. CASE ParseTag
    BY <2>3, ParseTagStep
  <2>4. CASE PassTag
    BY <2>4, PassTagStep
  <2>5. CASE ParseExtra
    BY <2>5, ParseExtraStep
  <2>6. CASE ApplyRules
    BY <2>6, ApplyRulesStep
  <2>7. CASE EmitPreserved
    BY <2>7, EmitPreservedStep
  <2>8. CASE UNCHANGED vars
    BY <2>8 DEF vars, options, IInv, TypeOK, Based, Ascending, Taken, Won, Survives, Handed,
                ExtraSource, Applied, Surviving, Outcome
  <2> QED  BY <2>1, <2>2, <2>3, <2>4, <2>5, <2>6, <2>7, <2>8 DEF Next, Done
<1> QED  BY <1>1, <1>2, PTL DEF Spec

-----------------------------------------------------------------------------
(* What the invariant gives *)

(* The shape of the state, and where rules come from. *)
THEOREM TypeCorrect == Spec => []TypeOK
<1>1. IInv => TypeOK
  BY DEF IInv
<1> QED  BY <1>1, InductiveInvariant, PTL

(* Of the rules from the source of the last one, the winner is of the last
   statement, if it comes from that source at all. *)
LEMMA WinnerBesideLast ==
    ASSUME IInv, phase \in {"emit", "done"}, rules # <<>>,
           rules[winner].src \in DOMAIN page <=> Last(rules).src \in DOMAIN page
    PROVE  rules[winner].src = Last(rules).src /\ rules[winner].stmt = Last(rules).stmt
<1>1. /\ rules \in Seq(Rule) /\ Len(rules) \in Nat /\ DOMAIN rules = 1..Len(rules)
      /\ Len(rules) \in DOMAIN rules /\ Last(rules) = rules[Len(rules)]
  BY DEF IInv, TypeOK, Last
<1>2. /\ winner \in DOMAIN rules
      /\ \A s \in DOMAIN rules : s > winner => rules[s].to <= rules[winner].to
  BY DEF IInv, Won
<1>3. CASE winner = Len(rules)
  BY <1>1, <1>3
<1>4. CASE winner # Len(rules)
  <2>1. winner < Len(rules) /\ rules[Len(rules)].to <= rules[winner].to
    BY <1>1, <1>2, <1>4
  <2>2. NotBefore(rules[winner], rules[Len(rules)])
    BY <1>1, <1>2, <2>1 DEF IInv, Ascending
  <2>3. rules[winner] \in Rule /\ rules[Len(rules)] \in Rule
    BY <1>1, <1>2, ElementOfSeq
  <2> QED  BY <1>1, <2>1, <2>2, <2>3, SMTT(30) DEF NotBefore, SameStatement, Rule
<1> QED  BY <1>3, <1>4

(* Sources come in order, so that ExtraCSS gives the last rule if any. *)
LEMMA LastSource ==
    ASSUME IInv, rules # <<>>
    PROVE  /\ \A r \in DOMAIN rules : rules[r].src \in DOMAIN page <=> rules[r].src # ExtraSource
           /\ Last(rules).src # ExtraSource => \A r \in DOMAIN rules : rules[r].src # ExtraSource
<1>1. /\ Len(rules) \in Nat /\ DOMAIN rules = 1..Len(rules)
      /\ Len(rules) \in DOMAIN rules /\ Last(rules) = rules[Len(rules)]
      /\ Len(page) \in Nat /\ DOMAIN page = 1..Len(page)
  BY PageIs DEF IInv, TypeOK, Last
<1>2. /\ \A r \in DOMAIN rules : rules[r].src \in 1..ExtraSource
      /\ \A r, s \in DOMAIN rules : r < s => rules[r].src <= rules[s].src
  BY DEF IInv, TypeOK
<1>3. \A r \in DOMAIN rules : rules[r].src \in DOMAIN page <=> rules[r].src # ExtraSource
  BY <1>1, <1>2 DEF ExtraSource
<1>4. ASSUME Last(rules).src # ExtraSource, NEW r \in DOMAIN rules
      PROVE  rules[r].src # ExtraSource
  <2>1. r = Len(rules) \/ rules[r].src <= rules[Len(rules)].src
    BY <1>1, <1>2, <1>4
  <2>2. rules[r].src \in 1..ExtraSource /\ rules[Len(rules)].src \in 1..ExtraSource
    BY <1>1, <1>2, <1>4
  <2> QED  BY <1>1, <1>4, <2>1, <2>2 DEF ExtraSource
<1> QED  BY <1>3, <1>4

(***************************************************************************)
(* Between equals the last one written wins, over however many style       *)
(* elements the CSS is spread: their numbers run on from one to the next.  *)
(***************************************************************************)
THEOREM LastWins == Spec => []LastStyleElementWins
<1>1. ASSUME IInv PROVE LastStyleElementWins
  <2> SUFFICES ASSUME phase \in {"emit", "done"}, rules # <<>>, Last(rules).src # ExtraSource
               PROVE  rules[winner].src = Last(rules).src /\ rules[winner].stmt = Last(rules).stmt
    BY DEF LastStyleElementWins
  <2>1. winner \in DOMAIN rules
    BY <1>1 DEF IInv, Won
  <2>2. Len(rules) \in DOMAIN rules /\ Last(rules) = rules[Len(rules)]
    BY <1>1 DEF IInv, TypeOK, Last
  <2>3. rules[winner].src \in DOMAIN page /\ Last(rules).src \in DOMAIN page
    BY <1>1, <2>1, <2>2, LastSource
  <2> QED  BY <1>1, <2>3, WinnerBesideLast
<1> QED  BY <1>1, InductiveInvariant, PTL

(***************************************************************************)
(* ExtraCSS wins between equals whenever the numbers given out before it   *)
(* lie below its base; nothing else has to be assumed of the sheets.       *)
(***************************************************************************)
THEOREM ExtraWins == Spec => []ExtraCSSWinsFromItsBase
<1>1. ASSUME IInv PROVE ExtraCSSWinsFromItsBase
  <2> DEFINE collected == {r \in DOMAIN rules : rules[r].src # ExtraSource}
  <2> SUFFICES ASSUME phase = "done", rules # <<>>, Last(rules).src = ExtraSource,
                      \A r \in collected : rules[r].to < Shift * Cardinality(collected)
               PROVE  rules[winner].src = ExtraSource /\ rules[winner].stmt = Last(rules).stmt
    BY DEF ExtraCSSWinsFromItsBase
  <2>1. /\ rules \in Seq(Rule) /\ Len(rules) \in Nat /\ DOMAIN rules = 1..Len(rules)
        /\ Len(rules) \in DOMAIN rules /\ Last(rules) = rules[Len(rules)]
    BY <1>1 DEF IInv, TypeOK, Last
  <2>2. /\ winner \in DOMAIN rules
        /\ \A s \in DOMAIN rules : s > winner => rules[s].to <= rules[winner].to
    BY <1>1 DEF IInv, Won
  <2>3. PICK m \in 0..Len(rules) :
          /\ \A r \in DOMAIN rules : rules[r].src \in DOMAIN page <=> r <= m
          /\ \A r \in DOMAIN rules : r > m => rules[r].to >= Shift * m
    BY <1>1 DEF IInv, Based
  <2>4. \A r \in DOMAIN rules : r \in collected <=> r <= m
    BY <1>1, <2>3, LastSource
  <2>5. collected = 1..m
    BY <2>1, <2>4
  <2>6. Cardinality(collected) = m
    <3>1. 0 \in Int /\ 1 \in Int /\ m \in Int
      BY <2>1
    <3>2. Cardinality(1..m) = IF 1 > m THEN 0 ELSE m - 1 + 1
      BY <3>1, FS_Interval
    <3>3. Cardinality(1..m) = m
      BY <2>1, <3>2
    <3> HIDE DEF collected
    <3> QED  BY <2>5, <3>3
  <2>7. rules[winner].src = ExtraSource
    <3> SUFFICES ASSUME rules[winner].src # ExtraSource PROVE FALSE
      OBVIOUS
    <3>1. rules[winner].to < Shift * m
      BY <2>2, <2>6
    <3>2. Len(rules) \notin collected /\ winner \in collected
      BY <2>1, <2>2
    <3> HIDE DEF collected
    <3>3. winner <= m /\ Len(rules) > m
      BY <2>1, <2>2, <2>4, <3>2
    <3>4. rules[Len(rules)].to >= Shift * m /\ rules[Len(rules)].to <= rules[winner].to
      BY <2>1, <2>2, <2>3, <3>3
    <3>5. rules[winner] \in Rule /\ rules[Len(rules)] \in Rule
      BY <2>1, <2>2, ElementOfSeq
    <3>6. Shift * m \in Nat /\ rules[winner].to \in Nat /\ rules[Len(rules)].to \in Nat
      BY <2>1, <3>5, InlinerAssumption DEF Rule
    <3> QED  BY <3>1, <3>4, <3>6
  <2>8. rules[winner].src \in DOMAIN page <=> Last(rules).src \in DOMAIN page
    BY <2>7
  <2> QED  BY <1>1, <2>7, <2>8, WinnerBesideLast
<1> QED  BY <1>1, InductiveInvariant, PTL

(***************************************************************************)
(* What is read and cannot be inlined survives once, in its own style      *)
(* element or in what emitPreserved appends, whatever the other elements,  *)
(* ExtraCSS and the options are.  Of a style element removed unread        *)
(* nothing is said (inline.go, collectCSS).                                *)
(***************************************************************************)
THEOREM ReadStylesSurvive == Spec => []NothingReadIsLost
<1>1. ASSUME IInv PROVE NothingReadIsLost
  <2> SUFFICES ASSUME phase = "done"
               PROVE  /\ \A t \in DOMAIN page : Surviving(t) = Outcome(t)
                      /\ emitted = KeptOf(ExtraSource, extra)
    BY DEF NothingReadIsLost, Heard, Outcome, Applied
  <2>1. \A t \in DOMAIN page : t < tag
    BY <1>1, PageIs DEF IInv, Taken
  <2> QED  BY <1>1, <2>1 DEF IInv, Survives, Handed
<1> QED  BY <1>1, InductiveInvariant, PTL

-----------------------------------------------------------------------------
(* CodeBlocks: numbers *)

(* A quotient by the base is smaller, and with the remainder makes the number. *)
LEMMA Division ==
    ASSUME NEW b \in Nat, b > 1, NEW n \in Nat
    PROVE  /\ n \div b \in Nat /\ (n % b) \in 0 .. b - 1
           /\ (n \div b) * b + (n % b) = n
           /\ n > 0 => n \div b < n
<1>1. n \div b \in Nat /\ (n % b) \in 0 .. b - 1 /\ (n \div b) * b + (n % b) = n
  OBVIOUS
<1>2. n > 0 => n \div b < n
  <2> DEFINE q == n \div b
  <2> SUFFICES ASSUME n > 0, q >= n PROVE FALSE
    BY <1>1
  <2>1. q \in Nat /\ q * b <= n
    BY <1>1
  <2> HIDE DEF q
  <2>2. q * b >= q + q
    BY <2>1
  <2> QED  BY <2>1, <2>2
<1> QED  BY <1>1, <1>2

(* The base is an integer above one; digits are found by their value. *)
LEMMA DigitsAre ==
    /\ Base \in Nat /\ Base > 1
    /\ \A k \in 0 .. Base - 1 : /\ Digit(k) \in ToSet(Digits) /\ Val(Digit(k)) = k
    /\ \A a \in ToSet(Digits) : Val(a) \in Nat
<1>1. /\ Base \in Nat /\ Base > 1 /\ DOMAIN Digits = 1 .. Base
      /\ \A j, k \in DOMAIN Digits : Digits[j] = Digits[k] => j = k
  BY AtomsAssumption DEF Base
<1>2. ASSUME NEW k \in 0 .. Base - 1
      PROVE  Digit(k) \in ToSet(Digits) /\ Val(Digit(k)) = k
  <2>1. k + 1 \in DOMAIN Digits /\ Digit(k) = Digits[k + 1]
    BY <1>1 DEF Digit
  <2>2. (CHOOSE j \in DOMAIN Digits : Digits[j] = Digits[k + 1]) = k + 1
    BY <1>1, <2>1
  <2>3. Val(Digit(k)) = (k + 1) - 1
    BY <2>1, <2>2, Zenon DEF Val
  <2> QED  BY <2>1, <2>3 DEF ToSet
<1>3. ASSUME NEW a \in ToSet(Digits)
      PROVE  Val(a) \in Nat
  <2>1. \E j \in DOMAIN Digits : Digits[j] = a
    BY DEF ToSet
  <2>2. (CHOOSE j \in DOMAIN Digits : Digits[j] = a) \in DOMAIN Digits
    BY <2>1
  <2> QED  BY <1>1, <2>2 DEF Val
<1> QED  BY <1>1, <1>2, <1>3

(* What the recursive function in Numeral is, up to n. *)
NumeralUpTo(n, f) ==
    f = [k \in 0 .. n |-> IF k >= Base THEN Append(f[k \div Base], Digit(k % Base))
                          ELSE <<Digit(k)>>]

(* It exists, and has one value at each number, however far it goes. *)
LEMMA NumeralExists ==
    ASSUME NEW m \in Nat
    PROVE  \E f : NumeralUpTo(m, f)
<1> DEFINE G == {n \in Nat : \E f : NumeralUpTo(n, f)}
           Step(f, k) == IF k >= Base THEN Append(f[k \div Base], Digit(k % Base)) ELSE <<Digit(k)>>
<1>0. /\ Base \in Nat /\ Base > 1
      /\ \A k \in Nat : k \div Base \in Nat /\ (k > 0 => k \div Base < k)
  BY DigitsAre, Division
<1>1. 0 \in G
  <2> DEFINE f == [k \in 0 .. 0 |-> <<Digit(k)>>]
  <2>1. \A k \in 0 .. 0 : ~(k >= Base)
    BY <1>0
  <2>2. NumeralUpTo(0, f)
    BY <2>1 DEF NumeralUpTo
  <2> QED  BY <2>2
<1>2. ASSUME NEW n \in Nat, n \in G
      PROVE  n + 1 \in G
  <2>1. PICK f : NumeralUpTo(n, f)
    BY <1>2
  <2> DEFINE g == [k \in 0 .. n + 1 |-> IF k = n + 1 THEN Step(f, k) ELSE f[k]]
  <2>2. \A k \in 0 .. n : f[k] = Step(f, k)
    BY <2>1 DEF NumeralUpTo
  <2>3. \A k \in 0 .. n + 1 : k >= Base => k \div Base \in 0 .. n
    BY <1>0
  <2>4. \A k \in 0 .. n : g[k] = f[k]
    OBVIOUS
  <2>5. \A k \in 0 .. n + 1 : g[k] = Step(f, k)
    BY <2>2
  <2> HIDE DEF g
  <2>6. \A k \in 0 .. n + 1 : g[k] = Step(g, k)
    BY <2>3, <2>4, <2>5
  <2>7. g = [k \in 0 .. n + 1 |-> g[k]]
    BY DEF g
  <2> HIDE DEF Step
  <2>8. g = [k \in 0 .. n + 1 |-> Step(g, k)]
    BY <2>6, <2>7
  <2>9. NumeralUpTo(n + 1, g)
    BY <2>8 DEF NumeralUpTo, Step
  <2> QED  BY <2>9
<1> HIDE DEF G
<1>3. m \in G
  BY <1>1, <1>2, SetInduction
<1> QED  BY <1>3 DEF G

(* Two of them agree where both have a value. *)
LEMMA NumeralAgrees ==
    ASSUME NEW m \in Nat, NEW n \in Nat, NEW f, NEW g, NumeralUpTo(m, f), NumeralUpTo(n, g)
    PROVE  \A k \in 0 .. m : k <= n => f[k] = g[k]
<1> DEFINE G == {l \in Nat : \A k \in 0 .. m : k <= n /\ k <= l => f[k] = g[k]}
<1>0. /\ Base \in Nat /\ Base > 1
      /\ \A k \in Nat : k \div Base \in Nat /\ (k > 0 => k \div Base < k)
  BY DigitsAre, Division
<1>1. /\ \A k \in 0 .. m : f[k] = IF k >= Base THEN Append(f[k \div Base], Digit(k % Base)) ELSE <<Digit(k)>>
      /\ \A k \in 0 .. n : g[k] = IF k >= Base THEN Append(g[k \div Base], Digit(k % Base)) ELSE <<Digit(k)>>
  BY DEF NumeralUpTo
<1>2. 0 \in G
  <2>1. ~(0 >= Base) /\ 0 \in 0 .. m /\ 0 \in 0 .. n
    BY <1>0
  <2>2. f[0] = <<Digit(0)>> /\ g[0] = <<Digit(0)>>
    BY <1>1, <2>1
  <2>3. \A k \in 0 .. m : k <= 0 => k = 0
    OBVIOUS
  <2> QED  BY <2>2, <2>3
<1>3. ASSUME NEW l \in Nat, l \in G
      PROVE  l + 1 \in G
  <2> SUFFICES ASSUME NEW k \in 0 .. m, k <= n, k <= l + 1 PROVE f[k] = g[k]
    OBVIOUS
  <2>1. k \in 0 .. n
    OBVIOUS
  <2>2. CASE k >= Base
    <3> DEFINE j == k \div Base
    <3>1. j \in 0 .. m /\ j <= n /\ j <= l
      BY <1>0, <2>2
    <3>2. f[k] = Append(f[j], Digit(k % Base)) /\ g[k] = Append(g[j], Digit(k % Base))
      BY <1>1, <2>1, <2>2
    <3> HIDE DEF j
    <3>3. f[j] = g[j]
      BY <1>3, <3>1
    <3> QED  BY <3>2, <3>3
  <2>3. CASE ~(k >= Base)
    BY <1>1, <2>1, <2>3
  <2> QED  BY <2>2, <2>3
<1> HIDE DEF G
<1>4. m \in G
  BY <1>2, <1>3, SetInduction
<1> QED  BY <1>4 DEF G

(* A numeral is that of the quotient by the base, and the remainder's digit. *)
LEMMA NumeralIs ==
    ASSUME NEW n \in Nat
    PROVE  Numeral(n) = IF n >= Base THEN Append(Numeral(n \div Base), Digit(n % Base))
                        ELSE <<Digit(n)>>
<1> DEFINE F(m) == CHOOSE f : NumeralUpTo(m, f)
<1>1. ASSUME NEW m \in Nat
      PROVE  Numeral(m) = F(m)[m] /\ NumeralUpTo(m, F(m))
  <2>1. Numeral(m) = F(m)[m]
    BY Zenon DEF Numeral, NumeralUpTo
  <2>2. NumeralUpTo(m, F(m))
    BY NumeralExists, Zenon
  <2> QED  BY <2>1, <2>2
<1> HIDE DEF F
<1>2. n \div Base \in Nat /\ (n >= Base => n \div Base < n) /\ Base \in Nat /\ Base > 1
  BY DigitsAre, Division
<1>3. F(n)[n] = IF n >= Base THEN Append(F(n)[n \div Base], Digit(n % Base)) ELSE <<Digit(n)>>
  <2> DEFINE f == F(n)
  <2>1. NumeralUpTo(n, f) /\ n \in 0 .. n
    BY <1>1
  <2> HIDE DEF f
  <2>2. f[n] = IF n >= Base THEN Append(f[n \div Base], Digit(n % Base)) ELSE <<Digit(n)>>
    BY <2>1 DEF NumeralUpTo
  <2> QED  BY <2>2 DEF f
<1>4. CASE n >= Base
  <2> DEFINE q == n \div Base
  <2>1. q \in Nat /\ q \in 0 .. q /\ q <= n /\ NumeralUpTo(q, F(q)) /\ NumeralUpTo(n, F(n))
    BY <1>1, <1>2, <1>4
  <2> HIDE DEF q
  <2>2. F(n)[q] = F(q)[q]
    BY <2>1, NumeralAgrees
  <2>3. Numeral(n) = F(n)[n] /\ Numeral(q) = F(q)[q]
    BY <1>1, <2>1
  <2>4. Numeral(n) = Append(Numeral(q), Digit(n % Base))
    BY <1>3, <1>4, <2>2, <2>3 DEF q
  <2> QED  BY <1>4, <2>4 DEF q
<1>5. CASE ~(n >= Base)
  BY <1>1, <1>3, <1>5
<1> QED  BY <1>4, <1>5

(* What a sequence of digits writes. *)
Worth(s) == FoldLeft(LAMBDA n, c : n * Base + Val(c), 0, s)

(* The fold is the value of a function over the sets of positions: the last
   position of a set is folded onto what the others come to. *)
FoldOver(s, D, iter) ==
    iter = [T \in SUBSET D |-> IF T = {} THEN 0
                               ELSE iter[T \ {Max(T)}] * Base + Val(s[Max(T)])]

(* The fold in Worth is such a function. *)
LEMMA WorthFolds ==
    ASSUME NEW s
    PROVE  Worth(s) = (CHOOSE iter : FoldOver(s, DOMAIN s, iter))[DOMAIN s]
  BY Zenon DEF Worth, FoldLeft, MapThenFoldSet, FoldOver

(* The last of the first n positions. *)
LEMMA LastOf ==
    ASSUME NEW n \in Nat, NEW T \in SUBSET (1 .. n + 1), n + 1 \in T
    PROVE  Max(T) = n + 1
<1>1. \E x \in T : \A y \in T : x >= y
  OBVIOUS
<1>2. Max(T) \in T /\ \A y \in T : Max(T) >= y
  BY <1>1, Zenon DEF Max
<1>3. Max(T) \in 1 .. n + 1 /\ Max(T) >= n + 1
  BY <1>2
<1> QED  BY <1>3

LEMMA FoldExists ==
    ASSUME NEW s, NEW m \in Nat
    PROVE  \E iter : FoldOver(s, 1 .. m, iter)
<1> DEFINE G == {n \in Nat : \E iter : FoldOver(s, 1 .. n, iter)}
           Step(f, T) == IF T = {} THEN 0 ELSE f[T \ {Max(T)}] * Base + Val(s[Max(T)])
<1>1. 0 \in G
  <2> DEFINE f == [T \in SUBSET (1 .. 0) |-> 0]
  <2>1. \A T \in SUBSET (1 .. 0) : T = {}
    OBVIOUS
  <2>2. FoldOver(s, 1 .. 0, f)
    BY <2>1 DEF FoldOver
  <2> QED  BY <2>2
<1>2. ASSUME NEW n \in Nat, n \in G
      PROVE  n + 1 \in G
  <2>1. PICK f : FoldOver(s, 1 .. n, f)
    BY <1>2
  <2> DEFINE g == [T \in SUBSET (1 .. n + 1) |->
                     IF n + 1 \in T THEN f[T \ {n + 1}] * Base + Val(s[n + 1]) ELSE f[T]]
  <2>2. \A T \in SUBSET (1 .. n) : f[T] = Step(f, T)
    BY <2>1 DEF FoldOver
  <2>3. /\ \A T \in SUBSET (1 .. n) : T \in SUBSET (1 .. n + 1) /\ n + 1 \notin T
        /\ \A T \in SUBSET (1 .. n + 1) : /\ n + 1 \notin T => T \in SUBSET (1 .. n)
                                          /\ T \ {n + 1} \in SUBSET (1 .. n)
    OBVIOUS
  <2>4. \A T \in SUBSET (1 .. n) : g[T] = f[T]
    BY <2>3
  <2>5. ASSUME NEW T \in SUBSET (1 .. n + 1)
        PROVE  g[T] = Step(g, T)
    <3>1. CASE n + 1 \in T
      <4>1. Max(T) = n + 1
        BY <3>1, LastOf
      <4>2. g[T] = f[T \ {n + 1}] * Base + Val(s[n + 1])
        BY <3>1
      <4> HIDE DEF g
      <4>3. g[T \ {n + 1}] = f[T \ {n + 1}]
        BY <2>3, <2>4
      <4> QED  BY <3>1, <4>1, <4>2, <4>3
    <3>2. CASE n + 1 \notin T
      <4>1. T \in SUBSET (1 .. n) /\ T \ {Max(T)} \in SUBSET (1 .. n)
        BY <2>3, <3>2
      <4>2. g[T] = f[T] /\ g[T \ {Max(T)}] = f[T \ {Max(T)}]
        BY <2>4, <4>1
      <4>3. f[T] = Step(f, T)
        BY <2>2, <4>1
      <4> HIDE DEF g
      <4> QED  BY <4>2, <4>3
    <3> QED  BY <3>1, <3>2
  <2>6. g = [T \in SUBSET (1 .. n + 1) |-> g[T]]
    OBVIOUS
  <2> HIDE DEF g
  <2> HIDE DEF Step
  <2>7. g = [T \in SUBSET (1 .. n + 1) |-> Step(g, T)]
    BY <2>5, <2>6
  <2>8. FoldOver(s, 1 .. n + 1, g)
    BY <2>7 DEF FoldOver, Step
  <2> QED  BY <2>8
<1> HIDE DEF G
<1>3. m \in G
  BY <1>1, <1>2, SetInduction
<1> QED  BY <1>3 DEF G

(* So the fold goes through the positions in their order. *)
LEMMA WorthIs ==
    ASSUME NEW s, Len(s) \in Nat, DOMAIN s = 1 .. Len(s)
    PROVE  \E h : /\ Worth(s) = h[Len(s)] /\ h[0] = 0
                  /\ \A k \in 1 .. Len(s) : h[k] = h[k - 1] * Base + Val(s[k])
<1> DEFINE F == CHOOSE iter : FoldOver(s, 1 .. Len(s), iter)
           h == [k \in 0 .. Len(s) |-> F[1 .. k]]
<1>1. FoldOver(s, 1 .. Len(s), F)
  BY FoldExists, Zenon
<1>2. Worth(s) = F[1 .. Len(s)]
  BY WorthFolds
<1> HIDE DEF F
<1>3. \A T \in SUBSET (1 .. Len(s)) :
         F[T] = IF T = {} THEN 0 ELSE F[T \ {Max(T)}] * Base + Val(s[Max(T)])
  BY <1>1 DEF FoldOver
<1>4. h[0] = 0 /\ Worth(s) = h[Len(s)]
  <2>1. 1 .. 0 = {} /\ 0 \in 0 .. Len(s) /\ Len(s) \in 0 .. Len(s)
    OBVIOUS
  <2> QED  BY <1>2, <1>3, <2>1
<1>5. ASSUME NEW k \in 1 .. Len(s)
      PROVE  h[k] = h[k - 1] * Base + Val(s[k])
  <2> DEFINE T == 1 .. k
  <2>1. T \in SUBSET (1 .. Len(s)) /\ T # {} /\ T \ {k} = 1 .. k - 1
    <3>1. \A x : x \in T \ {k} <=> x \in 1 .. k - 1
      OBVIOUS
    <3>2. T \in SUBSET (1 .. Len(s)) /\ k \in T
      OBVIOUS
    <3> HIDE DEF T
    <3> QED  BY <3>1, <3>2
  <2>2. k - 1 \in Nat /\ T \in SUBSET (1 .. (k - 1) + 1) /\ (k - 1) + 1 \in T /\ (k - 1) + 1 = k
    OBVIOUS
  <2>3. h[k] = F[T] /\ h[k - 1] = F[1 .. k - 1]
    OBVIOUS
  <2> HIDE DEF T, h
  <2>4. Max(T) = k
    BY <2>2, LastOf
  <2>5. F[T] = F[T \ {Max(T)}] * Base + Val(s[Max(T)])
    BY <1>3, <2>1
  <2> QED  BY <2>1, <2>3, <2>4, <2>5
<1> QED  BY <1>4, <1>5

(* One digit more: the base times what was written before, and the digit. *)
LEMMA WorthAppend ==
    ASSUME NEW S, NEW u \in Seq(S), NEW c \in S
    PROVE  Worth(Append(u, c)) = Worth(u) * Base + Val(c)
<1> DEFINE v == Append(u, c)
<1>1. /\ Len(u) \in Nat /\ DOMAIN u = 1 .. Len(u) /\ Len(v) = Len(u) + 1 /\ Len(v) \in Nat
      /\ DOMAIN v = 1 .. Len(v) /\ v[Len(v)] = c /\ \A k \in 1 .. Len(u) : v[k] = u[k]
  OBVIOUS
<1> HIDE DEF v
<1>2. PICK g : /\ Worth(u) = g[Len(u)] /\ g[0] = 0
               /\ \A k \in 1 .. Len(u) : g[k] = g[k - 1] * Base + Val(u[k])
  BY <1>1, WorthIs
<1>3. PICK h : /\ Worth(v) = h[Len(v)] /\ h[0] = 0
               /\ \A k \in 1 .. Len(v) : h[k] = h[k - 1] * Base + Val(v[k])
  BY <1>1, WorthIs
<1> DEFINE G == {k \in Nat : k <= Len(u) => g[k] = h[k]}
<1>4. 0 \in G
  BY <1>2, <1>3
<1>5. ASSUME NEW k \in Nat, k \in G
      PROVE  k + 1 \in G
  <2> SUFFICES ASSUME k + 1 <= Len(u) PROVE g[k + 1] = h[k + 1]
    OBVIOUS
  <2>1. g[k] = h[k] /\ k + 1 \in 1 .. Len(u) /\ k + 1 \in 1 .. Len(v) /\ (k + 1) - 1 = k
    BY <1>1, <1>5
  <2>2. g[k + 1] = g[k] * Base + Val(u[k + 1])
    BY <1>2, <2>1
  <2>3. h[k + 1] = h[k] * Base + Val(v[k + 1])
    BY <1>3, <2>1
  <2> QED  BY <1>1, <2>1, <2>2, <2>3
<1> HIDE DEF G
<1>6. Len(u) \in G
  BY <1>1, <1>4, <1>5, SetInduction
<1>7. g[Len(u)] = h[Len(u)]
  BY <1>1, <1>6 DEF G
<1>8. h[Len(v)] = h[Len(u)] * Base + Val(c)
  <2>1. Len(v) \in 1 .. Len(v) /\ Len(v) - 1 = Len(u)
    BY <1>1
  <2> QED  BY <1>1, <1>3, <2>1
<1> QED  BY <1>2, <1>3, <1>7, <1>8 DEF v

(* Digits write a natural number. *)
LEMMA WorthNat ==
    ASSUME NEW u \in Seq(ToSet(Digits))
    PROVE  Worth(u) \in Nat
<1>1. Len(u) \in Nat /\ DOMAIN u = 1 .. Len(u) /\ \A k \in 1 .. Len(u) : u[k] \in ToSet(Digits)
  OBVIOUS
<1>2. PICK h : /\ Worth(u) = h[Len(u)] /\ h[0] = 0
               /\ \A k \in 1 .. Len(u) : h[k] = h[k - 1] * Base + Val(u[k])
  BY <1>1, WorthIs
<1> DEFINE G == {k \in Nat : k <= Len(u) => h[k] \in Nat}
<1>3. 0 \in G
  BY <1>2
<1>4. ASSUME NEW k \in Nat, k \in G
      PROVE  k + 1 \in G
  <2> SUFFICES ASSUME k + 1 <= Len(u) PROVE h[k + 1] \in Nat
    OBVIOUS
  <2>1. h[k] \in Nat /\ k + 1 \in 1 .. Len(u) /\ (k + 1) - 1 = k
    BY <1>1, <1>4
  <2>2. h[k + 1] = h[k] * Base + Val(u[k + 1])
    BY <1>2, <2>1
  <2>3. Base \in Nat /\ Val(u[k + 1]) \in Nat
    BY <1>1, <2>1, DigitsAre
  <2> QED  BY <2>1, <2>2, <2>3
<1> HIDE DEF G
<1>5. Len(u) \in G
  BY <1>1, <1>3, <1>4, SetInduction
<1> QED  BY <1>1, <1>2, <1>5 DEF G

(* The number a numeral writes is the one it was made from. *)
LEMMA NumeralWorth ==
    ASSUME NEW m \in Nat
    PROVE  /\ Numeral(m) \in Seq(ToSet(Digits)) /\ Len(Numeral(m)) > 0
           /\ Worth(Numeral(m)) = m
<1> DEFINE D == ToSet(Digits)
           P(n) == Numeral(n) \in Seq(D) /\ Len(Numeral(n)) > 0 /\ Worth(Numeral(n)) = n
           G == {n \in Nat : \A k \in 0 .. n : P(k)}
<1>0. Base \in Nat /\ Base > 1
  BY DigitsAre
<1>1. ASSUME NEW n \in Nat, ~(n >= Base)
      PROVE  P(n)
  <2>1. Digit(n) \in D /\ Val(Digit(n)) = n
    BY <1>0, <1>1, DigitsAre
  <2>2. Numeral(n) = <<Digit(n)>> /\ <<Digit(n)>> = Append(<<>>, Digit(n)) /\ <<>> \in Seq(D)
    BY <1>1, NumeralIs
  <2>3. Worth(<<>>) = 0
    <3>1. Len(<<>>) \in Nat /\ DOMAIN <<>> = 1 .. Len(<<>>) /\ Len(<<>>) = 0
      OBVIOUS
    <3> QED  BY <3>1, WorthIs
  <2> HIDE DEF D
  <2>4. Worth(Append(<<>>, Digit(n))) = 0 * Base + Val(Digit(n))
    BY <2>1, <2>2, <2>3, WorthAppend
  <2>5. <<Digit(n)>> \in Seq(D) /\ Len(<<Digit(n)>>) = 1
    BY <2>1
  <2> QED  BY <1>0, <2>1, <2>2, <2>4, <2>5
<1>2. ASSUME NEW n \in Nat, n >= Base, P(n \div Base)
      PROVE  P(n)
  <2> DEFINE q == n \div Base
             r == n % Base
  <2>1. r \in 0 .. Base - 1 /\ q * Base + r = n
    BY <1>0, Division
  <2> HIDE DEF q, r
  <2>2. Digit(r) \in D /\ Val(Digit(r)) = r
    BY <2>1, DigitsAre
  <2>3. Numeral(n) = Append(Numeral(q), Digit(r))
    BY <1>2, NumeralIs DEF q, r
  <2>4. Numeral(q) \in Seq(D) /\ Worth(Numeral(q)) = q
    BY <1>2 DEF q
  <2> HIDE DEF D
  <2>5. Worth(Numeral(n)) = q * Base + r
    BY <2>2, <2>3, <2>4, WorthAppend
  <2>6. Numeral(n) \in Seq(D) /\ Len(Numeral(n)) > 0
    BY <2>2, <2>3, <2>4
  <2> QED  BY <2>1, <2>5, <2>6
<1> HIDE DEF P
<1>3. 0 \in G
  BY <1>0, <1>1
<1>4. ASSUME NEW n \in Nat, n \in G
      PROVE  n + 1 \in G
  <2>1. P(n + 1)
    <3>1. CASE n + 1 >= Base
      <4>1. (n + 1) \div Base \in 0 .. n
        BY <1>0, Division
      <4> QED  BY <1>2, <1>4, <3>1, <4>1
    <3> QED  BY <1>1, <3>1
  <2>2. \A k \in 0 .. n + 1 : k \in 0 .. n \/ k = n + 1
    OBVIOUS
  <2> QED  BY <1>4, <2>1, <2>2
<1> HIDE DEF G
<1>5. m \in G
  BY <1>3, <1>4, SetInduction
<1>6. P(m)
  BY <1>5 DEF G
<1> QED  BY <1>6 DEF P

-----------------------------------------------------------------------------
(* CodeBlocks: the blocks of a document *)

(* An atom that opens a block. *)
Opening(a) == \E d \in Delimiters : a = d[1]

(* Texts. *)
AtomsOf(d) == UNION {ToSet(d), ToSet(Digits), {Prefix, Underscore, "x"}}

(* f is a list of blocks of d, one behind the other. *)
BlocksOf(d, f) ==
    /\ f \in Seq(Nat \X Nat)
    /\ \A k \in DOMAIN f :
          /\ 1 <= f[k][1] /\ f[k][1] <= f[k][2] /\ f[k][2] <= Len(d)
          /\ <<d[f[k][1]], d[f[k][2]]>> \in Delimiters
          /\ k > 1 => f[k - 1][2] < f[k][1]

(* Where d goes on behind its first m blocks. *)
Past(f, m) == IF m = 0 THEN 1 ELSE f[m][2] + 1

(* A document is a sequence of its atoms. *)
LEMMA DocumentIs ==
    ASSUME NEW d \in Documents
    PROVE  /\ d \in Seq(AtomsOf(d)) /\ Len(d) \in Nat /\ DOMAIN d = 1 .. Len(d)
           /\ Len(d) < IntHalf
<1>1. d \in Seq(ToSet(d)) /\ Len(d) < IntHalf
  BY DocumentsAssumption
<1>2. \A k \in DOMAIN d : d[k] \in AtomsOf(d)
  BY DEF AtomsOf, ToSet
<1>3. Len(d) \in Nat /\ DOMAIN d = 1 .. Len(d)
  BY <1>1
<1>4. d = [k \in 1 .. Len(d) |-> d[k]]
  BY <1>1
<1> QED  BY <1>1, <1>2, <1>3, <1>4, SeqDef

(* The next block begins at the first opening delimiter, which something
   closes; without one, nothing opens or what opens first is not closed. *)
LEMMA NextBlockIs ==
    ASSUME NEW S, NEW s \in Seq(S), NEW k \in Nat, k >= 1
    PROVE  /\ NextBlock(s, k) # <<>> =>
                 \E p, q \in Nat :
                    /\ NextBlock(s, k) = <<p, q>> /\ k <= p /\ p <= q /\ q <= Len(s)
                    /\ <<s[p], s[q]>> \in Delimiters
                    /\ \A y \in k .. p - 1 : ~Opening(s[y])
           /\ NextBlock(s, k) = <<>> =>
                 \/ \A y \in k .. Len(s) : ~Opening(s[y])
                 \/ \E p \in k .. Len(s) : /\ Opening(s[p]) /\ Closings(s, p) = {}
                                          /\ \A y \in k .. p - 1 : ~Opening(s[y])
<1>1. Len(s) \in Nat
  OBVIOUS
<1>2. /\ Openings(s, k) \in SUBSET Nat
      /\ \A y \in Nat : y \in Openings(s, k) <=> y \in k .. Len(s) /\ Opening(s[y])
  BY <1>1 DEF Openings, Opening
<1>3. CASE Openings(s, k) = {}
  <2>1. NextBlock(s, k) = <<>>
    BY <1>3 DEF NextBlock
  <2>2. \A y \in k .. Len(s) : ~Opening(s[y])
    BY <1>1, <1>2, <1>3
  <2> QED  BY <2>1, <2>2
<1>4. CASE Openings(s, k) # {}
  <2> DEFINE p == Min(Openings(s, k))
             C == Closings(s, p)
  <2>1. p \in Openings(s, k) /\ \A y \in Openings(s, k) : p <= y
    BY <1>2, <1>4, MinIs
  <2>2. NextBlock(s, k) = IF C = {} THEN <<>> ELSE <<p, Min(C)>>
    BY <1>4 DEF NextBlock
  <2> HIDE DEF p
  <2>3. p \in k .. Len(s) /\ Opening(s[p]) /\ \A y \in k .. p - 1 : ~Opening(s[y])
    BY <1>1, <1>2, <2>1
  <2>4. C \in SUBSET Nat /\ \A y \in C : p <= y /\ y <= Len(s) /\ <<s[p], s[y]>> \in Delimiters
    BY <1>1, <2>3 DEF Closings
  <2> HIDE DEF C
  <2>5. CASE C = {}
    <3>1. Closings(s, p) = {} /\ NextBlock(s, k) = <<>>
      BY <2>2, <2>5 DEF C
    <3> QED  BY <2>3, <3>1
  <2>6. CASE C # {}
    <3>1. Min(C) \in C
      BY <2>4, <2>6, MinIs
    <3>2. NextBlock(s, k) = <<p, Min(C)>>
      BY <2>2, <2>6
    <3> DEFINE q == Min(C)
    <3>3. q \in C /\ NextBlock(s, k) = <<p, q>>
      BY <3>1, <3>2
    <3> HIDE DEF q
    <3>4. p \in Nat /\ q \in Nat /\ k <= p /\ p <= q /\ q <= Len(s) /\ <<s[p], s[q]>> \in Delimiters
      BY <2>3, <2>4, <3>3
    <3>5. NextBlock(s, k) # <<>>
      BY <3>3
    <3> QED  BY <2>3, <3>3, <3>4, <3>5
  <2> QED  BY <2>5, <2>6
<1> QED  BY <1>3, <1>4

(* A block that begins behind the others may be added to them. *)
LEMMA BlocksGrow ==
    ASSUME NEW d, Len(d) \in Nat, NEW f, BlocksOf(d, f), NEW p \in Nat, NEW q \in Nat,
           Past(f, Len(f)) <= p, p <= q, q <= Len(d), <<d[p], d[q]>> \in Delimiters
    PROVE  /\ BlocksOf(d, Append(f, <<p, q>>))
           /\ \A m \in 0 .. Len(f) : Past(Append(f, <<p, q>>), m) = Past(f, m)
           /\ Past(Append(f, <<p, q>>), Len(f) + 1) = q + 1
<1> DEFINE g == Append(f, <<p, q>>)
<1>1. /\ f \in Seq(Nat \X Nat) /\ Len(f) \in Nat /\ DOMAIN f = 1 .. Len(f)
      /\ g \in Seq(Nat \X Nat) /\ Len(g) = Len(f) + 1 /\ DOMAIN g = 1 .. Len(f) + 1
      /\ \A k \in 1 .. Len(f) : g[k] = f[k]
      /\ g[Len(f) + 1] = <<p, q>>
  BY DEF BlocksOf
<1> HIDE DEF g
<1>2. g[Len(f) + 1][1] = p /\ g[Len(f) + 1][2] = q
  BY <1>1
<1>3. ASSUME NEW k \in 1 .. Len(f) + 1
      PROVE  /\ 1 <= g[k][1] /\ g[k][1] <= g[k][2] /\ g[k][2] <= Len(d)
             /\ <<d[g[k][1]], d[g[k][2]]>> \in Delimiters
             /\ k > 1 => g[k - 1][2] < g[k][1]
  <2>1. CASE k \in 1 .. Len(f)
    <3>1. k > 1 => k - 1 \in 1 .. Len(f)
      BY <1>1, <2>1
    <3>2. g[k] = f[k] /\ (k > 1 => g[k - 1] = f[k - 1])
      BY <1>1, <2>1, <3>1
    <3> QED  BY <1>1, <2>1, <3>1, <3>2 DEF BlocksOf
  <2>2. CASE k = Len(f) + 1
    <3>0. k > 1 => Len(f) \in 1 .. Len(f) /\ k - 1 = Len(f)
      BY <1>1, <2>2
    <3>1. k > 1 => Len(f) \in 1 .. Len(f) /\ g[k - 1] = f[Len(f)] /\ f[Len(f)] \in Nat \X Nat
      BY <1>1, <3>0
    <3>2. k > 1 => f[Len(f)][2] < p
      BY <1>1, <2>2, <3>1 DEF Past
    <3>3. 1 <= p
      <4>1. CASE Len(f) = 0
        BY <4>1 DEF Past
      <4>2. CASE Len(f) # 0
        <5>1. f[Len(f)][2] \in Nat /\ f[Len(f)][2] < p
          BY <1>1, <2>2, <3>1, <3>2, <4>2
        <5> QED  BY <5>1
      <4> QED  BY <4>1, <4>2
    <3> QED  BY <1>2, <2>2, <3>1, <3>2, <3>3
  <2> QED  BY <1>1, <2>1, <2>2
<1>4. BlocksOf(d, g)
  BY <1>1, <1>3 DEF BlocksOf
<1>5. \A m \in 0 .. Len(f) : Past(g, m) = Past(f, m)
  BY <1>1 DEF Past
<1>6. Past(g, Len(f) + 1) = q + 1
  BY <1>1, <1>2 DEF Past
<1> QED  BY <1>4, <1>5, <1>6 DEF g

(* There are no more blocks than atoms behind which the last one ends. *)
LEMMA BlocksFit ==
    ASSUME NEW d, Len(d) \in Nat, NEW f, BlocksOf(d, f)
    PROVE  /\ Len(f) \in Nat /\ DOMAIN f = 1 .. Len(f) /\ Len(f) <= Len(d)
           /\ \A m \in 0 .. Len(f) : /\ Past(f, m) \in Nat /\ 1 <= Past(f, m)
                                     /\ Past(f, m) <= Len(d) + 1
           /\ \A m \in 1 .. Len(f) : /\ f[m][1] \in Nat /\ f[m][2] \in Nat
                                     /\ Past(f, m - 1) <= f[m][1] /\ f[m][1] < Past(f, m)
                                     /\ Past(f, m) = f[m][2] + 1
<1>1. Len(f) \in Nat /\ DOMAIN f = 1 .. Len(f) /\ \A m \in 1 .. Len(f) : f[m] \in Nat \X Nat
  BY DEF BlocksOf
<1>2. ASSUME NEW m \in 1 .. Len(f)
      PROVE  /\ f[m][1] \in Nat /\ f[m][2] \in Nat
             /\ Past(f, m - 1) <= f[m][1] /\ f[m][1] < Past(f, m)
             /\ Past(f, m) = f[m][2] + 1 /\ f[m][2] <= Len(d)
  <2>1. f[m][1] \in Nat /\ f[m][2] \in Nat
    BY <1>1
  <2>2. 1 <= f[m][1] /\ f[m][1] <= f[m][2] /\ f[m][2] <= Len(d) /\ (m > 1 => f[m - 1][2] < f[m][1])
    BY <1>1 DEF BlocksOf
  <2>3. m > 1 => f[m - 1][2] \in Nat
    <3>1. m > 1 => m - 1 \in 1 .. Len(f)
      BY <1>1
    <3> QED  BY <1>1, <3>1
  <2> QED  BY <2>1, <2>2, <2>3 DEF Past
<1>3. ASSUME NEW m \in 0 .. Len(f)
      PROVE  Past(f, m) \in Nat /\ 1 <= Past(f, m) /\ Past(f, m) <= Len(d) + 1
  <2>1. CASE m = 0
    BY <2>1 DEF Past
  <2>2. CASE m # 0
    <3>1. m \in 1 .. Len(f)
      BY <1>1, <2>2
    <3> QED  BY <1>2, <3>1
  <2> QED  BY <2>1, <2>2
<1> DEFINE G == {m \in Nat : m <= Len(f) => m < Past(f, m)}
<1>4. 0 \in G
  BY DEF Past
<1>5. ASSUME NEW m \in Nat, m \in G
      PROVE  m + 1 \in G
  <2> SUFFICES ASSUME m + 1 <= Len(f) PROVE m + 1 < Past(f, m + 1)
    OBVIOUS
  <2>1. m < Past(f, m) /\ m \in 0 .. Len(f) /\ m + 1 \in 1 .. Len(f) /\ (m + 1) - 1 = m
    BY <1>1, <1>5
  <2>2. Past(f, m) <= f[m + 1][1] /\ f[m + 1][1] < Past(f, m + 1) /\ f[m + 1][1] \in Nat
    BY <1>2, <2>1
  <2>3. Past(f, m) \in Nat /\ Past(f, m + 1) \in Nat
    BY <1>1, <1>3, <2>1
  <2> QED  BY <2>1, <2>2, <2>3
<1> HIDE DEF G
<1>6. Len(f) \in G
  BY <1>1, <1>4, <1>5, SetInduction
<1>7. Len(f) <= Len(d)
  <2>1. Len(f) < Past(f, Len(f)) /\ Len(f) \in 0 .. Len(f)
    BY <1>1, <1>6 DEF G
  <2> QED  BY <1>1, <1>3, <2>1
<1> QED  BY <1>1, <1>2, <1>3, <1>7

-----------------------------------------------------------------------------
(* CodeBlocks: the encoded text *)

(* A placeholder: the prefix, the digits of its number, the underscore. *)
LEMMA PlaceholderIs ==
    ASSUME NEW n \in Nat
    PROVE  /\ placeholder(n) \in Seq(ToSet(Digits) \union {Prefix, Underscore})
           /\ Len(Numeral(n)) \in Nat /\ Len(Numeral(n)) > 0
           /\ Len(placeholder(n)) = Len(Numeral(n)) + 2
           /\ placeholder(n)[1] = Prefix
           /\ placeholder(n)[Len(Numeral(n)) + 2] = Underscore
           /\ \A j \in 1 .. Len(Numeral(n)) : /\ placeholder(n)[j + 1] = Numeral(n)[j]
                                              /\ Numeral(n)[j] \in ToSet(Digits)
<1> DEFINE D == ToSet(Digits)
           A == D \union {Prefix, Underscore}
           u == Numeral(n)
<1>1. u \in Seq(D) /\ Len(u) > 0
  BY NumeralWorth
<1>2. placeholder(n) = (<<Prefix>> \o u) \o <<Underscore>>
  BY DEF placeholder
<1> HIDE DEF u, D
<1>3. u \in Seq(A) /\ <<Prefix>> \in Seq(A) /\ <<Underscore>> \in Seq(A)
  BY <1>1, SeqDef
<1> HIDE DEF A
<1> DEFINE v == <<Prefix>> \o u
<1>4. /\ v \in Seq(A) /\ Len(v) = Len(u) + 1 /\ v[1] = Prefix /\ Len(u) \in Nat
      /\ \A j \in 1 .. Len(u) : v[j + 1] = u[j]
  BY <1>3
<1>5. placeholder(n) = v \o <<Underscore>>
  BY <1>2
<1> HIDE DEF v
<1>6. /\ placeholder(n) \in Seq(A) /\ Len(placeholder(n)) = Len(v) + 1
      /\ placeholder(n)[Len(v) + 1] = Underscore
      /\ \A j \in 1 .. Len(v) : placeholder(n)[j] = v[j]
  BY <1>3, <1>4, <1>5
<1>7. ASSUME NEW j \in 1 .. Len(u)
      PROVE  placeholder(n)[j + 1] = u[j] /\ u[j] \in D
  <2>1. j + 1 \in 1 .. Len(v)
    BY <1>4
  <2>2. u[j] \in D
    BY <1>1
  <2> QED  BY <1>4, <1>6, <2>1, <2>2
<1>8. placeholder(n)[1] = Prefix
  BY <1>4, <1>6
<1>9. Len(v) + 1 = Len(u) + 2
  BY <1>4
<1> QED  BY <1>1, <1>4, <1>6, <1>7, <1>8, <1>9 DEF u, D, A

(* Where placeholder m stands, if off says where the text behind each number of
   blocks begins. *)
At(f, off, m) == off[m] + (f[m + 1][1] - Past(f, m))

(* The text t begins with the first n blocks of d encoded: what d has between
   them, and placeholders. Nothing else is in it. *)
Encodes(d, f, n, t, off) ==
    /\ off \in [0 .. n -> Nat] /\ off[0] = 1
    /\ \A m \in 0 .. n - 1 :
          /\ off[m + 1] = At(f, off, m) + Len(placeholder(m))
          /\ \A y \in Past(f, m) .. f[m + 1][1] - 1 : t[off[m] + (y - Past(f, m))] = d[y]
          /\ \A j \in 1 .. Len(placeholder(m)) : t[At(f, off, m) + (j - 1)] = placeholder(m)[j]
    /\ \A k \in 1 .. off[n] - 1 : \E m \in 0 .. n - 1 :
          \/ \E y \in Past(f, m) .. f[m + 1][1] - 1 : k = off[m] + (y - Past(f, m))
          \/ \E j \in 1 .. Len(placeholder(m)) : k = At(f, off, m) + (j - 1)

(* Placeholders stand one behind the other. *)
LEMMA OffsetsRise ==
    ASSUME NEW d, Len(d) \in Nat, NEW f, BlocksOf(d, f), NEW t, NEW off, NEW n \in 0 .. Len(f),
           Encodes(d, f, n, t, off)
    PROVE  /\ \A m \in 0 .. n : off[m] \in Nat /\ 1 <= off[m] /\ off[m] <= off[n]
           /\ \A m \in 0 .. n - 1 : /\ At(f, off, m) \in Nat /\ off[m] <= At(f, off, m)
                                    /\ At(f, off, m) + Len(placeholder(m)) = off[m + 1]
                                    /\ At(f, off, m) < off[m + 1] /\ off[m + 1] <= off[n]
<1>1. /\ n \in Nat /\ \A m \in 0 .. n : off[m] \in Nat
      /\ off[0] = 1 /\ \A m \in 0 .. n - 1 : off[m + 1] = At(f, off, m) + Len(placeholder(m))
  BY BlocksFit DEF Encodes
<1>2. ASSUME NEW m \in 0 .. n - 1
      PROVE  /\ At(f, off, m) \in Nat /\ off[m] <= At(f, off, m)
             /\ At(f, off, m) + Len(placeholder(m)) = off[m + 1]
             /\ At(f, off, m) < off[m + 1] /\ off[m] < off[m + 1]
  <2>1. m + 1 \in 1 .. Len(f) /\ (m + 1) - 1 = m /\ m \in 0 .. Len(f) /\ m \in 0 .. n /\ m \in Nat
    BY BlocksFit
  <2>2. f[m + 1][1] \in Nat /\ Past(f, m) \in Nat /\ Past(f, m) <= f[m + 1][1]
    BY <2>1, BlocksFit
  <2>3. Len(placeholder(m)) \in Nat /\ Len(placeholder(m)) > 0
    <3>1. Len(Numeral(m)) \in Nat /\ Len(placeholder(m)) = Len(Numeral(m)) + 2
      BY <2>1, PlaceholderIs
    <3> QED  BY <3>1
  <2>4. off[m] \in Nat
    BY <1>1, <2>1
  <2>5. At(f, off, m) \in Nat /\ off[m] <= At(f, off, m)
    <3> DEFINE a == off[m]
               b == f[m + 1][1]
               c == Past(f, m)
    <3>1. a \in Nat /\ b \in Nat /\ c \in Nat /\ c <= b /\ At(f, off, m) = a + (b - c)
      BY <2>2, <2>4 DEF At
    <3> HIDE DEF a, b, c
    <3>2. a + (b - c) \in Nat /\ a <= a + (b - c)
      BY <3>1
    <3> QED  BY <3>1, <3>2 DEF a
  <2> QED  BY <1>1, <2>3, <2>4, <2>5
<1> DEFINE G == {k \in Nat : k <= n => 1 <= off[n - k] /\ off[n - k] <= off[n]}
           H == {k \in Nat : k <= n => 1 <= off[k]}
<1>3. 0 \in H
  BY <1>1
<1>4. ASSUME NEW k \in Nat, k \in H
      PROVE  k + 1 \in H
  <2> SUFFICES ASSUME k + 1 <= n PROVE 1 <= off[k + 1]
    OBVIOUS
  <2>1. k \in 0 .. n - 1 /\ k \in 0 .. n /\ k + 1 \in 0 .. n
    BY <1>1
  <2> QED  BY <1>1, <1>2, <1>4, <2>1
<1> HIDE DEF H
<1>5. \A k \in Nat : k \in H
  BY <1>3, <1>4, SetInduction
<1>6. \A m \in 0 .. n : 1 <= off[m]
  BY <1>1, <1>5 DEF H
<1>7. 0 \in G
  <2>1. n - 0 = n /\ n \in 0 .. n
    BY <1>1
  <2> QED  BY <1>1, <1>6, <2>1
<1>8. ASSUME NEW k \in Nat, k \in G
      PROVE  k + 1 \in G
  <2> SUFFICES ASSUME k + 1 <= n PROVE 1 <= off[n - (k + 1)] /\ off[n - (k + 1)] <= off[n]
    OBVIOUS
  <2> DEFINE m == n - (k + 1)
  <2>1. m \in 0 .. n - 1 /\ m + 1 = n - k /\ m \in 0 .. n /\ m + 1 \in 0 .. n /\ n \in 0 .. n
    BY <1>1
  <2>2. off[n - k] <= off[n]
    BY <1>1, <1>8
  <2> HIDE DEF m
  <2>3. off[m] < off[m + 1] /\ off[m] \in Nat /\ off[m + 1] \in Nat /\ off[n] \in Nat
    BY <1>1, <1>2, <2>1
  <2>4. 1 <= off[m] /\ off[m] <= off[n]
    BY <1>6, <2>1, <2>2, <2>3
  <2> QED  BY <2>4 DEF m
<1> HIDE DEF G
<1>9. \A k \in Nat : k \in G
  BY <1>7, <1>8, SetInduction
<1>10. ASSUME NEW m \in 0 .. n
       PROVE  off[m] <= off[n]
  <2>1. n - m \in Nat /\ n - m <= n /\ n - (n - m) = m
    BY <1>1
  <2>2. off[n - (n - m)] <= off[n]
    BY <1>9, <2>1 DEF G
  <2> QED  BY <2>1, <2>2
<1>11. \A m \in 0 .. n - 1 : m + 1 \in 0 .. n
  BY <1>1
<1> QED  BY <1>1, <1>2, <1>6, <1>10, <1>11

(* A slice of a sequence, empty if it ends before it begins. *)
LEMMA Piece ==
    ASSUME NEW S, NEW s \in Seq(S), NEW a \in Nat, NEW b \in Nat, 1 <= a, a <= b, b <= Len(s) + 1
    PROVE  /\ SubSeq(s, a, b - 1) \in Seq(S) /\ Len(SubSeq(s, a, b - 1)) = b - a
           /\ \A y \in a .. b - 1 : SubSeq(s, a, b - 1)[y - a + 1] = s[y]
<1>1. /\ SubSeq(s, a, b - 1) \in Seq(S) /\ Len(SubSeq(s, a, b - 1)) = b - a
      /\ \A j \in 1 .. b - a : SubSeq(s, a, b - 1)[j] = s[a + j - 1]
  <2>1. SubSeq(s, a, b - 1) \in Seq(S)
    BY SubSeqProperties
  <2>2. Len(SubSeq(s, a, b - 1)) = b - a
    BY SubSeqProperties
  <2>3. \A j \in 1 .. b - a : SubSeq(s, a, b - 1)[j] = s[a + j - 1]
    BY SubSeqProperties
  <2> QED  BY <2>1, <2>2, <2>3
<1>2. ASSUME NEW y \in a .. b - 1
      PROVE  SubSeq(s, a, b - 1)[y - a + 1] = s[y]
  <2>1. y - a + 1 \in 1 .. b - a /\ a + (y - a + 1) - 1 = y
    OBVIOUS
  <2> QED  BY <1>1, <2>1
<1> QED  BY <1>1, <1>2

(* Kept behind a name, so that facts about lengths are not about sequences. *)
Text(S, s) == s \in Seq(S)

(* Two sequences, one behind the other. *)
LEMMA ConcatIs ==
    ASSUME NEW S, NEW u, NEW v, Text(S, u), Text(S, v)
    PROVE  /\ Text(S, u \o v) /\ Len(u) \in Nat /\ Len(v) \in Nat
           /\ Len(u \o v) = Len(u) + Len(v)
           /\ \A k \in 1 .. Len(u) : (u \o v)[k] = u[k]
           /\ \A k \in 1 .. Len(v) : (u \o v)[Len(u) + k] = v[k]
<1>1. u \in Seq(S) /\ v \in Seq(S)
  BY DEF Text
<1> QED  BY <1>1 DEF Text

(* The text w is that of u before x, then what d has from a up to p, then h
   atoms of ph. *)
Joined(w, u, x, d, a, p, ph, h) ==
    /\ Len(w) = x + (p - a) + h - 1
    /\ \A k \in 1 .. x - 1 : w[k] = u[k]
    /\ \A y \in a .. p - 1 : w[x + (y - a)] = d[y]
    /\ \A k \in 1 .. h : w[x + (p - a) + (k - 1)] = ph[k]

(* Appending writes such a text. *)
LEMMA JoinedIs ==
    ASSUME NEW S, NEW d, Text(S, d), NEW u, Text(S, u), NEW ph, Text(S, ph),
           NEW a \in Nat, NEW p \in Nat, 1 <= a, a <= p, p <= Len(d) + 1
    PROVE  /\ Text(S, (u \o SubSeq(d, a, p - 1)) \o ph)
           /\ Joined((u \o SubSeq(d, a, p - 1)) \o ph, u, Len(u) + 1, d, a, p, ph, Len(ph))
<1> DEFINE mid == SubSeq(d, a, p - 1)
           v == u \o mid
           w == v \o ph
           lu == Len(u)
           lm == Len(mid)
           lp == Len(ph)
<1>1. Text(S, mid) /\ lm = p - a
  BY Piece DEF Text
<1>2. \A y \in a .. p - 1 : mid[y - a + 1] = d[y]
  BY Piece DEF Text
<1> HIDE DEF mid
<1>3. /\ Text(S, v) /\ lu \in Nat /\ Len(v) = lu + lm
      /\ \A k \in 1 .. lu : v[k] = u[k]
      /\ \A k \in 1 .. lm : v[lu + k] = mid[k]
  BY <1>1, ConcatIs
<1> HIDE DEF v
<1>12. Text(S, v)
  BY <1>3
<1>4. /\ Text(S, w) /\ lp \in Nat /\ Len(w) = Len(v) + lp
      /\ \A k \in 1 .. Len(v) : w[k] = v[k]
      /\ \A k \in 1 .. lp : w[Len(v) + k] = ph[k]
  BY <1>12, ConcatIs
<1> HIDE DEF w, lu, lm, lp
<1>5. lu \in Nat /\ lm \in Nat /\ lp \in Nat /\ lm = p - a
  BY <1>1, <1>3, <1>4
<1>6. Len(v) = lu + lm /\ Len(w) = lu + lm + lp
  BY <1>3, <1>4
<1> DEFINE x == lu + 1
<1>7. ASSUME NEW k \in 1 .. x - 1
      PROVE  w[k] = u[k]
  <2>1. k \in 1 .. Len(v) /\ k \in 1 .. lu
    BY <1>5, <1>6
  <2> QED  BY <1>3, <1>4, <2>1 DEF lu
<1>8. ASSUME NEW y \in a .. p - 1
      PROVE  w[x + (y - a)] = d[y]
  <2> DEFINE k == y - a + 1
  <2>1. k \in 1 .. lm /\ lu + k \in 1 .. lu + lm /\ lu + k = x + (y - a)
    BY <1>5
  <2> HIDE DEF k
  <2>2. lu + k \in 1 .. Len(v)
    BY <1>6, <2>1
  <2>3. w[lu + k] = v[lu + k] /\ v[lu + k] = mid[k]
    BY <1>3, <1>4, <2>1, <2>2
  <2>4. mid[k] = d[y]
    BY <1>2 DEF k
  <2> QED  BY <2>1, <2>3, <2>4
<1>9. ASSUME NEW k \in 1 .. lp
      PROVE  w[x + (p - a) + (k - 1)] = ph[k]
  <2>1. x + (p - a) + (k - 1) = lu + lm + k
    BY <1>5
  <2>2. w[Len(v) + k] = ph[k]
    BY <1>4
  <2> QED  BY <1>6, <2>1, <2>2
<1>10. Len(w) = x + (p - a) + lp - 1
  BY <1>5, <1>6
<1> HIDE DEF x
<1>11. Joined(w, u, x, d, a, p, ph, lp)
  BY <1>7, <1>8, <1>9, <1>10 DEF Joined
<1> QED  BY <1>4, <1>11 DEF w, v, mid, lu, lp, x

(* There are n blocks, behind which d goes on at a and its encoding at x; a
   block from p to q comes next. *)
Follows(d, f, off, n, a, x, p, q) ==
    /\ n = Len(f) /\ a = Past(f, n) /\ x = off[n]
    /\ a <= p /\ p <= q /\ q <= Len(d) /\ <<d[p], d[q]>> \in Delimiters

(* One block more is encoded: what lies before it, and its placeholder. *)
LEMMA EncodesGrow ==
    ASSUME NEW d, Len(d) \in Nat, NEW f, BlocksOf(d, f), NEW u, NEW off,
           NEW n \in Nat, NEW a \in Nat, NEW x \in Nat, NEW p \in Nat, NEW q \in Nat,
           Encodes(d, f, n, u, off), Follows(d, f, off, n, a, x, p, q),
           NEW w, Joined(w, u, x, d, a, p, placeholder(n), Len(placeholder(n)))
    PROVE  \E o : Encodes(d, Append(f, <<p, q>>), n + 1, w, o) /\ Len(w) = o[n + 1] - 1
<1> DEFINE g == Append(f, <<p, q>>)
           ph == placeholder(n)
           h == Len(ph)
           P == x + (p - a)
           o == [m \in 0 .. n + 1 |-> IF m = n + 1 THEN P + h ELSE off[m]]
<1>1. /\ Len(f) = n /\ Past(f, n) = a /\ off[n] = x /\ a <= p
      /\ \A m \in 0 .. n : Past(f, m) \in Nat
      /\ \A m \in 0 .. n - 1 : f[m + 1][1] \in Nat
  <2>1. n = Len(f) /\ a = Past(f, n) /\ x = off[n] /\ a <= p
    BY DEF Follows
  <2>2. \A m \in 0 .. n : Past(f, m) \in Nat
    BY <2>1, BlocksFit
  <2>3. \A m \in 1 .. n : f[m][1] \in Nat
    BY <2>1, BlocksFit
  <2>4. \A m \in 0 .. n - 1 : m + 1 \in 1 .. n
    OBVIOUS
  <2>5. \A m \in 0 .. n - 1 : f[m + 1][1] \in Nat
    BY <2>3, <2>4
  <2> QED  BY <2>1, <2>2, <2>5
<1>2. /\ BlocksOf(d, g) /\ Len(g) = n + 1
      /\ \A m \in 0 .. n : Past(g, m) = Past(f, m)
      /\ \A m \in 0 .. n - 1 : g[m + 1] = f[m + 1]
      /\ g[n + 1][1] = p
  <2>1. f \in Seq(Nat \X Nat) /\ <<p, q>> \in Nat \X Nat /\ n = Len(f)
    BY DEF BlocksOf, Follows
  <2>2. /\ Len(g) = n + 1 /\ g[n + 1] = <<p, q>> /\ \A m \in 1 .. n : g[m] = f[m]
    BY <2>1
  <2>3. \A m \in 0 .. n - 1 : m + 1 \in 1 .. n
    OBVIOUS
  <2>4. BlocksOf(d, g) /\ \A m \in 0 .. n : Past(g, m) = Past(f, m)
    BY BlocksGrow DEF Follows
  <2> HIDE DEF g
  <2> QED  BY <2>2, <2>3, <2>4
<1>3. h \in Nat /\ P \in Nat /\ x <= P
  <2>1. h \in Nat
    BY PlaceholderIs
  <2> QED  BY <1>1, <2>1
<1>4. /\ Len(w) = P + h - 1
      /\ \A k \in 1 .. x - 1 : w[k] = u[k]
      /\ \A y \in a .. p - 1 : w[x + (y - a)] = d[y]
      /\ \A k \in 1 .. h : w[P + (k - 1)] = ph[k]
  BY DEF Joined
<1>5. /\ \A m \in 0 .. n : off[m] \in Nat /\ 1 <= off[m]
      /\ \A m \in 0 .. n - 1 : /\ At(f, off, m) \in Nat /\ off[m] <= At(f, off, m)
                               /\ At(f, off, m) + Len(placeholder(m)) = off[m + 1]
                               /\ At(f, off, m) < off[m + 1] /\ off[m + 1] <= x
  <2>1. n \in 0 .. Len(f)
    BY <1>1
  <2>2. /\ \A m \in 0 .. n : off[m] \in Nat /\ 1 <= off[m]
        /\ \A m \in 0 .. n - 1 : /\ At(f, off, m) \in Nat /\ off[m] <= At(f, off, m)
                                 /\ At(f, off, m) + Len(placeholder(m)) = off[m + 1]
                                 /\ At(f, off, m) < off[m + 1] /\ off[m + 1] <= off[n]
    BY <2>1, OffsetsRise
  <2> QED  BY <1>1, <2>2
<1>6. /\ o \in [0 .. n + 1 -> Nat] /\ o[0] = 1 /\ o[n + 1] = P + h
      /\ \A m \in 0 .. n : o[m] = off[m]
  <2>1. off[0] = 1 /\ P + h \in Nat /\ n + 1 \in 0 .. n + 1 /\ 0 \in 0 .. n
    BY <1>3 DEF Encodes
  <2>2. \A m \in 0 .. n + 1 : m # n + 1 => m \in 0 .. n
    OBVIOUS
  <2>3. \A m \in 0 .. n : m \in 0 .. n + 1 /\ m # n + 1
    OBVIOUS
  <2> HIDE DEF P, h
  <2>4. \A m \in 0 .. n : o[m] = off[m]
    BY <2>3
  <2>5. o[n + 1] = P + h
    BY <2>1
  <2>6. o \in [0 .. n + 1 -> Nat]
    BY <1>5, <2>1, <2>2
  <2> QED  BY <2>1, <2>4, <2>5, <2>6
<1> HIDE DEF o, g, h, ph
<1>7. /\ \A m \in 0 .. n - 1 : At(g, o, m) = At(f, off, m)
      /\ At(g, o, n) = P
  <2>1. \A m \in 0 .. n - 1 : m \in 0 .. n
    OBVIOUS
  <2>2. \A m \in 0 .. n - 1 : At(g, o, m) = At(f, off, m)
    BY <1>2, <1>6, <2>1 DEF At
  <2>3. n \in 0 .. n
    OBVIOUS
  <2>4. o[n] = x /\ g[n + 1][1] = p /\ Past(g, n) = a
    BY <1>1, <1>2, <1>6, <2>3
  <2>5. At(g, o, n) = P
    BY <2>4 DEF At
  <2> QED  BY <2>2, <2>5
<1>8. ASSUME NEW m \in 0 .. n
      PROVE  /\ o[m + 1] = At(g, o, m) + Len(placeholder(m))
             /\ \A y \in Past(g, m) .. g[m + 1][1] - 1 : w[o[m] + (y - Past(g, m))] = d[y]
             /\ \A j \in 1 .. Len(placeholder(m)) : w[At(g, o, m) + (j - 1)] = placeholder(m)[j]
  <2>1. CASE m = n
    <3>1. n \in 0 .. n /\ o[n] = x /\ Past(g, n) = a /\ g[n + 1][1] = p
      BY <1>1, <1>2, <1>6
    <3>2. o[n + 1] = At(g, o, n) + Len(placeholder(n))
      BY <1>6, <1>7 DEF h, ph
    <3>3. \A y \in Past(g, n) .. g[n + 1][1] - 1 : w[o[n] + (y - Past(g, n))] = d[y]
      BY <1>4, <3>1
    <3>4. \A j \in 1 .. Len(placeholder(n)) : w[At(g, o, n) + (j - 1)] = placeholder(n)[j]
      BY <1>4, <1>7 DEF h, ph
    <3> QED  BY <2>1, <3>2, <3>3, <3>4
  <2>2. CASE m # n
    <3>1. m \in 0 .. n - 1 /\ m \in Nat
      BY <2>2
    <3>2. m \in 0 .. n /\ m + 1 \in 0 .. n
      BY <2>2
    <3>3. /\ o[m] = off[m] /\ o[m + 1] = off[m + 1] /\ At(g, o, m) = At(f, off, m)
          /\ Past(g, m) = Past(f, m) /\ g[m + 1] = f[m + 1]
      BY <1>2, <1>6, <1>7, <3>1, <3>2
    <3> DEFINE b == f[m + 1][1]
               c == Past(f, m)
               z == off[m]
               z1 == off[m + 1]
               e == At(f, off, m)
               l == Len(placeholder(m))
    <3>4. /\ z \in Nat /\ 1 <= z /\ e \in Nat /\ b \in Nat /\ c \in Nat /\ z1 \in Nat
          /\ z <= e /\ e + l = z1 /\ e < z1 /\ z1 <= x
      BY <1>1, <1>5, <3>1, <3>2
    <3>5. l \in Nat
      BY <3>1, PlaceholderIs
    <3>6. e = z + (b - c)
      BY DEF At
    <3>7. /\ \A y \in c .. b - 1 : u[z + (y - c)] = d[y]
          /\ \A j \in 1 .. l : u[e + (j - 1)] = placeholder(m)[j]
      BY <3>1 DEF Encodes
    <3> HIDE DEF b, c, z, z1, e, l
    <3>8. ASSUME NEW y \in c .. b - 1
          PROVE  w[z + (y - c)] = d[y]
      <4>1. z + (y - c) \in 1 .. x - 1
        BY <3>4, <3>6
      <4> QED  BY <1>4, <3>7, <4>1
    <3>9. ASSUME NEW j \in 1 .. l
          PROVE  w[e + (j - 1)] = placeholder(m)[j]
      <4>1. e + (j - 1) \in 1 .. x - 1
        BY <3>4, <3>5
      <4> QED  BY <1>4, <3>7, <4>1
    <3> QED  BY <3>3, <3>4, <3>8, <3>9 DEF b, c, z, z1, e, l
  <2> QED  BY <2>1, <2>2
<1>9. ASSUME NEW k \in 1 .. o[n + 1] - 1
      PROVE  \E m \in 0 .. n :
                 \/ \E y \in Past(g, m) .. g[m + 1][1] - 1 : k = o[m] + (y - Past(g, m))
                 \/ \E j \in 1 .. Len(placeholder(m)) : k = At(g, o, m) + (j - 1)
  <2>0. k \in 1 .. P + h - 1 /\ k \in Nat
    BY <1>3, <1>6
  <2>5. n \in 0 .. n /\ o[n] = x /\ Past(g, n) = a /\ g[n + 1][1] = p
    BY <1>1, <1>2, <1>6, SMTT(30)
  <2>1. CASE k <= x - 1
    <3>0. k \in 1 .. off[n] - 1
      BY <1>1, <2>0, <2>1
    <3>1. PICK m \in 0 .. n - 1 :
             \/ \E y \in Past(f, m) .. f[m + 1][1] - 1 : k = off[m] + (y - Past(f, m))
             \/ \E j \in 1 .. Len(placeholder(m)) : k = At(f, off, m) + (j - 1)
      BY <3>0 DEF Encodes
    <3>2. m \in 0 .. n
      OBVIOUS
    <3>3. o[m] = off[m] /\ At(g, o, m) = At(f, off, m) /\ Past(g, m) = Past(f, m) /\ g[m + 1] = f[m + 1]
      BY <1>2, <1>6, <1>7, <3>2
    <3> QED  BY <3>1, <3>2, <3>3
  <2>2. CASE x <= k /\ k <= P - 1
    <3> DEFINE y == a + (k - x)
    <3>1. y \in a .. p - 1 /\ k = x + (y - a)
      BY <1>1, <2>0, <2>2
    <3> HIDE DEF y
    <3>2. \E y_1 \in Past(g, n) .. g[n + 1][1] - 1 : k = o[n] + (y_1 - Past(g, n))
      BY <2>5, <3>1
    <3> QED  BY <2>5, <3>2
  <2>3. CASE P <= k
    <3> DEFINE j == (k - P) + 1
    <3>1. j \in 1 .. h /\ k = P + (j - 1)
      BY <1>3, <2>0, <2>3
    <3> HIDE DEF j, P
    <3>2. \E j_1 \in 1 .. Len(placeholder(n)) : k = At(g, o, n) + (j_1 - 1)
      BY <1>7, <3>1 DEF h, ph
    <3> QED  BY <2>5, <3>2
  <2> QED  BY <1>3, <2>0, <2>1, <2>2, <2>3
<1>10. n + 1 - 1 = n /\ Len(w) = o[n + 1] - 1
  <2>1. Len(w) = P + h - 1 /\ o[n + 1] = P + h
    BY <1>4, <1>6
  <2>2. n + 1 - 1 = n
    OBVIOUS
  <2>3. h \in Nat /\ P \in Nat
    BY <1>3
  <2> HIDE DEF P
  <2>4. P + h - 1 = (P + h) - 1
    BY <2>3
  <2>5. Len(w) = o[n + 1] - 1
    BY <2>1, <2>4, Zenon
  <2> QED  BY <2>2, <2>5
<1>11. Encodes(d, g, n + 1, w, o)
  BY <1>6, <1>8, <1>9, <1>10, SMTT(30) DEF Encodes
<1> QED  BY <1>10, <1>11 DEF g

-----------------------------------------------------------------------------
(* CodeBlocks: reading a number *)

(* q is where the digits behind p end. *)
EndsAt(s, p, q) == /\ q \in p + 1 .. Len(s) + 1
                   /\ q > Len(s) \/ s[q] \notin ToSet(Digits)
                   /\ \A k \in p + 1 .. q - 1 : s[k] \in ToSet(Digits)

(* AfterDigits is the one place where the digits end. *)
LEMMA DigitsEnd ==
    ASSUME NEW s, Len(s) \in Nat, NEW p \in Nat, p <= Len(s)
    PROVE  /\ EndsAt(s, p, AfterDigits(s, p))
           /\ \A q \in Nat : EndsAt(s, p, q) => AfterDigits(s, p) = q
<1> DEFINE E == {q \in p + 1 .. Len(s) + 1 : q > Len(s) \/ s[q] \notin ToSet(Digits)}
           e == AfterDigits(s, p)
<1>1. e = Min(E)
  BY DEF AfterDigits
<1>2. E \in SUBSET Nat /\ Len(s) + 1 \in E
  OBVIOUS
<1> HIDE DEF e
<1>3. e \in E /\ \A y \in E : e <= y
  <2> HIDE DEF E
  <2>1. E # {}
    BY <1>2
  <2> QED  BY <1>1, <1>2, <2>1, MinIs
<1>4. EndsAt(s, p, e)
  <2>1. ASSUME NEW k \in p + 1 .. e - 1
        PROVE  s[k] \in ToSet(Digits)
    <3>1. k \in p + 1 .. Len(s) + 1 /\ ~(e <= k)
      BY <1>2, <1>3
    <3> QED  BY <1>3, <3>1
  <2> QED  BY <1>3, <2>1 DEF EndsAt
<1>5. ASSUME NEW q \in Nat, EndsAt(s, p, q)
      PROVE  e = q
  <2>1. q \in E
    BY <1>5 DEF EndsAt
  <2>2. e <= q /\ e \in p + 1 .. Len(s) + 1 /\ (e > Len(s) \/ s[e] \notin ToSet(Digits))
    BY <1>3, <2>1
  <2>3. e \notin p + 1 .. q - 1
    BY <1>5, <2>2 DEF EndsAt
  <2> QED  BY <2>2, <2>3
<1> QED  BY <1>4, <1>5 DEF e

(* Behind p in s stand the l atoms that stand behind y in t, and then neither
   goes on with a digit. *)
Alike(s, p, t, y, l) ==
    /\ p + l <= Len(s) /\ y + l <= Len(t)
    /\ \A k \in 1 .. l : s[p + k] = t[y + k]
    /\ p + l + 1 <= Len(s) => s[p + l + 1] \notin ToSet(Digits)
    /\ y + l + 1 <= Len(t) => t[y + l + 1] \notin ToSet(Digits)

(* Then they write the same number. *)
LEMMA SameNumber ==
    ASSUME NEW s, Len(s) \in Nat, NEW t, Len(t) \in Nat,
           NEW p \in Nat, p >= 1, NEW y \in Nat, y >= 1, NEW l \in Nat, Alike(s, p, t, y, l)
    PROVE  /\ AfterDigits(s, p) \in Nat /\ AfterDigits(t, y) \in Nat
           /\ AfterDigits(s, p) - p = AfterDigits(t, y) - y
           /\ AfterDigits(t, y) <= y + l + 1
           /\ Written(s, p) = Written(t, y)
<1> DEFINE q == AfterDigits(t, y)
           e == q - y
           D == ToSet(Digits)
<1>1. /\ p + l <= Len(s) /\ y + l <= Len(t)
      /\ \A k \in 1 .. l : s[p + k] = t[y + k]
      /\ p + l + 1 <= Len(s) => s[p + l + 1] \notin D
      /\ y + l + 1 <= Len(t) => t[y + l + 1] \notin D
  BY DEF Alike
<1>2. EndsAt(t, y, q)
  BY <1>1, DigitsEnd
<1> HIDE DEF q, D
<1>3. /\ q \in y + 1 .. Len(t) + 1 /\ (q > Len(t) \/ t[q] \notin D)
      /\ \A k \in y + 1 .. q - 1 : t[k] \in D
  BY <1>2 DEF EndsAt, D
<1>4. q <= y + l + 1
  <2> SUFFICES ASSUME y + l + 1 < q PROVE FALSE
    BY <1>3
  <2>1. y + l + 1 \in y + 1 .. q - 1 /\ y + l + 1 <= Len(t)
    BY <1>3
  <2> QED  BY <1>1, <1>3, <2>1
<1>5. e \in 1 .. l + 1 /\ q = y + e
  BY <1>3, <1>4
<1> HIDE DEF e
<1>6. p + e \in p + 1 .. Len(s) + 1
  BY <1>1, <1>5
<1>7. p + e > Len(s) \/ s[p + e] \notin D
  <2>1. CASE e = l + 1
    <3>1. p + e = p + l + 1
      BY <2>1
    <3> QED  BY <1>1, <3>1
  <2>2. CASE e # l + 1
    <3>1. e \in 1 .. l /\ q <= Len(t)
      BY <1>1, <1>5, <2>2
    <3>2. s[p + e] = t[y + e]
      BY <1>1, <3>1
    <3>3. ~(q > Len(t))
      BY <1>3, <3>1
    <3>4. t[q] \notin D
      BY <1>3, <3>3, Zenon
    <3> QED  BY <1>5, <3>2, <3>4, Zenon
  <2> QED  BY <2>1, <2>2
<1>8. ASSUME NEW k \in 1 .. e - 1
      PROVE  s[p + k] = t[y + k] /\ s[p + k] \in D
  <2>1. k \in 1 .. l /\ y + k \in y + 1 .. q - 1
    BY <1>5
  <2> QED  BY <1>1, <1>3, <2>1
<1>9. ASSUME NEW k \in p + 1 .. (p + e) - 1
      PROVE  s[k] \in D
  <2>1. k - p \in 1 .. e - 1 /\ p + (k - p) = k
    BY <1>5
  <2> QED  BY <1>8, <2>1
<1>10. AfterDigits(s, p) = p + e
  <2>1. EndsAt(s, p, p + e)
    BY <1>6, <1>7, <1>9 DEF EndsAt, D
  <2>2. p + e \in Nat /\ p <= Len(s)
    BY <1>1, <1>5
  <2> QED  BY <2>1, <2>2, DigitsEnd
<1>11. SubSeq(s, p + 1, (p + e) - 1) = SubSeq(t, y + 1, q - 1)
  <2> DEFINE v == SubSeq(s, p + 1, (p + e) - 1)
             w == SubSeq(t, y + 1, q - 1)
  <2>1. \A k \in y + 1 .. q - 1 : t[k] \in D
    BY <1>3
  <2>2. y + 1 \in Int /\ q - 1 \in Int /\ p + 1 \in Int /\ (p + e) - 1 \in Int
    BY <1>3, <1>5
  <2>3. /\ w \in Seq(D) /\ Len(w) = (IF y + 1 <= q - 1 THEN (q - 1) - (y + 1) + 1 ELSE 0)
        /\ \A k \in 1 .. (q - 1) - (y + 1) + 1 : w[k] = t[(y + 1) + k - 1]
    BY <2>1, <2>2, SubSeqProperties, SMTT(30)
  <2>4. /\ v \in Seq(D) /\ Len(v) = (IF p + 1 <= (p + e) - 1 THEN ((p + e) - 1) - (p + 1) + 1 ELSE 0)
        /\ \A k \in 1 .. ((p + e) - 1) - (p + 1) + 1 : v[k] = s[(p + 1) + k - 1]
    BY <1>9, <2>2, SubSeqProperties, SMTT(30)
  <2> HIDE DEF v, w
  <2>5. (q - 1) - (y + 1) + 1 = e - 1 /\ ((p + e) - 1) - (p + 1) + 1 = e - 1
    BY <1>5
  <2>6. Len(v) = e - 1 /\ Len(w) = e - 1
    BY <1>5, <2>3, <2>4
  <2>7. ASSUME NEW k \in 1 .. e - 1
        PROVE  v[k] = w[k]
    <3>1. (y + 1) + k - 1 = y + k /\ (p + 1) + k - 1 = p + k
      OBVIOUS
    <3> QED  BY <1>8, <2>3, <2>4, <2>5, <3>1
  <2>8. v = w
    BY <2>3, <2>4, <2>6, <2>7, SeqEqual
  <2> QED  BY <2>8 DEF v, w
<1>12. Written(s, p) = Written(t, y)
  <2>1. Written(s, p) = Worth(SubSeq(s, p + 1, AfterDigits(s, p) - 1))
    BY Zenon DEF Written, Worth
  <2>2. Written(t, y) = Worth(SubSeq(t, y + 1, AfterDigits(t, y) - 1))
    BY Zenon DEF Written, Worth
  <2>3. Written(t, y) = Worth(SubSeq(t, y + 1, q - 1))
    BY <2>2 DEF q
  <2> QED  BY <1>10, <1>11, <2>1, <2>3
<1>13. p + e \in Nat /\ q \in Nat /\ (p + e) - p = q - y
  BY <1>3, <1>5
<1> QED  BY <1>4, <1>10, <1>12, <1>13 DEF q

(* A placeholder is read as what wrote it: the digits end at the underscore, and
   their number is that of the block. *)
LEMMA PlaceholderReads ==
    ASSUME NEW n \in Nat
    PROVE  /\ AfterDigits(placeholder(n), 1) = Len(Numeral(n)) + 2
           /\ Written(placeholder(n), 1) = n
<1> DEFINE u == Numeral(n)
           ph == placeholder(n)
           l == Len(u)
           D == ToSet(Digits)
<1>1. /\ l \in Nat /\ l > 0 /\ Len(ph) = l + 2 /\ ph[l + 2] = Underscore
      /\ \A k \in 1 .. l : ph[k + 1] = u[k] /\ u[k] \in D
  BY PlaceholderIs
<1>2. u \in Seq(D) /\ Worth(u) = n
  BY NumeralWorth
<1>3. Underscore \notin D
  BY AtomsAssumption
<1> HIDE DEF u, ph, l, D
<1>4. ASSUME NEW k \in 1 + 1 .. (l + 2) - 1
      PROVE  ph[k] \in D
  <2>1. k - 1 \in 1 .. l /\ (k - 1) + 1 = k
    BY <1>1
  <2> QED  BY <1>1, <2>1
<1>5. AfterDigits(ph, 1) = l + 2
  <2>1. l + 2 \in 1 + 1 .. Len(ph) + 1 /\ l + 2 \in Nat /\ 1 <= Len(ph) /\ Len(ph) \in Nat
    BY <1>1
  <2>2. EndsAt(ph, 1, l + 2)
    BY <1>1, <1>3, <1>4, <2>1 DEF EndsAt, D
  <2> QED  BY <2>1, <2>2, DigitsEnd
<1>6. SubSeq(ph, 1 + 1, (l + 2) - 1) = u
  <2> DEFINE v == SubSeq(ph, 1 + 1, (l + 2) - 1)
  <2>1. 1 + 1 \in Int /\ (l + 2) - 1 \in Int
    BY <1>1
  <2>2. /\ v \in Seq(D)
        /\ Len(v) = (IF 1 + 1 <= (l + 2) - 1 THEN ((l + 2) - 1) - (1 + 1) + 1 ELSE 0)
        /\ \A k \in 1 .. ((l + 2) - 1) - (1 + 1) + 1 : v[k] = ph[(1 + 1) + k - 1]
    BY <1>4, <2>1, SubSeqProperties
  <2> HIDE DEF v
  <2>3. ((l + 2) - 1) - (1 + 1) + 1 = l /\ Len(v) = l /\ Len(u) = l
    BY <1>1, <2>2 DEF l
  <2>4. ASSUME NEW k \in 1 .. l
        PROVE  v[k] = u[k]
    <3>1. (1 + 1) + k - 1 = k + 1
      BY <1>1
    <3> QED  BY <1>1, <2>2, <2>3, <3>1
  <2>5. v = u
    BY <1>2, <2>2, <2>3, <2>4, SeqEqual
  <2> QED  BY <2>5 DEF v
<1>7. Written(ph, 1) = Worth(SubSeq(ph, 1 + 1, AfterDigits(ph, 1) - 1))
  BY Zenon DEF Written, Worth
<1> QED  BY <1>2, <1>5, <1>6, <1>7 DEF u, ph, l

(* What an int can hold it holds; another is less than that. *)
LEMMA WrapIs ==
    ASSUME NEW n \in Nat
    PROVE  /\ Wrap(n) \in Int /\ Wrap(n) < IntHalf
           /\ n < IntHalf => Wrap(n) = n
<1> DEFINE h == IntHalf
           b == 2 * h
<1>1. h \in Nat /\ h > 0
  BY DocumentsAssumption
<1> HIDE DEF h
<1>2. b \in Nat /\ b > 0 /\ b = h + h
  BY <1>1
<1>3. Wrap(n) = ((n + h) % b) - h
  BY DEF Wrap, h
<1> HIDE DEF b
<1>4. ((n + h) % b) \in 0 .. b - 1
  BY <1>1, <1>2
<1>5. n < h => ((n + h) % b) = n + h
  BY <1>1, <1>2
<1>6. ((n + h) % b) - h \in Int /\ ((n + h) % b) - h < h
  BY <1>1, <1>2, <1>4
<1>7. n < h => ((n + h) % b) - h = n
  BY <1>1, <1>5
<1> QED  BY <1>3, <1>6, <1>7 DEF h

(* The number behind a place is a natural one. *)
LEMMA WrittenNat ==
    ASSUME NEW s, Len(s) \in Nat, NEW p \in Nat, p <= Len(s)
    PROVE  Written(s, p) \in Nat
<1> DEFINE q == AfterDigits(s, p)
           v == SubSeq(s, p + 1, q - 1)
<1>1. EndsAt(s, p, q)
  BY DigitsEnd
<1> HIDE DEF q
<1>2. p + 1 \in Int /\ q - 1 \in Int /\ \A k \in p + 1 .. q - 1 : s[k] \in ToSet(Digits)
  BY <1>1 DEF EndsAt
<1>3. v \in Seq(ToSet(Digits))
  BY <1>2, SubSeqProperties
<1> HIDE DEF v
<1>4. Worth(v) \in Nat
  BY <1>3, WorthNat
<1>5. Written(s, p) = Worth(v)
  BY Zenon DEF Written, Worth, v, q
<1> QED  BY <1>4, <1>5

-----------------------------------------------------------------------------
(* CodeBlocks: the parts of a document between its blocks *)

(* One block ends before a later one begins. *)
LEMMA BlocksRise ==
    ASSUME NEW d, Len(d) \in Nat, NEW f, BlocksOf(d, f)
    PROVE  \A b, c \in 1 .. Len(f) : b < c => f[b][2] < f[c][1]
<1> DEFINE n == Len(f)
           G == {k \in Nat : \A b \in 1 .. n : b + (k + 1) <= n => f[b][2] < f[b + (k + 1)][1]}
<1>1. n \in Nat /\ \A b \in 1 .. n : f[b][1] \in Nat /\ f[b][2] \in Nat
  BY BlocksFit
<1>2. \A b \in 1 .. n : f[b][1] <= f[b][2] /\ (b > 1 => f[b - 1][2] < f[b][1])
  BY BlocksFit DEF BlocksOf
<1> HIDE DEF n
<1>3. 0 \in G
  <2> SUFFICES ASSUME NEW b \in 1 .. n, b + (0 + 1) <= n PROVE f[b][2] < f[b + (0 + 1)][1]
    OBVIOUS
  <2>1. b + 1 \in 1 .. n /\ b + 1 > 1 /\ (b + 1) - 1 = b /\ b + (0 + 1) = b + 1
    BY <1>1
  <2> QED  BY <1>2, <2>1
<1>4. ASSUME NEW k \in Nat, k \in G
      PROVE  k + 1 \in G
  <2> SUFFICES ASSUME NEW b \in 1 .. n, b + ((k + 1) + 1) <= n
               PROVE  f[b][2] < f[b + ((k + 1) + 1)][1]
    OBVIOUS
  <2> DEFINE c == b + (k + 1)
  <2>1. c \in 1 .. n /\ c <= n /\ c + 1 \in 1 .. n /\ c + 1 > 1 /\ (c + 1) - 1 = c
        /\ b + ((k + 1) + 1) = c + 1
    BY <1>1
  <2>2. f[b][2] < f[c][1]
    BY <1>4, <2>1
  <2> HIDE DEF c
  <2>3. f[c][1] <= f[c][2] /\ f[c][2] < f[c + 1][1]
    BY <1>2, <2>1
  <2>4. f[b][2] \in Nat /\ f[c][1] \in Nat /\ f[c][2] \in Nat /\ f[c + 1][1] \in Nat
    BY <1>1, <2>1
  <2>5. f[b][2] < f[c + 1][1]
    BY <2>2, <2>3, <2>4
  <2> QED  BY <2>1, <2>5
<1> HIDE DEF G
<1>5. \A k \in Nat : k \in G
  BY <1>3, <1>4, SetInduction
<1>6. ASSUME NEW b \in 1 .. n, NEW c \in 1 .. n, b < c
      PROVE  f[b][2] < f[c][1]
  <2>1. c - b - 1 \in Nat /\ b + ((c - b - 1) + 1) = c /\ c <= n
    BY <1>1, <1>6
  <2>2. c - b - 1 \in G
    BY <1>5, <2>1
  <2> QED  BY <2>1, <2>2 DEF G
<1> QED  BY <1>6 DEF n

(* Part m, behind the first m blocks, ends here. *)
Till(d, f, m) == IF m < Len(f) THEN f[m + 1][1] ELSE Len(d) + 1

(* The ="" right after a block. *)
Dropped(d, f, y) == d[y] = Empty /\ \E b \in DOMAIN f : f[b][2] = y - 1

(* Parts and blocks divide the document: an atom of a part is in no block, and
   only the first one behind a block stands right after a block. *)
LEMMA PartsAre ==
    ASSUME NEW d, Len(d) \in Nat, NEW f, BlocksOf(d, f), NEW m \in 0 .. Len(f)
    PROVE  /\ Past(f, m) \in Nat /\ 1 <= Past(f, m)
           /\ Till(d, f, m) \in Nat /\ Past(f, m) <= Till(d, f, m) /\ Till(d, f, m) <= Len(d) + 1
           /\ \A y \in Past(f, m) .. Till(d, f, m) - 1 :
                 /\ y \in 1 .. Len(d)
                 /\ \A b \in DOMAIN f : y \notin f[b][1] .. f[b][2]
                 /\ Dropped(d, f, y) <=> y = Past(f, m) /\ m > 0 /\ d[y] = Empty
           /\ m < Len(f) => \A y \in f[m + 1][1] .. f[m + 1][2] :
                 ~Dropped(d, f, y) /\ y \in 1 .. Len(d)
<1> DEFINE n == Len(f)
<1>1. /\ n \in Nat /\ DOMAIN f = 1 .. n /\ Past(f, m) \in Nat /\ 1 <= Past(f, m)
      /\ Past(f, m) <= Len(d) + 1
      /\ \A b \in 1 .. n : f[b][1] \in Nat /\ f[b][2] \in Nat
  BY BlocksFit
<1>2. \A b \in 1 .. n : /\ 1 <= f[b][1] /\ f[b][1] <= f[b][2] /\ f[b][2] <= Len(d)
                        /\ <<d[f[b][1]], d[f[b][2]]>> \in Delimiters
  BY <1>1 DEF BlocksOf
<1>3. \A b, c \in 1 .. n : b < c => f[b][2] < f[c][1]
  BY BlocksRise
<1>4. m > 0 => m \in 1 .. n /\ Past(f, m) = f[m][2] + 1
  BY <1>1 DEF Past
<1>5. m < n => m + 1 \in 1 .. n /\ Past(f, m) <= f[m + 1][1] /\ Till(d, f, m) = f[m + 1][1]
  <2> SUFFICES ASSUME m < n
               PROVE  m + 1 \in 1 .. n /\ Past(f, m) <= f[m + 1][1] /\ Till(d, f, m) = f[m + 1][1]
    OBVIOUS
  <2>1. m + 1 \in 1 .. n /\ (m + 1) - 1 = m
    BY <1>1
  <2> QED  BY <2>1, BlocksFit DEF Till
<1>6. m >= n => m = n /\ Till(d, f, m) = Len(d) + 1
  <2>0. Len(f) \in Nat
    BY <1>1
  <2>1. m >= n => m = n
    BY <2>0
  <2>2. m >= n => Till(d, f, m) = Len(d) + 1
    BY <1>1 DEF Till
  <2> QED  BY <2>1, <2>2
<1> DEFINE P == Past(f, m)
           T == Till(d, f, m)
<1> HIDE DEF n, P, T
<1>7. T \in Nat /\ P \in Nat /\ 1 <= P /\ P <= T /\ T <= Len(d) + 1
  <2>1. CASE m < n
    <3>1. f[m + 1][1] \in Nat /\ f[m + 1][1] <= f[m + 1][2] /\ f[m + 1][2] <= Len(d) /\ f[m + 1][2] \in Nat
      BY <1>1, <1>2, <1>5, <2>1
    <3> QED  BY <1>1, <1>5, <2>1, <3>1 DEF P, T
  <2>2. CASE m >= n
    BY <1>1, <1>6, <2>2 DEF P, T
  <2> QED  BY <1>1, <2>1, <2>2
<1>8. ASSUME NEW b \in 1 .. n
      PROVE  (b <= m /\ f[b][2] < P) \/ (b > m /\ T <= f[b][1])
  <2>1. CASE b = m
    <3>1. P = f[m][2] + 1
      BY <1>1, <1>4, <2>1 DEF P
    <3> QED  BY <1>1, <2>1, <3>1
  <2>2. CASE b < m
    <3>0. m \in 1 .. n /\ P = f[m][2] + 1
      BY <1>1, <1>4, <2>2 DEF P
    <3>1. f[b][2] < f[m][1] /\ f[m][1] <= f[m][2]
      BY <1>2, <1>3, <2>2, <3>0
    <3>2. f[b][2] \in Nat /\ f[m][1] \in Nat /\ f[m][2] \in Nat
      BY <1>1, <3>0
    <3>3. f[b][2] < f[m][2] + 1
      BY <3>1, <3>2
    <3>4. b <= m
      BY <2>2
    <3> QED  BY <3>0, <3>3, <3>4
  <2>3. CASE b > m
    <3>1. m < n
      BY <1>1, <2>3
    <3>2. m + 1 \in 1 .. n /\ T = f[m + 1][1] /\ f[m + 1][1] <= f[m + 1][2]
      BY <1>2, <1>5, <3>1 DEF T
    <3>3. b = m + 1 \/ f[m + 1][2] < f[b][1]
      BY <1>1, <1>3, <2>3, <3>2
    <3>4. f[b][1] \in Nat /\ f[m + 1][1] \in Nat /\ f[m + 1][2] \in Nat
      BY <1>1, <3>2
    <3> QED  BY <2>3, <3>2, <3>3, <3>4, SMTT(30)
  <2> QED  BY <1>1, <2>1, <2>2, <2>3
<1>9. ASSUME NEW y \in P .. T - 1
      PROVE  /\ y \in 1 .. Len(d)
             /\ \A b \in DOMAIN f : y \notin f[b][1] .. f[b][2]
             /\ Dropped(d, f, y) <=> y = P /\ m > 0 /\ d[y] = Empty
  <2>1. y \in 1 .. Len(d)
    BY <1>7
  <2>2. ASSUME NEW b \in 1 .. n
        PROVE  y \notin f[b][1] .. f[b][2]
    <3>1. f[b][1] \in Nat /\ f[b][2] \in Nat
      BY <1>1
    <3> QED  BY <1>7, <1>8, <3>1
  <2>3. ASSUME NEW b \in 1 .. n, f[b][2] = y - 1
        PROVE  y = P /\ m > 0
    <3>1. f[b][1] \in Nat /\ f[b][2] \in Nat /\ f[b][1] <= f[b][2]
      BY <1>1, <1>2
    <3>2. f[b][2] < P /\ b <= m
      BY <1>7, <1>8, <2>3, <3>1
    <3> QED  BY <1>1, <1>7, <2>3, <3>1, <3>2
  <2>4. ASSUME y = P, m > 0
        PROVE  m \in 1 .. n /\ f[m][2] = y - 1
    <3>1. m \in 1 .. n /\ P = f[m][2] + 1
      BY <1>4, <2>4 DEF P
    <3>2. f[m][2] \in Nat
      BY <1>1, <3>1
    <3> QED  BY <2>4, <3>1, <3>2
  <2> QED  BY <1>1, <2>1, <2>2, <2>3, <2>4 DEF Dropped
<1>10. ASSUME m < n, NEW y \in f[m + 1][1] .. f[m + 1][2]
       PROVE  ~Dropped(d, f, y) /\ y \in 1 .. Len(d)
  <2> DEFINE c == m + 1
  <2>1. c \in 1 .. n
    BY <1>5, <1>10
  <2> HIDE DEF c
  <2>2. /\ f[c][1] \in Nat /\ f[c][2] \in Nat /\ 1 <= f[c][1] /\ f[c][2] <= Len(d)
        /\ y \in f[c][1] .. f[c][2] /\ <<d[f[c][1]], d[f[c][2]]>> \in Delimiters
    BY <1>1, <1>2, <2>1 DEF c
  <2>3. y \in 1 .. Len(d)
    BY <2>2
  <2>4. ASSUME NEW b \in 1 .. n, f[b][2] = y - 1
        PROVE  y = f[c][1]
    <3>1. b < c => f[b][2] < f[c][1]
      BY <1>3, <2>1
    <3>2. b > c => f[c][2] < f[b][1] /\ f[b][1] <= f[b][2]
      BY <1>2, <1>3, <2>1
    <3>3. f[b][1] \in Nat /\ f[b][2] \in Nat /\ c \in Nat
      BY <1>1, <2>1
    <3> DEFINE b1 == f[b][1]
               b2 == f[b][2]
               c1 == f[c][1]
               c2 == f[c][2]
    <3>4. b = c => b2 = c2
      OBVIOUS
    <3>5. /\ b1 \in Nat /\ b2 \in Nat /\ c1 \in Nat /\ c2 \in Nat /\ b2 = y - 1
          /\ y \in c1 .. c2 /\ (b < c => b2 < c1) /\ (b > c => c2 < b1 /\ b1 <= b2)
      BY <2>2, <2>4, <3>1, <3>2, <3>3
    <3> HIDE DEF b1, b2, c1, c2
    <3>6. y = c1
      BY <3>3, <3>4, <3>5
    <3> QED  BY <3>6 DEF c1
  <2>5. d[f[c][1]] # Empty
    <3>1. <<d[f[c][1]], d[f[c][2]]>>[1] # Empty
      BY <2>2, AtomsAssumption
    <3> QED  BY <3>1
  <2> QED  BY <1>1, <2>3, <2>4, <2>5 DEF Dropped
<1> QED  BY <1>7, <1>9, <1>10 DEF n, P, T

-----------------------------------------------------------------------------
(* CodeBlocks: the document encoded *)

(* Where atom y of part m stands. *)
Spot(f, off, m, y) == off[m] + (y - Past(f, m))

(* t is d, with a placeholder for each of its blocks. *)
Whole(d, f, t, off) ==
    /\ off[0] = 1 /\ \A m \in 0 .. Len(f) : off[m] \in Nat /\ 1 <= off[m]
    /\ \A m \in 0 .. Len(f) : \A y \in Past(f, m) .. Till(d, f, m) - 1 : t[Spot(f, off, m, y)] = d[y]
    /\ \A m \in 0 .. Len(f) - 1 :
          /\ Spot(f, off, m, Till(d, f, m)) + Len(placeholder(m)) = off[m + 1]
          /\ off[m + 1] <= Len(t) + 1
          /\ \A j \in 1 .. Len(placeholder(m)) :
                t[Spot(f, off, m, Till(d, f, m)) + (j - 1)] = placeholder(m)[j]
    /\ Spot(f, off, Len(f), Till(d, f, Len(f))) = Len(t) + 1
    /\ \A k \in 1 .. Len(t) : \E m \in 0 .. Len(f) :
          \/ \E y \in Past(f, m) .. Till(d, f, m) - 1 : k = Spot(f, off, m, y)
          \/ /\ m < Len(f)
             /\ \E j \in 1 .. Len(placeholder(m)) : k = Spot(f, off, m, Till(d, f, m)) + (j - 1)

(* The n blocks are all there are: what is left of d begins at a, and goes to x
   in the text. *)
Final(d, f, off, n, a, x, p) ==
    n = Len(f) /\ a = Past(f, n) /\ x = off[n] /\ p = Len(d) + 1

(* With what is left behind the blocks, the document is encoded. *)
LEMMA WholeMade ==
    ASSUME NEW d, Len(d) \in Nat, NEW f, BlocksOf(d, f), NEW u, NEW off,
           NEW n \in Nat, NEW a \in Nat, NEW x \in Nat, NEW p \in Nat,
           Encodes(d, f, n, u, off), Final(d, f, off, n, a, x, p),
           NEW w, Joined(w, u, x, d, a, p, <<>>, 0)
    PROVE  Whole(d, f, w, off)
<1>1. Len(f) = n /\ Past(f, n) = a /\ off[n] = x /\ p = Len(d) + 1 /\ a <= p /\ n \in 0 .. Len(f)
  <2>1. n \in 0 .. Len(f)
    BY DEF Final
  <2> QED  BY <2>1, BlocksFit DEF Final
<1>2. /\ Len(w) = x + (p - a) + 0 - 1
      /\ \A k \in 1 .. x - 1 : w[k] = u[k]
      /\ \A y \in a .. p - 1 : w[x + (y - a)] = d[y]
  BY DEF Joined
<1>3. /\ \A m \in 0 .. n : off[m] \in Nat /\ 1 <= off[m]
      /\ \A m \in 0 .. n - 1 : /\ At(f, off, m) \in Nat /\ off[m] <= At(f, off, m)
                               /\ At(f, off, m) + Len(placeholder(m)) = off[m + 1]
                               /\ At(f, off, m) < off[m + 1] /\ off[m + 1] <= x
  <2>1. /\ \A m \in 0 .. n : off[m] \in Nat /\ 1 <= off[m]
        /\ \A m \in 0 .. n - 1 : /\ At(f, off, m) \in Nat /\ off[m] <= At(f, off, m)
                                 /\ At(f, off, m) + Len(placeholder(m)) = off[m + 1]
                                 /\ At(f, off, m) < off[m + 1] /\ off[m + 1] <= off[n]
    BY <1>1, OffsetsRise
  <2> QED  BY <1>1, <2>1
<1>4. Till(d, f, n) = p /\ \A m \in 0 .. n - 1 : /\ Till(d, f, m) = f[m + 1][1]
                                                /\ Spot(f, off, m, Till(d, f, m)) = At(f, off, m)
  BY <1>1 DEF Till, Spot, At
<1>5. Len(w) = x + (p - a) - 1 /\ Spot(f, off, n, p) = x + (p - a) /\ x <= Len(w) + 1
      /\ Spot(f, off, n, Till(d, f, n)) = Len(w) + 1
  <2>1. Len(w) = x + (p - a) - 1 /\ x <= Len(w) + 1
    BY <1>1, <1>2
  <2>2. Spot(f, off, n, p) = x + (p - a)
    BY <1>1 DEF Spot
  <2>3. x + (p - a) = Len(w) + 1
    BY <1>1, <2>1
  <2> QED  BY <1>4, <2>1, <2>2, <2>3
<1>6. ASSUME NEW m \in 0 .. n, NEW y \in Past(f, m) .. Till(d, f, m) - 1
      PROVE  w[Spot(f, off, m, y)] = d[y]
  <2>1. CASE m = n
    <3>1. y \in a .. p - 1 /\ Spot(f, off, m, y) = x + (y - a)
      BY <1>1, <1>4, <2>1 DEF Spot
    <3> QED  BY <1>2, <3>1
  <2>2. CASE m # n
    <3>1. m \in 0 .. n - 1
      BY <2>2
    <3>2. y \in Past(f, m) .. f[m + 1][1] - 1
      BY <1>4, <3>1
    <3>3. u[off[m] + (y - Past(f, m))] = d[y]
      BY <3>1, <3>2 DEF Encodes
    <3>4. Past(f, m) \in Nat /\ f[m + 1][1] \in Nat /\ off[m] \in Nat /\ 1 <= off[m]
      <4>1. m + 1 \in 1 .. Len(f)
        BY <1>1, <3>1
      <4> QED  BY <1>1, <1>3, <4>1, BlocksFit
    <3>5. At(f, off, m) = off[m] + (f[m + 1][1] - Past(f, m)) /\ At(f, off, m) < x /\ At(f, off, m) \in Nat
      <4>1. m + 1 \in 0 .. n
        BY <3>1
      <4>2. off[m + 1] \in Nat /\ At(f, off, m) < off[m + 1] /\ off[m + 1] <= x /\ At(f, off, m) \in Nat
        BY <1>3, <3>1, <4>1
      <4> QED  BY <4>2 DEF At
    <3> DEFINE b == f[m + 1][1]
               c == Past(f, m)
               z == off[m]
               e == At(f, off, m)
    <3> HIDE DEF b, c, z, e
    <3>6. b \in Nat /\ c \in Nat /\ z \in Nat /\ e \in Nat /\ 1 <= z /\ e = z + (b - c) /\ e < x /\ y \in c .. b - 1
      BY <3>2, <3>4, <3>5 DEF b, c, z, e
    <3>7. z + (y - c) \in 1 .. x - 1
      BY <3>6
    <3>8. w[z + (y - c)] = u[z + (y - c)]
      BY <1>2, <3>7
    <3> QED  BY <3>3, <3>8 DEF Spot, c, z
  <2> QED  BY <2>1, <2>2
<1>7. ASSUME NEW m \in 0 .. n - 1
      PROVE  /\ Spot(f, off, m, Till(d, f, m)) + Len(placeholder(m)) = off[m + 1]
             /\ off[m + 1] <= Len(w) + 1
             /\ \A j \in 1 .. Len(placeholder(m)) :
                   w[Spot(f, off, m, Till(d, f, m)) + (j - 1)] = placeholder(m)[j]
  <2> DEFINE e == At(f, off, m)
             z1 == off[m + 1]
             l == Len(placeholder(m))
  <2>1. e + l = z1 /\ z1 <= x /\ e \in Nat /\ Spot(f, off, m, Till(d, f, m)) = e /\ 1 <= e
    <3>1. m \in 0 .. n /\ off[m] \in Nat /\ 1 <= off[m] /\ off[m] <= e /\ e \in Nat
      BY <1>3
    <3> QED  BY <1>3, <1>4, <3>1
  <2>2. l \in Nat
    <3>1. m \in Nat
      OBVIOUS
    <3> QED  BY <3>1, PlaceholderIs
  <2>3. \A j \in 1 .. l : u[e + (j - 1)] = placeholder(m)[j]
    BY DEF Encodes
  <2>4. z1 \in Nat /\ Len(w) + 1 \in Int
    BY <1>2, <2>1, <2>2
  <2> HIDE DEF e, z1, l
  <2>5. ASSUME NEW j \in 1 .. l
        PROVE  w[e + (j - 1)] = placeholder(m)[j]
    <3>1. e + (j - 1) \in 1 .. x - 1
      BY <2>1, <2>2
    <3> QED  BY <1>2, <2>3, <3>1
  <2>6. z1 <= Len(w) + 1
    BY <1>5, <2>1, <2>4
  <2> QED  BY <2>1, <2>5, <2>6 DEF z1, l
<1>8. ASSUME NEW k \in 1 .. Len(w)
      PROVE  \E m \in 0 .. n :
                \/ \E y \in Past(f, m) .. Till(d, f, m) - 1 : k = Spot(f, off, m, y)
                \/ /\ m < n
                   /\ \E j \in 1 .. Len(placeholder(m)) : k = Spot(f, off, m, Till(d, f, m)) + (j - 1)
  <2>1. CASE k <= x - 1
    <3>0. k \in 1 .. off[n] - 1
      BY <1>1, <2>1
    <3>1. PICK m \in 0 .. n - 1 :
             \/ \E y \in Past(f, m) .. f[m + 1][1] - 1 : k = off[m] + (y - Past(f, m))
             \/ \E j \in 1 .. Len(placeholder(m)) : k = At(f, off, m) + (j - 1)
      BY <3>0 DEF Encodes
    <3>2. m \in 0 .. n /\ m < n
      OBVIOUS
    <3>3. Till(d, f, m) = f[m + 1][1] /\ Spot(f, off, m, Till(d, f, m)) = At(f, off, m)
      BY <1>4
    <3>4. \A y \in Past(f, m) .. f[m + 1][1] - 1 : Spot(f, off, m, y) = off[m] + (y - Past(f, m))
      BY DEF Spot
    <3> QED  BY <3>1, <3>2, <3>3, <3>4
  <2>2. CASE x <= k
    <3> DEFINE y == a + (k - x)
    <3>1. y \in a .. p - 1 /\ k = x + (y - a)
      BY <1>1, <1>2, <2>2
    <3> HIDE DEF y
    <3>2. k = Spot(f, off, n, y) /\ y \in Past(f, n) .. Till(d, f, n) - 1 /\ n \in 0 .. n
      BY <1>1, <1>4, <3>1 DEF Spot
    <3> QED  BY <3>2
  <2> QED  BY <2>1, <2>2
<1>9. off[0] = 1
  BY DEF Encodes
<1>10. Len(f) = n /\ Spot(f, off, n, Till(d, f, n)) = Len(w) + 1
  BY <1>1, <1>5
<1>11. \A m \in 0 .. n : off[m] \in Nat /\ 1 <= off[m]
  BY <1>3
<1> QED  BY <1>6, <1>7, <1>8, <1>9, <1>10, <1>11 DEF Whole

(* Where the atoms of a part stand, and the placeholder behind it. *)
LEMMA SpotsAre ==
    ASSUME NEW d, Len(d) \in Nat, NEW f, BlocksOf(d, f), NEW t, Len(t) \in Nat, NEW off,
           Whole(d, f, t, off), NEW m \in 0 .. Len(f)
    PROVE  /\ \A y \in Past(f, m) .. Till(d, f, m) :
                 /\ Spot(f, off, m, y) \in 1 .. Len(t) + 1
                 /\ Spot(f, off, m, y + 1) = Spot(f, off, m, y) + 1
                 /\ Spot(f, off, m, y) = Spot(f, off, m, Till(d, f, m)) - (Till(d, f, m) - y)
           /\ \A y \in Past(f, m) .. Till(d, f, m) - 1 :
                 Spot(f, off, m, y) \in 1 .. Len(t) /\ t[Spot(f, off, m, y)] = d[y]
           /\ Spot(f, off, m, Past(f, m)) = off[m]
           /\ m < Len(f) => /\ Spot(f, off, m, Till(d, f, m)) + Len(placeholder(m)) = off[m + 1]
                            /\ off[m + 1] \in Nat /\ off[m + 1] <= Len(t) + 1
                            /\ \A j \in 1 .. Len(placeholder(m)) :
                                  t[Spot(f, off, m, Till(d, f, m)) + (j - 1)] = placeholder(m)[j]
           /\ m = Len(f) => Spot(f, off, m, Till(d, f, m)) = Len(t) + 1
<1> DEFINE P == Past(f, m)
           T == Till(d, f, m)
           z == off[m]
           L == Len(t)
<1>1. P \in Nat /\ T \in Nat /\ 1 <= P /\ P <= T
  BY PartsAre
<1>2. z \in Nat /\ 1 <= z
  BY DEF Whole
<1>3. \A y \in Nat : Spot(f, off, m, y) = z + (y - P)
  BY DEF Spot
<1>4. m < Len(f) => /\ Spot(f, off, m, T) + Len(placeholder(m)) = off[m + 1]
                    /\ off[m + 1] \in Nat /\ off[m + 1] <= L + 1
                    /\ \A j \in 1 .. Len(placeholder(m)) :
                          t[Spot(f, off, m, T) + (j - 1)] = placeholder(m)[j]
  <2> SUFFICES ASSUME m < Len(f)
               PROVE  /\ Spot(f, off, m, T) + Len(placeholder(m)) = off[m + 1]
                      /\ off[m + 1] \in Nat /\ off[m + 1] <= L + 1
                      /\ \A j \in 1 .. Len(placeholder(m)) :
                            t[Spot(f, off, m, T) + (j - 1)] = placeholder(m)[j]
    OBVIOUS
  <2>1. Len(f) \in Nat
    BY BlocksFit
  <2>2. m \in 0 .. Len(f) - 1 /\ m + 1 \in 0 .. Len(f)
    BY <2>1
  <2> QED  BY <2>2 DEF Whole
<1>5. m = Len(f) => Spot(f, off, m, T) = L + 1
  BY DEF Whole
<1>6. \A y \in P .. T - 1 : t[Spot(f, off, m, y)] = d[y]
  BY DEF Whole
<1>7. Len(placeholder(m)) \in Nat
  <2>1. m \in Nat
    OBVIOUS
  <2> QED  BY <2>1, PlaceholderIs
<1>12. m < Len(f) \/ m = Len(f)
  <2>1. Len(f) \in Nat
    BY BlocksFit
  <2> QED  BY <2>1
<1> HIDE DEF P, T, z, L
<1>8. Spot(f, off, m, T) = z + (T - P) /\ z + (T - P) \in Nat /\ z + (T - P) <= L + 1
  <2>0. L \in Nat
    BY DEF L
  <2>1. Spot(f, off, m, T) = z + (T - P) /\ z + (T - P) \in Nat
    BY <1>1, <1>2, <1>3
  <2>2. CASE m < Len(f)
    <3> DEFINE o1 == off[m + 1]
               lp == Len(placeholder(m))
    <3>1. z + (T - P) + lp = o1 /\ o1 \in Nat /\ o1 <= L + 1 /\ lp \in Nat
      BY <1>4, <1>7, <2>1, <2>2
    <3> HIDE DEF o1, lp
    <3>2. z + (T - P) <= L + 1
      BY <2>0, <2>1, <3>1
    <3> QED  BY <2>1, <3>2
  <2>3. CASE m = Len(f)
    BY <1>5, <2>0, <2>1, <2>3
  <2> QED  BY <1>12, <2>2, <2>3
<1>9. ASSUME NEW y \in P .. T
      PROVE  /\ Spot(f, off, m, y) \in 1 .. L + 1
             /\ Spot(f, off, m, y + 1) = Spot(f, off, m, y) + 1
             /\ Spot(f, off, m, y) = Spot(f, off, m, T) - (T - y)
             /\ y < T => Spot(f, off, m, y) \in 1 .. L
  <2>0. L \in Nat /\ y \in Nat /\ y + 1 \in Nat
    BY <1>1 DEF L
  <2>1. Spot(f, off, m, y) = z + (y - P) /\ Spot(f, off, m, y + 1) = z + ((y + 1) - P)
    BY <1>3, <2>0
  <2>2. z + (y - P) \in 1 .. L + 1 /\ (y < T => z + (y - P) \in 1 .. L)
    BY <1>1, <1>2, <1>8, <2>0
  <2>3. z + ((y + 1) - P) = (z + (y - P)) + 1 /\ z + (y - P) = (z + (T - P)) - (T - y)
    BY <1>1, <1>2, <2>0
  <2> QED  BY <1>8, <2>1, <2>2, <2>3
<1>10. ASSUME NEW y \in P .. T - 1
       PROVE  Spot(f, off, m, y) \in 1 .. L /\ t[Spot(f, off, m, y)] = d[y]
  <2>1. y \in P .. T /\ y < T
    BY <1>1
  <2> QED  BY <1>6, <1>9, <2>1
<1>11. Spot(f, off, m, P) = z
  <2>1. z + (P - P) = z
    BY <1>1, <1>2
  <2> QED  BY <1>1, <1>3, <2>1
<1>13. \A y \in P .. T : /\ Spot(f, off, m, y) \in 1 .. L + 1
                         /\ Spot(f, off, m, y + 1) = Spot(f, off, m, y) + 1
                         /\ Spot(f, off, m, y) = Spot(f, off, m, T) - (T - y)
  BY <1>9
<1>14. \A y \in P .. T - 1 : Spot(f, off, m, y) \in 1 .. L /\ t[Spot(f, off, m, y)] = d[y]
  BY <1>10
<1> QED  BY <1>4, <1>5, <1>11, <1>13, <1>14 DEF P, T, z, L

-----------------------------------------------------------------------------
(* CodeBlocks: the processed text *)

(* x is t, written once or twice, each time behind one of the places B. *)
Copied(x, t, B) ==
    \/ B = {0} /\ Len(x) = Len(t) /\ \A k \in 1 .. Len(t) : x[k] = t[k]
    \/ /\ B = {0, Len(t) + 1} /\ Len(x) = Len(t) + 1 + Len(t) /\ x[Len(t) + 1] = "x"
       /\ \A k \in 1 .. Len(t) : x[k] = t[k] /\ x[Len(t) + 1 + k] = t[k]

(* Processing writes such a text. *)
LEMMA CopiesAre ==
    ASSUME NEW S, "x" \in S, NEW t, Text(S, t), NEW copies \in {<<t>>, <<t, <<"x">>, t>>}
    PROVE  Text(S, FlattenSeq(copies)) /\ \E B : Copied(FlattenSeq(copies), t, B)
<1> DEFINE X == <<"x">>
<1>1. t \in Seq(S) /\ X \in Seq(S)
  BY DEF Text
<1>2. Text(S, X) /\ Len(X) = 1 /\ X[1] = "x"
  BY <1>1 DEF Text
<1>3. FlattenSeq(<<t>>) = t
  BY <1>1, FlattenOne
<1> HIDE DEF X
<1>4. FlattenSeq(<<t, X>>) = t \o X
  <2> DEFINE u == <<t>>
             v == <<t, X>>
  <2>1. u \in Seq(Seq(S)) /\ v \in Seq(Seq(S))
    BY <1>1
  <2>2. Len(v) = Len(u) + 1 /\ v[Len(v)] = X /\ \A k \in DOMAIN u : v[k] = u[k]
    OBVIOUS
  <2> HIDE DEF u, v
  <2>3. FlattenSeq(v) = FlattenSeq(u) \o v[Len(v)]
    BY <2>1, <2>2, FlattenAppend
  <2> QED  BY <1>3, <2>2, <2>3 DEF u, v
<1>5. FlattenSeq(<<t, X, t>>) = (t \o X) \o t
  <2> DEFINE u == <<t, X>>
             v == <<t, X, t>>
  <2>1. u \in Seq(Seq(S)) /\ v \in Seq(Seq(S))
    BY <1>1
  <2>2. Len(v) = Len(u) + 1 /\ v[Len(v)] = t /\ \A k \in DOMAIN u : v[k] = u[k]
    OBVIOUS
  <2> HIDE DEF u, v
  <2>3. FlattenSeq(v) = FlattenSeq(u) \o v[Len(v)]
    BY <2>1, <2>2, FlattenAppend
  <2> QED  BY <1>4, <2>2, <2>3 DEF u, v
<1>6. CASE copies = <<t>>
  <2>1. Copied(t, t, {0})
    BY DEF Copied
  <2>2. FlattenSeq(copies) = t
    BY <1>3, <1>6
  <2> QED  BY <2>1, <2>2
<1>7. CASE copies = <<t, X, t>>
  <2> DEFINE v == t \o X
             w == v \o t
             l == Len(t)
  <2>1. /\ Text(S, v) /\ l \in Nat /\ Len(v) = l + 1
        /\ \A k \in 1 .. l : v[k] = t[k]
        /\ v[l + 1] = "x"
    <3>1. /\ Text(S, v) /\ l \in Nat /\ Len(v) = l + Len(X)
          /\ \A k \in 1 .. l : v[k] = t[k]
          /\ \A k \in 1 .. Len(X) : v[l + k] = X[k]
      <4>1. Text(S, X) /\ Text(S, t)
        BY <1>2
      <4> QED  BY <4>1, ConcatIs
    <3> QED  BY <1>2, <3>1
  <2> HIDE DEF v
  <2>2. Text(S, v)
    BY <2>1
  <2>3. /\ Text(S, w) /\ Len(w) = Len(v) + l
        /\ \A k \in 1 .. Len(v) : w[k] = v[k]
        /\ \A k \in 1 .. l : w[Len(v) + k] = t[k]
    BY <2>2, ConcatIs
  <2> HIDE DEF w
  <2>4. Len(w) = l + 1 + l
    BY <2>1, <2>3
  <2>5. ASSUME NEW k \in 1 .. l
        PROVE  w[k] = t[k] /\ w[l + 1 + k] = t[k]
    <3>1. k \in 1 .. Len(v) /\ Len(v) = l + 1
      BY <2>1
    <3>2. w[k] = t[k]
      BY <2>1, <2>3, <3>1
    <3> QED  BY <2>3, <3>1, <3>2
  <2>6. w[l + 1] = "x"
    <3>1. l + 1 \in 1 .. Len(v)
      BY <2>1
    <3> QED  BY <2>1, <2>3, <3>1
  <2>7. Copied(w, t, {0, Len(t) + 1})
    BY <2>4, <2>5, <2>6 DEF Copied
  <2>8. FlattenSeq(copies) = w
    BY <1>5, <1>7 DEF w, v
  <2> QED  BY <2>3, <2>7, <2>8
<1> QED  BY <1>6, <1>7 DEF X

(* Each copy is the whole of t, with an "x" or nothing behind it; nothing else
   is in the text. *)
LEMMA CopyIs ==
    ASSUME NEW t, Len(t) \in Nat, NEW x, NEW B, Copied(x, t, B)
    PROVE  /\ Len(x) \in Nat /\ 0 \in B
           /\ \A b \in B : /\ b \in Nat /\ b + Len(t) <= Len(x)
                           /\ \A k \in 1 .. Len(t) : x[b + k] = t[k]
                           /\ b + Len(t) < Len(x) =>
                                 /\ x[b + Len(t) + 1] = "x" /\ b = 0 /\ Len(t) + 1 \in B
                           /\ b # 0 => b = Len(t) + 1
           /\ \A k \in 1 .. Len(x) : x[k] = "x" \/ \E b \in B : \E l \in 1 .. Len(t) : k = b + l
<1> DEFINE L == Len(t)
<1>0. L \in Nat
  OBVIOUS
<1>1. CASE B = {0} /\ Len(x) = L /\ \A k \in 1 .. L : x[k] = t[k]
  <2> HIDE DEF L
  <2>1. \A k \in 1 .. L : 0 + k = k
    BY <1>0
  <2>2. ASSUME NEW b \in B
        PROVE  /\ b \in Nat /\ b + L <= Len(x) /\ \A k \in 1 .. L : x[b + k] = t[k]
               /\ ~(b + L < Len(x)) /\ b = 0
    BY <1>0, <1>1, <2>1
  <2>3. ASSUME NEW k \in 1 .. Len(x)
        PROVE  \E b \in B : \E l \in 1 .. L : k = b + l
    BY <1>1, <2>1
  <2> QED  BY <1>0, <1>1, <2>2, <2>3 DEF L
<1>2. CASE /\ B = {0, L + 1} /\ Len(x) = L + 1 + L /\ x[L + 1] = "x"
           /\ \A k \in 1 .. L : x[k] = t[k] /\ x[L + 1 + k] = t[k]
  <2> HIDE DEF L
  <2>1. Len(x) \in Nat /\ 0 + L < Len(x) /\ ~(L + 1 + L < Len(x)) /\ L + 1 \in Nat
    BY <1>0, <1>2
  <2>2. \A k \in 1 .. L : 0 + k = k
    BY <1>0
  <2>3. /\ \A k \in 1 .. L : x[0 + k] = t[k]
        /\ x[0 + L + 1] = "x"
    BY <1>0, <1>2, <2>2
  <2>4. ASSUME NEW k \in 1 .. Len(x)
        PROVE  x[k] = "x" \/ \E b \in B : \E l \in 1 .. L : k = b + l
    <3>1. CASE k <= L
      <4>1. k \in 1 .. L /\ k = 0 + k
        BY <1>0, <2>1, <3>1
      <4> QED  BY <1>2, <4>1
    <3>2. CASE k = L + 1
      BY <1>2, <3>2
    <3>3. CASE k > L + 1
      <4> DEFINE l == k - (L + 1)
      <4>1. l \in 1 .. L /\ k = L + 1 + l
        BY <1>0, <1>2, <3>3
      <4> HIDE DEF l
      <4> QED  BY <1>2, <4>1
    <3> QED  BY <1>0, <2>1, <3>1, <3>2, <3>3
  <2>5. ASSUME NEW b \in B
        PROVE  /\ b \in Nat /\ b + L <= Len(x)
               /\ \A k \in 1 .. L : x[b + k] = t[k]
               /\ b + L < Len(x) => x[b + L + 1] = "x" /\ b = 0 /\ L + 1 \in B
               /\ b # 0 => b = L + 1
    <3>1. CASE b = 0
      <4>1. 0 + L <= Len(x)
        BY <1>0, <2>1
      <4> QED  BY <1>2, <2>3, <3>1, <4>1
    <3>2. CASE b = L + 1
      <4>1. L + 1 + L <= Len(x)
        BY <1>0, <1>2
      <4>2. b + L = L + 1 + L
        BY <3>2
      <4> QED  BY <1>2, <2>1, <3>2, <4>1, <4>2
    <3> QED  BY <1>2, <3>1, <3>2
  <2> QED  BY <1>2, <2>1, <2>4, <2>5 DEF L
<1> QED  BY <1>1, <1>2 DEF Copied

(* The decoder reads x, which is d encoded and processed. *)
Processed(d, f, t, off, x, B) ==
    /\ Len(d) \in Nat /\ BlocksOf(d, f) /\ Len(t) \in Nat
    /\ Whole(d, f, t, off) /\ Copied(x, t, B)

(* Where the copy at b has atom y of part m, and the placeholder behind it. *)
PlainAt(f, off, b, m, y) == b + Spot(f, off, m, y)
CodeAt(d, f, off, b, m) == b + Spot(f, off, m, Till(d, f, m))

(* These places are in x, and hold the atoms of d and the placeholders. *)
LEMMA PlacesAre ==
    ASSUME NEW d, NEW f, NEW t, NEW off, NEW x, NEW B, Processed(d, f, t, off, x, B),
           NEW b \in B, NEW m \in 0 .. Len(f)
    PROVE  /\ \A y \in Past(f, m) .. Till(d, f, m) :
                 /\ PlainAt(f, off, b, m, y) \in 1 .. Len(x) + 1
                 /\ PlainAt(f, off, b, m, y + 1) = PlainAt(f, off, b, m, y) + 1
                 /\ PlainAt(f, off, b, m, y) = CodeAt(d, f, off, b, m) - (Till(d, f, m) - y)
           /\ \A y \in Past(f, m) .. Till(d, f, m) - 1 :
                 PlainAt(f, off, b, m, y) \in 1 .. Len(x) /\ x[PlainAt(f, off, b, m, y)] = d[y]
           /\ m < Len(f) =>
                 /\ CodeAt(d, f, off, b, m) + Len(placeholder(m)) = PlainAt(f, off, b, m + 1, Past(f, m + 1))
                 /\ CodeAt(d, f, off, b, m) + Len(placeholder(m)) <= Len(x) + 1
                 /\ CodeAt(d, f, off, b, m) \in 1 .. Len(x)
                 /\ \A j \in 1 .. Len(placeholder(m)) :
                       x[CodeAt(d, f, off, b, m) + (j - 1)] = placeholder(m)[j]
           /\ m = Len(f) =>
                 /\ CodeAt(d, f, off, b, m) \in Nat /\ CodeAt(d, f, off, b, m) >= 1
                 /\ \/ CodeAt(d, f, off, b, m) = Len(x) + 1
                    \/ /\ CodeAt(d, f, off, b, m) \in 1 .. Len(x) /\ x[CodeAt(d, f, off, b, m)] = "x"
                       /\ b = 0 /\ CodeAt(d, f, off, b, m) \in B
<1>1. /\ Len(d) \in Nat /\ BlocksOf(d, f) /\ Len(t) \in Nat
      /\ Whole(d, f, t, off) /\ Copied(x, t, B) /\ Len(f) \in Nat
  BY BlocksFit DEF Processed
<1> DEFINE L == Len(t)
           X == Len(x)
           P == Past(f, m)
           T == Till(d, f, m)
           SP(y) == Spot(f, off, m, y)
<1>2. /\ X \in Nat /\ b \in Nat /\ b + L <= X /\ \A k \in 1 .. L : x[b + k] = t[k]
      /\ b + L < X => x[b + L + 1] = "x" /\ b = 0 /\ L + 1 \in B
  BY <1>1, CopyIs
<1>3. P \in Nat /\ T \in Nat /\ 1 <= P /\ P <= T
  BY <1>1, PartsAre
<1>4. /\ \A y \in P .. T : SP(y) \in 1 .. L + 1 /\ SP(y + 1) = SP(y) + 1 /\ SP(y) = SP(T) - (T - y)
      /\ \A y \in P .. T - 1 : SP(y) \in 1 .. L /\ t[SP(y)] = d[y]
      /\ m < Len(f) => /\ SP(T) + Len(placeholder(m)) = off[m + 1]
                       /\ off[m + 1] \in Nat /\ off[m + 1] <= L + 1
                       /\ \A j \in 1 .. Len(placeholder(m)) : t[SP(T) + (j - 1)] = placeholder(m)[j]
      /\ m = Len(f) => SP(T) = L + 1
  BY <1>1, SpotsAre
<1>5. L \in Nat /\ SP(T) \in 1 .. L + 1 /\ CodeAt(d, f, off, b, m) = b + SP(T)
  BY <1>1, <1>3, <1>4 DEF CodeAt
<1>6. m < Len(f) => off[m + 1] = Spot(f, off, m + 1, Past(f, m + 1))
  <2> SUFFICES ASSUME m < Len(f) PROVE off[m + 1] = Spot(f, off, m + 1, Past(f, m + 1))
    OBVIOUS
  <2>1. m + 1 \in 0 .. Len(f)
    BY <1>1
  <2> QED  BY <1>1, <2>1, SpotsAre
<1>7. Len(placeholder(m)) \in Nat /\ Len(placeholder(m)) > 0
  <2>1. m \in Nat
    OBVIOUS
  <2>2. Len(Numeral(m)) \in Nat /\ Len(placeholder(m)) = Len(Numeral(m)) + 2
    BY <2>1, PlaceholderIs
  <2> QED  BY <2>2
<1>8. \A y \in Nat : PlainAt(f, off, b, m, y) = b + SP(y)
  BY DEF PlainAt
<1> HIDE DEF L, X, P, T, SP
<1>9. ASSUME NEW y \in P .. T
      PROVE  /\ PlainAt(f, off, b, m, y) \in 1 .. X + 1
             /\ PlainAt(f, off, b, m, y + 1) = PlainAt(f, off, b, m, y) + 1
             /\ PlainAt(f, off, b, m, y) = CodeAt(d, f, off, b, m) - (T - y)
  <2>1. y \in Nat /\ y + 1 \in Nat
    BY <1>3
  <2>2. PlainAt(f, off, b, m, y) = b + SP(y) /\ PlainAt(f, off, b, m, y + 1) = b + SP(y + 1)
    BY <1>8, <2>1
  <2>3. SP(y) \in 1 .. L + 1 /\ SP(y + 1) = SP(y) + 1 /\ SP(y) = SP(T) - (T - y)
    BY <1>4
  <2> DEFINE c == SP(y)
             e == SP(T)
  <2>4. c \in 1 .. L + 1 /\ e \in 1 .. L + 1 /\ c = e - (T - y)
        /\ b \in Nat /\ X \in Nat /\ L \in Nat /\ b + L <= X
    BY <1>2, <1>5, <2>3
  <2> HIDE DEF c, e
  <2>5. b + c \in 1 .. X + 1 /\ b + (c + 1) = (b + c) + 1 /\ b + c = (b + e) - (T - y)
    BY <1>3, <2>1, <2>4
  <2>6. /\ PlainAt(f, off, b, m, y) = b + c /\ PlainAt(f, off, b, m, y + 1) = b + (c + 1)
        /\ CodeAt(d, f, off, b, m) = b + e
    BY <1>5, <2>2, <2>3 DEF c, e
  <2> QED  BY <2>5, <2>6
<1>10. ASSUME NEW y \in P .. T - 1
       PROVE  PlainAt(f, off, b, m, y) \in 1 .. X /\ x[PlainAt(f, off, b, m, y)] = d[y]
  <2>1. y \in Nat
    BY <1>3
  <2>2. SP(y) \in 1 .. L /\ t[SP(y)] = d[y]
    BY <1>4
  <2>3. b + SP(y) \in 1 .. X /\ x[b + SP(y)] = t[SP(y)]
    BY <1>2, <1>5, <2>2
  <2> QED  BY <1>8, <2>1, <2>2, <2>3
<1>11. ASSUME m < Len(f)
       PROVE  /\ CodeAt(d, f, off, b, m) + Len(placeholder(m)) = PlainAt(f, off, b, m + 1, Past(f, m + 1))
              /\ CodeAt(d, f, off, b, m) + Len(placeholder(m)) <= X + 1
              /\ CodeAt(d, f, off, b, m) \in 1 .. X
              /\ \A j \in 1 .. Len(placeholder(m)) :
                    x[CodeAt(d, f, off, b, m) + (j - 1)] = placeholder(m)[j]
  <2> DEFINE c == SP(T)
             lp == Len(placeholder(m))
             o1 == off[m + 1]
  <2>1. /\ c + lp = o1 /\ o1 \in Nat /\ o1 <= L + 1 /\ lp \in Nat /\ lp > 0 /\ c \in 1 .. L + 1
        /\ \A j \in 1 .. lp : t[c + (j - 1)] = placeholder(m)[j]
    BY <1>4, <1>5, <1>7, <1>11
  <2>2. CodeAt(d, f, off, b, m) = b + c
    BY <1>5
  <2>3. PlainAt(f, off, b, m + 1, Past(f, m + 1)) = b + o1
    BY <1>6, <1>11 DEF PlainAt
  <2> HIDE DEF c, lp, o1
  <2>4. (b + c) + lp = b + o1 /\ (b + c) + lp <= X + 1 /\ b + c \in 1 .. X
    BY <1>2, <1>5, <2>1
  <2>5. ASSUME NEW j \in 1 .. lp
        PROVE  x[(b + c) + (j - 1)] = placeholder(m)[j]
    <3>1. c + (j - 1) \in 1 .. L /\ (b + c) + (j - 1) = b + (c + (j - 1))
      BY <1>2, <1>5, <2>1
    <3> QED  BY <1>2, <2>1, <3>1
  <2> QED  BY <2>2, <2>3, <2>4, <2>5 DEF lp
<1>12. ASSUME m = Len(f)
       PROVE  /\ CodeAt(d, f, off, b, m) \in Nat /\ CodeAt(d, f, off, b, m) >= 1
              /\ \/ CodeAt(d, f, off, b, m) = X + 1
                 \/ /\ CodeAt(d, f, off, b, m) \in 1 .. X /\ x[CodeAt(d, f, off, b, m)] = "x"
                    /\ b = 0 /\ CodeAt(d, f, off, b, m) \in B
  <2>1. CodeAt(d, f, off, b, m) = b + (L + 1) /\ b + (L + 1) \in Nat /\ b + (L + 1) >= 1
    BY <1>2, <1>4, <1>5, <1>12
  <2>2. CASE b + L = X
    <3>1. b + (L + 1) = X + 1
      BY <1>2, <1>5, <2>2
    <3> QED  BY <2>1, <3>1
  <2>3. CASE b + L < X
    <3>1. b + (L + 1) \in 1 .. X /\ b + L + 1 = b + (L + 1)
      BY <1>2, <1>5, <2>3
    <3>2. b = 0 => b + (L + 1) = L + 1
      BY <1>5
    <3> QED  BY <1>2, <2>1, <2>3, <3>1, <3>2
  <2> QED  BY <1>2, <1>5, <2>2, <2>3
<1>13. /\ \A y \in P .. T : /\ PlainAt(f, off, b, m, y) \in 1 .. X + 1
                            /\ PlainAt(f, off, b, m, y + 1) = PlainAt(f, off, b, m, y) + 1
                            /\ PlainAt(f, off, b, m, y) = CodeAt(d, f, off, b, m) - (T - y)
       /\ \A y \in P .. T - 1 : PlainAt(f, off, b, m, y) \in 1 .. X /\ x[PlainAt(f, off, b, m, y)] = d[y]
  BY <1>9, <1>10
<1> QED  BY <1>11, <1>12, <1>13 DEF P, T, X

(* Where the text has a placeholder's prefix, the document has it too or a
   placeholder begins. *)
LEMMA PrefixIs ==
    ASSUME NEW d, NEW f, NEW t, NEW off, NEW x, NEW B, Processed(d, f, t, off, x, B),
           NEW k \in 1 .. Len(x), x[k] = Prefix
    PROVE  \E b \in B : \E m \in 0 .. Len(f) :
              \/ \E y \in Past(f, m) .. Till(d, f, m) - 1 : k = PlainAt(f, off, b, m, y) /\ d[y] = Prefix
              \/ m < Len(f) /\ k = CodeAt(d, f, off, b, m)
<1>1. /\ Len(d) \in Nat /\ BlocksOf(d, f) /\ Len(t) \in Nat
      /\ Whole(d, f, t, off) /\ Copied(x, t, B) /\ Len(f) \in Nat
  BY BlocksFit DEF Processed
<1>2. PICK b \in B : \E l \in 1 .. Len(t) : k = b + l
  <2>1. Prefix # "x"
    BY AtomsAssumption
  <2> QED  BY <1>1, <2>1, CopyIs
<1>3. PICK l \in 1 .. Len(t) : k = b + l
  BY <1>2
<1>4. PICK m \in 0 .. Len(f) :
         \/ \E y \in Past(f, m) .. Till(d, f, m) - 1 : l = Spot(f, off, m, y)
         \/ /\ m < Len(f)
            /\ \E j \in 1 .. Len(placeholder(m)) : l = Spot(f, off, m, Till(d, f, m)) + (j - 1)
  BY <1>1 DEF Whole
<1>5. CASE \E y \in Past(f, m) .. Till(d, f, m) - 1 : l = Spot(f, off, m, y)
  <2>1. PICK y \in Past(f, m) .. Till(d, f, m) - 1 : l = Spot(f, off, m, y)
    BY <1>5
  <2>2. k = PlainAt(f, off, b, m, y)
    BY <1>3, <2>1 DEF PlainAt
  <2>3. x[PlainAt(f, off, b, m, y)] = d[y]
    BY PlacesAre
  <2> QED  BY <2>2, <2>3
<1>6. CASE /\ m < Len(f)
           /\ \E j \in 1 .. Len(placeholder(m)) : l = Spot(f, off, m, Till(d, f, m)) + (j - 1)
  <2> DEFINE c == Spot(f, off, m, Till(d, f, m))
             u == Len(Numeral(m))
  <2>1. PICK j \in 1 .. Len(placeholder(m)) : l = c + (j - 1)
    BY <1>6
  <2>2. c \in Nat /\ b \in Nat /\ CodeAt(d, f, off, b, m) = b + c
    <3>1. Till(d, f, m) \in Past(f, m) .. Till(d, f, m)
      BY <1>1, PartsAre
    <3>2. c \in 1 .. Len(t) + 1
      BY <1>1, <3>1, SpotsAre
    <3> QED  BY <1>1, <3>2, CopyIs DEF CodeAt
  <2>3. x[CodeAt(d, f, off, b, m) + (j - 1)] = placeholder(m)[j]
    BY <1>6, PlacesAre
  <2> HIDE DEF c
  <2>4. k = CodeAt(d, f, off, b, m) + (j - 1)
    <3>1. b + (c + (j - 1)) = (b + c) + (j - 1)
      BY <2>2
    <3> QED  BY <1>3, <2>1, <2>2, <3>1
  <2>5. placeholder(m)[j] = Prefix
    BY <2>3, <2>4
  <2>6. j = 1
    <3>1. m \in Nat
      OBVIOUS
    <3>2. /\ u \in Nat /\ Len(placeholder(m)) = u + 2 /\ placeholder(m)[u + 2] = Underscore
          /\ \A h \in 1 .. u : placeholder(m)[h + 1] = Numeral(m)[h] /\ Numeral(m)[h] \in ToSet(Digits)
      BY <3>1, PlaceholderIs
    <3>3. Prefix \notin ToSet(Digits) /\ Prefix # Underscore
      BY AtomsAssumption
    <3> HIDE DEF u
    <3>4. j # u + 2 /\ j \in 1 .. u + 2
      BY <2>5, <3>2, <3>3
    <3>5. ASSUME j # 1 PROVE FALSE
      <4>1. j - 1 \in 1 .. u /\ (j - 1) + 1 = j
        BY <3>2, <3>4, <3>5
      <4> QED  BY <2>5, <3>2, <3>3, <4>1
    <3> QED  BY <3>5
  <2>7. k = CodeAt(d, f, off, b, m)
    BY <2>2, <2>4, <2>6
  <2> QED  BY <1>6, <2>7
<1> QED  BY <1>4, <1>5, <1>6

(* A placeholder is read back: it is one of ours, and the number is that of its
   block. *)
LEMMA CodeReads ==
    ASSUME NEW d, NEW f, NEW t, NEW off, NEW x, NEW B, Processed(d, f, t, off, x, B),
           NEW b \in B, NEW m \in 0 .. Len(f), m < Len(f)
    PROVE  /\ x[CodeAt(d, f, off, b, m)] = Prefix
           /\ Written(x, CodeAt(d, f, off, b, m)) = m
           /\ AfterDigits(x, CodeAt(d, f, off, b, m)) \in Nat
           /\ AfterDigits(x, CodeAt(d, f, off, b, m)) > CodeAt(d, f, off, b, m) + 1
           /\ AfterDigits(x, CodeAt(d, f, off, b, m)) <= Len(x)
           /\ x[AfterDigits(x, CodeAt(d, f, off, b, m))] = Underscore
           /\ AfterDigits(x, CodeAt(d, f, off, b, m)) + 1 = PlainAt(f, off, b, m + 1, Past(f, m + 1))
<1> DEFINE ph == placeholder(m)
           l == Len(Numeral(m))
           c == CodeAt(d, f, off, b, m)
           q == AfterDigits(x, c)
           nx == PlainAt(f, off, b, m + 1, Past(f, m + 1))
<1>1. /\ l \in Nat /\ l > 0 /\ Len(ph) = l + 2 /\ ph[1] = Prefix /\ ph[l + 2] = Underscore
      /\ \A j \in 1 .. l : ph[j + 1] \in ToSet(Digits)
      /\ AfterDigits(ph, 1) = l + 2 /\ Written(ph, 1) = m
  <2>1. m \in Nat
    OBVIOUS
  <2>2. AfterDigits(ph, 1) = l + 2 /\ Written(ph, 1) = m
    BY <2>1, PlaceholderReads
  <2>3. /\ l \in Nat /\ l > 0 /\ Len(ph) = l + 2 /\ ph[1] = Prefix /\ ph[l + 2] = Underscore
        /\ \A j \in 1 .. l : ph[j + 1] = Numeral(m)[j] /\ Numeral(m)[j] \in ToSet(Digits)
    BY <2>1, PlaceholderIs
  <2> HIDE DEF l, ph
  <2> QED  BY <2>2, <2>3
<1>2. /\ c + Len(ph) = nx /\ c + Len(ph) <= Len(x) + 1 /\ c \in 1 .. Len(x)
      /\ \A j \in 1 .. Len(ph) : x[c + (j - 1)] = ph[j]
  BY PlacesAre
<1>3. Len(x) \in Nat /\ Underscore \notin ToSet(Digits)
  BY CopyIs, AtomsAssumption DEF Processed
<1> HIDE DEF ph, l, c, nx
<1>4. \A j \in 0 .. l + 1 : x[c + j] = ph[j + 1]
  <2> SUFFICES ASSUME NEW j \in 0 .. l + 1 PROVE x[c + j] = ph[j + 1]
    OBVIOUS
  <2>1. j + 1 \in 1 .. Len(ph) /\ (j + 1) - 1 = j
    BY <1>1
  <2> QED  BY <1>2, <2>1
<1>5. x[c] = Prefix
  <2>1. c + 0 = c /\ 0 \in 0 .. l + 1 /\ 0 + 1 = 1
    BY <1>1, <1>2
  <2> QED  BY <1>1, <1>4, <2>1
<1>6. x[c + (l + 1)] = Underscore
  <2>1. l + 1 \in 0 .. l + 1 /\ (l + 1) + 1 = l + 2
    BY <1>1
  <2> QED  BY <1>1, <1>4, <2>1
<1>7. Alike(x, c, ph, 1, l)
  <2>1. c + l <= Len(x) /\ 1 + l <= Len(ph)
    BY <1>1, <1>2, <1>3, SMTT(30)
  <2>2. c + l + 1 = c + (l + 1) /\ 1 + l + 1 = l + 2
    BY <1>1, <1>2
  <2>3. ASSUME NEW k \in 1 .. l
        PROVE  x[c + k] = ph[1 + k]
    <3>1. k \in 0 .. l + 1 /\ k + 1 = 1 + k
      BY <1>1
    <3> QED  BY <1>4, <3>1
  <2> QED  BY <1>1, <1>3, <1>6, <2>1, <2>2, <2>3 DEF Alike
<1>8. /\ q \in Nat /\ q - c = (l + 2) - 1 /\ Written(x, c) = m
  <2>0. c \in Nat /\ c >= 1 /\ Len(ph) \in Nat /\ l \in Nat /\ Len(x) \in Nat
    BY <1>1, <1>2, <1>3
  <2>1. /\ q \in Nat /\ q - c = AfterDigits(ph, 1) - 1 /\ Written(x, c) = Written(ph, 1)
    BY <1>7, <2>0, SameNumber
  <2> HIDE DEF q
  <2> QED  BY <1>1, <2>1
<1> HIDE DEF q
<1>9. q = c + (l + 1) /\ q + 1 = nx /\ q <= Len(x) /\ q > c + 1
  BY <1>1, <1>2, <1>3, <1>8
<1> QED  BY <1>5, <1>6, <1>8, <1>9 DEF c, q, nx

(* What the document itself has of a placeholder is read as it is there, number
   and all. *)
LEMMA PlainReads ==
    ASSUME NEW d, NEW f, NEW t, NEW off, NEW x, NEW B, Processed(d, f, t, off, x, B),
           NEW b \in B, NEW m \in 0 .. Len(f), NEW y \in Past(f, m) .. Till(d, f, m) - 1
    PROVE  /\ AfterDigits(x, PlainAt(f, off, b, m, y)) \in Nat /\ AfterDigits(d, y) \in Nat
           /\ AfterDigits(x, PlainAt(f, off, b, m, y)) - PlainAt(f, off, b, m, y)
                 = AfterDigits(d, y) - y
           /\ Written(x, PlainAt(f, off, b, m, y)) = Written(d, y)
<1> DEFINE P == Past(f, m)
           T == Till(d, f, m)
           k == PlainAt(f, off, b, m, y)
           e == CodeAt(d, f, off, b, m)
           l == (T - 1) - y
<1>1. Len(d) \in Nat /\ BlocksOf(d, f) /\ Len(f) \in Nat /\ Len(x) \in Nat
  <2>1. Len(d) \in Nat /\ BlocksOf(d, f) /\ Len(x) \in Nat
    BY CopyIs DEF Processed
  <2> QED  BY <2>1, BlocksFit
<1>2. P \in Nat /\ T \in Nat /\ 1 <= P /\ T <= Len(d) + 1
  BY <1>1, PartsAre
<1>3. /\ \A z \in P .. T - 1 : PlainAt(f, off, b, m, z) \in 1 .. Len(x) /\ x[PlainAt(f, off, b, m, z)] = d[z]
      /\ \A z \in P .. T : PlainAt(f, off, b, m, z) = e - (T - z)
  BY PlacesAre
<1>4. e \in Nat /\ (e \in 1 .. Len(x) => x[e] \notin ToSet(Digits))
  <2>1. Prefix \notin ToSet(Digits) /\ "x" \notin ToSet(Digits)
    BY AtomsAssumption
  <2>2. CASE m < Len(f)
    <3>1. x[e] = Prefix /\ e \in 1 .. Len(x)
      BY <2>2, CodeReads, PlacesAre
    <3> QED  BY <2>1, <3>1
  <2>3. CASE m = Len(f)
    <3>1. e \in Nat /\ (e = Len(x) + 1 \/ x[e] = "x")
      BY <2>3, PlacesAre
    <3> QED  BY <1>1, <2>1, <3>1
  <2> QED  BY <1>1, <2>2, <2>3
<1>5. T <= Len(d) => d[T] \notin ToSet(Digits)
  <2> SUFFICES ASSUME T <= Len(d) PROVE d[T] \notin ToSet(Digits)
    OBVIOUS
  <2>1. m < Len(f)
    BY <1>1 DEF Till
  <2>2. T = f[m + 1][1] /\ m + 1 \in DOMAIN f
    <3>1. DOMAIN f = 1 .. Len(f)
      BY <1>1, BlocksFit
    <3> QED  BY <1>1, <2>1, <3>1 DEF Till
  <2>3. <<d[f[m + 1][1]], d[f[m + 1][2]]>> \in Delimiters
    BY <1>1, <2>2 DEF BlocksOf
  <2>4. <<d[f[m + 1][1]], d[f[m + 1][2]]>>[1] \notin ToSet(Digits)
    BY <2>3, AtomsAssumption
  <2> QED  BY <2>2, <2>4
<1> HIDE DEF P, T, e
<1>6. y \in Nat /\ y >= 1 /\ l \in Nat /\ y + l <= Len(d) /\ y + l + 1 = T /\ y + l = T - 1
  BY <1>1, <1>2 DEF P, T
<1>7. k = e - (T - y) /\ k \in 1 .. Len(x) /\ y \in P .. T /\ y \in P .. T - 1
  <2>1. y \in P .. T /\ y \in P .. T - 1
    BY <1>2 DEF P, T
  <2> QED  BY <1>3, <2>1
<1> HIDE DEF l, k
<1>8. k + l + 1 = e /\ k \in Nat /\ k >= 1
  BY <1>1, <1>2, <1>4, <1>6, <1>7
<1>9. ASSUME NEW h \in 1 .. l
      PROVE  x[k + h] = d[y + h] /\ k + h <= Len(x)
  <2>1. y + h \in P .. T - 1 /\ y + h \in P .. T /\ e - (T - (y + h)) = k + h
    BY <1>1, <1>2, <1>4, <1>6, <1>7, <1>8
  <2>2. PlainAt(f, off, b, m, y + h) = k + h
    BY <1>3, <2>1
  <2>3. PlainAt(f, off, b, m, y + h) \in 1 .. Len(x) /\ x[PlainAt(f, off, b, m, y + h)] = d[y + h]
    BY <1>3, <2>1
  <2> QED  BY <2>2, <2>3
<1>10. k + l <= Len(x)
  <2>1. CASE l = 0
    BY <1>1, <1>7, <1>8, <2>1
  <2>2. CASE l # 0
    <3>1. l \in 1 .. l
      BY <1>6, <2>2
    <3> QED  BY <1>9, <3>1
  <2> QED  BY <2>1, <2>2
<1>11. Alike(x, k, d, y, l)
  <2>1. k + l + 1 <= Len(x) => x[k + l + 1] \notin ToSet(Digits)
    <3>1. k + l + 1 <= Len(x) => e \in 1 .. Len(x)
      BY <1>1, <1>6, <1>8
    <3> QED  BY <1>4, <1>8, <3>1
  <2>2. y + l + 1 <= Len(d) => d[y + l + 1] \notin ToSet(Digits)
    BY <1>5, <1>6
  <2> QED  BY <1>6, <1>9, <1>10, <2>1, <2>2 DEF Alike
<1>12. /\ AfterDigits(x, k) \in Nat /\ AfterDigits(d, y) \in Nat
       /\ AfterDigits(x, k) - k = AfterDigits(d, y) - y
       /\ Written(x, k) = Written(d, y)
  BY <1>1, <1>6, <1>8, <1>11, SameNumber
<1> QED  BY <1>12 DEF k

(* The decoder takes a prefix for one of ours, of a number that no block has:
   then the document has the prefix, and a number that is no int. *)
LEMMA PanicIs ==
    ASSUME NEW d, NEW f, NEW t, NEW off, NEW x, NEW B, Processed(d, f, t, off, x, B),
           Len(d) < IntHalf, NEW k \in 1 .. Len(x), x[k] = Prefix,
           AfterDigits(x, k) > k + 1, Wrap(Written(x, k)) < Len(f),
           Wrap(Written(x, k)) + 1 \notin DOMAIN f
    PROVE  \E y \in 1 .. Len(d) : /\ \A b \in DOMAIN f : y \notin f[b][1] .. f[b][2]
                                  /\ d[y] = Prefix /\ AfterDigits(d, y) > y + 1
                                  /\ Written(d, y) >= IntHalf
<1>1. /\ Len(d) \in Nat /\ BlocksOf(d, f) /\ Len(f) \in Nat /\ Len(x) \in Nat
      /\ DOMAIN f = 1 .. Len(f) /\ Len(f) <= Len(d) /\ IntHalf \in Nat
  <2>1. Len(d) \in Nat /\ BlocksOf(d, f) /\ Len(x) \in Nat
    BY CopyIs DEF Processed
  <2> QED  BY <2>1, BlocksFit, DocumentsAssumption
<1>2. PICK b \in B, m \in 0 .. Len(f) :
         \/ \E y \in Past(f, m) .. Till(d, f, m) - 1 : k = PlainAt(f, off, b, m, y) /\ d[y] = Prefix
         \/ m < Len(f) /\ k = CodeAt(d, f, off, b, m)
  BY PrefixIs
<1>3. Written(x, k) \in Nat
  BY <1>1, WrittenNat
<1>4. CASE m < Len(f) /\ k = CodeAt(d, f, off, b, m)
  <2>1. Written(x, k) = m
    BY <1>4, CodeReads
  <2>2. m \in Nat /\ m < IntHalf
    BY <1>1, <1>4
  <2>3. Wrap(m) = m
    BY <2>2, WrapIs
  <2>4. m + 1 \in DOMAIN f
    BY <1>1, <1>4
  <2> QED  BY <2>1, <2>3, <2>4
<1>5. CASE \E y \in Past(f, m) .. Till(d, f, m) - 1 : k = PlainAt(f, off, b, m, y) /\ d[y] = Prefix
  <2>1. PICK y \in Past(f, m) .. Till(d, f, m) - 1 : k = PlainAt(f, off, b, m, y) /\ d[y] = Prefix
    BY <1>5
  <2>2. y \in 1 .. Len(d) /\ \A c \in DOMAIN f : y \notin f[c][1] .. f[c][2]
    BY <1>1, PartsAre
  <2>3. /\ AfterDigits(x, k) \in Nat /\ AfterDigits(d, y) \in Nat
        /\ AfterDigits(x, k) - k = AfterDigits(d, y) - y
        /\ Written(x, k) = Written(d, y)
    BY <2>1, PlainReads
  <2>4. AfterDigits(d, y) > y + 1
    <3> DEFINE g == AfterDigits(x, k)
               h == AfterDigits(d, y)
    <3>1. g \in Nat /\ h \in Nat /\ g - k = h - y /\ g > k + 1
      BY <2>3
    <3> HIDE DEF g, h
    <3>2. h > y + 1
      BY <2>2, <3>1
    <3> QED  BY <3>2 DEF h
  <2>5. Written(x, k) >= IntHalf
    <3> DEFINE w == Written(x, k)
    <3>0. w \in Nat /\ Wrap(w) < Len(f) /\ Wrap(w) + 1 \notin 1 .. Len(f)
      BY <1>1, <1>3
    <3> HIDE DEF w
    <3> SUFFICES ASSUME w < IntHalf PROVE FALSE
      BY <1>1, <3>0 DEF w
    <3>1. Wrap(w) = w
      BY <3>0, WrapIs
    <3> QED  BY <1>1, <3>0, <3>1
  <2> QED  BY <2>1, <2>2, <2>3, <2>4, <2>5
<1> QED  BY <1>2, <1>4, <1>5

-----------------------------------------------------------------------------
(* CodeBlocks: what the parser sees *)

(* Nothing opens before a block of f but behind the one before it. *)
Clean(d, f) == \A m \in 0 .. Len(f) - 1 : \A y \in Past(f, m) .. f[m + 1][1] - 1 : ~Opening(d[y])

(* No atom of a placeholder opens a block. *)
LEMMA PlaceholderOpensNone ==
    ASSUME NEW m \in Nat, NEW j \in 1 .. Len(placeholder(m))
    PROVE  ~Opening(placeholder(m)[j])
<1>1. placeholder(m) \in Seq(ToSet(Digits) \union {Prefix, Underscore})
  BY PlaceholderIs
<1>2. placeholder(m)[j] \in ToSet(Digits) \union {Prefix, Underscore}
  BY <1>1
<1> QED  BY <1>2, AtomsAssumption DEF Opening

(* If no block comes behind those of f, the encoded document has a closed one
   only behind an opening delimiter that nothing closes. *)
LEMMA NoBlockSeen ==
    ASSUME NEW S, NEW d \in Seq(S), NEW f, BlocksOf(d, f), Clean(d, f),
           NextBlock(d, Past(f, Len(f))) = <<>>,
           NEW t, Len(t) \in Nat, NEW off, Whole(d, f, t, off),
           NEW p \in 1 .. Len(t), Closings(t, p) # {}
    PROVE  \E u \in Openings(t, 1) : u < p /\ Closings(t, u) = {}
<1> DEFINE n == Len(f)
           P == Past(f, n)
           T == Till(d, f, n)
           SP(y) == Spot(f, off, n, y)
<1>1. Len(d) \in Nat /\ n \in Nat /\ n \in 0 .. n
  <2>1. Len(d) \in Nat
    OBVIOUS
  <2> QED  BY <2>1, BlocksFit
<1>2. Opening(t[p])
  <2>1. PICK q \in p .. Len(t) : <<t[p], t[q]>> \in Delimiters
    BY DEF Closings
  <2>2. t[p] = <<t[p], t[q]>>[1]
    OBVIOUS
  <2> QED  BY <2>1, <2>2 DEF Opening
<1>3. PICK m \in 0 .. n : \/ \E y \in Past(f, m) .. Till(d, f, m) - 1 : p = Spot(f, off, m, y)
                          \/ /\ m < n
                             /\ \E j \in 1 .. Len(placeholder(m)) :
                                   p = Spot(f, off, m, Till(d, f, m)) + (j - 1)
  BY DEF Whole
<1>4. m \in Nat /\ m \in 0 .. Len(f)
  OBVIOUS
<1>5. ~(m < n /\ \E j \in 1 .. Len(placeholder(m)) : p = Spot(f, off, m, Till(d, f, m)) + (j - 1))
  <2> SUFFICES ASSUME m < n, NEW j \in 1 .. Len(placeholder(m)),
                      p = Spot(f, off, m, Till(d, f, m)) + (j - 1)
               PROVE  FALSE
    OBVIOUS
  <2>1. t[p] = placeholder(m)[j]
    BY <1>1, <1>4, SpotsAre
  <2> QED  BY <1>2, <1>4, <2>1, PlaceholderOpensNone
<1>6. PICK y \in Past(f, m) .. Till(d, f, m) - 1 : p = Spot(f, off, m, y)
  BY <1>3, <1>5
<1>7. t[p] = d[y]
  BY <1>1, <1>4, <1>6, SpotsAre
<1>8. m = n
  <2> SUFFICES ASSUME m # n PROVE FALSE
    OBVIOUS
  <2>1. m \in 0 .. Len(f) - 1 /\ m < Len(f)
    BY <1>1
  <2>2. y \in Past(f, m) .. f[m + 1][1] - 1
    BY <2>1 DEF Till
  <2> QED  BY <1>2, <1>7, <2>1, <2>2 DEF Clean
<1>9. /\ P \in Nat /\ T \in Nat /\ 1 <= P /\ P <= T /\ T = Len(d) + 1
  <2>1. ~(n < Len(f))
    BY <1>1
  <2> QED  BY <1>1, <2>1, PartsAre DEF Till
<1>10. /\ \A z \in P .. T : SP(z) \in 1 .. Len(t) + 1 /\ SP(z) = SP(T) - (T - z)
       /\ \A z \in P .. T - 1 : SP(z) \in 1 .. Len(t) /\ t[SP(z)] = d[z]
       /\ SP(T) = Len(t) + 1
  BY <1>1, SpotsAre
<1>11. y \in P .. Len(d) /\ p = SP(y) /\ NextBlock(d, P) = <<>> /\ Opening(d[y])
  BY <1>2, <1>6, <1>7, <1>8, <1>9
<1>12. PICK r \in P .. Len(d) : /\ Opening(d[r]) /\ Closings(d, r) = {}
                                /\ \A z \in P .. r - 1 : ~Opening(d[z])
  <2>1. d \in Seq(S) /\ P >= 1
    BY <1>9
  <2> HIDE DEF P
  <2>2. \/ \A z \in P .. Len(d) : ~Opening(d[z])
        \/ \E r \in P .. Len(d) : /\ Opening(d[r]) /\ Closings(d, r) = {}
                                  /\ \A z \in P .. r - 1 : ~Opening(d[z])
    BY <1>9, <1>11, <2>1, NextBlockIs
  <2> QED  BY <1>11, <2>2
<1> HIDE DEF n, P, T, SP
<1> DEFINE L == Len(t)
<1>13. L \in Nat /\ Len(d) \in Nat /\ y \in P .. Len(d) /\ r \in P .. Len(d) /\ r <= y
  <2>1. ~(y < r)
    BY <1>9, <1>11, <1>12
  <2> QED  BY <1>1, <1>9, <1>11, <1>12, <2>1
<1> HIDE DEF L
(* Whatever follows r in the text follows it in the document. *)
<1>14. ASSUME NEW z \in P .. Len(d)
       PROVE  SP(z) = L + 1 - (T - z) /\ SP(z) \in 1 .. L /\ t[SP(z)] = d[z]
  <2>1. z \in P .. T /\ z \in P .. T - 1
    BY <1>9, <1>13
  <2>2. SP(z) = (L + 1) - (T - z) /\ SP(z) \in 1 .. L /\ t[SP(z)] = d[z]
    BY <1>10, <2>1 DEF L
  <2>3. (L + 1) - (T - z) = L + 1 - (T - z)
    BY <1>9, <1>13
  <2> QED  BY <2>2, <2>3
<1>15. Closings(t, SP(r)) = {}
  <2> SUFFICES ASSUME NEW q \in SP(r) .. L, <<t[SP(r)], t[q]>> \in Delimiters PROVE FALSE
    BY DEF Closings, L
  <2> DEFINE z == q - (L + 1) + T
  <2>1. z \in r .. Len(d) /\ z \in P .. Len(d) /\ q = L + 1 - (T - z)
    <3> DEFINE c == SP(r)
    <3>1. c = L + 1 - (T - r) /\ c \in 1 .. L /\ q \in c .. L
      BY <1>13, <1>14
    <3> HIDE DEF c
    <3> QED  BY <1>9, <1>13, <3>1, SMTT(30)
  <2> HIDE DEF z
  <2>2. t[q] = d[z] /\ t[SP(r)] = d[r]
    BY <1>13, <1>14, <2>1
  <2>3. z \in Closings(d, r)
    BY <2>1, <2>2 DEF Closings
  <2> QED  BY <1>12, <2>3
<1>16. r # y
  BY <1>11, <1>15
<1>17. SP(r) < p /\ SP(r) \in 1 .. Len(t)
  <2>1. SP(r) = L + 1 - (T - r) /\ SP(y) = L + 1 - (T - y) /\ SP(r) \in 1 .. L
    BY <1>13, <1>14
  <2> QED  BY <1>9, <1>11, <1>13, <1>16, <2>1 DEF L
<1>18. SP(r) \in Openings(t, 1)
  <2>1. t[SP(r)] = d[r]
    BY <1>13, <1>14
  <2> QED  BY <1>12, <1>17, <2>1 DEF Openings, Opening
<1> QED  BY <1>15, <1>17, <1>18

-----------------------------------------------------------------------------
(* CodeBlocks: what the decoder writes *)

(* Three sequences, one behind the other. *)
Chain(u, v, w) == (u \o v) \o w = u \o (v \o w)

(* Concatenation associates, and what is empty adds nothing. *)
LEMMA Concats ==
    ASSUME NEW S, NEW u, NEW v, NEW w, Text(S, u), Text(S, v), Text(S, w)
    PROVE  Chain(u, v, w) /\ u \o <<>> = u /\ <<>> \o u = u
<1>1. u \in Seq(S) /\ v \in Seq(S) /\ w \in Seq(S)
  BY DEF Text
<1>2. Chain(u, v, w)
  BY <1>1, ConcatAssociative DEF Chain
<1>3. u \o <<>> = u /\ <<>> \o u = u
  BY <1>1, ConcatEmptySeq
<1> QED  BY <1>2, <1>3

(* A slice that goes on by one atom. *)
LEMMA SliceGrows ==
    ASSUME NEW S, NEW s, Text(S, s), NEW a \in Nat, NEW c \in Nat, 1 <= a, a <= c, c <= Len(s)
    PROVE  /\ Text(S, SubSeq(s, a, c - 1)) /\ Text(S, <<s[c]>>)
           /\ SubSeq(s, a, c) = SubSeq(s, a, c - 1) \o <<s[c]>>
<1> DEFINE u == SubSeq(s, a, c - 1)
           w == SubSeq(s, a, c)
           g == <<s[c]>>
<1>0. s \in Seq(S) /\ Len(s) \in Nat
  BY DEF Text
<1>1. g \in Seq(S) /\ Len(g) = 1 /\ g[1] = s[c]
  <2>1. c \in 1 .. Len(s)
    BY <1>0
  <2>2. s[c] \in S
    BY <1>0, <2>1
  <2> QED  BY <2>2
<1>2. u \in Seq(S) /\ Len(u) = c - a /\ \A y \in a .. c - 1 : u[y - a + 1] = s[y]
  <2>1. c <= Len(s) + 1
    BY <1>0
  <2> QED  BY <1>0, <2>1, Piece, SMTT(30)
<1>3. w \in Seq(S) /\ Len(w) = c + 1 - a /\ \A y \in a .. c : w[y - a + 1] = s[y]
  <2> DEFINE e == c + 1
  <2>1. e \in Nat /\ 1 <= a /\ a <= e /\ e <= Len(s) + 1 /\ e - 1 = c
    BY <1>0
  <2> HIDE DEF e
  <2>2. /\ SubSeq(s, a, e - 1) \in Seq(S) /\ Len(SubSeq(s, a, e - 1)) = e - a
        /\ \A y \in a .. e - 1 : SubSeq(s, a, e - 1)[y - a + 1] = s[y]
    BY <1>0, <2>1, Piece
  <2>3. e - a = c + 1 - a
    BY DEF e
  <2> QED  BY <2>1, <2>2, <2>3
<1> HIDE DEF u, w, g
<1>4. Text(S, u) /\ Text(S, g)
  BY <1>1, <1>2 DEF Text
<1> DEFINE v == u \o g
<1>5. /\ Text(S, v) /\ Len(v) = Len(u) + Len(g)
      /\ \A k \in 1 .. Len(u) : v[k] = u[k]
      /\ \A k \in 1 .. Len(g) : v[Len(u) + k] = g[k]
  BY <1>4, ConcatIs
<1> HIDE DEF v
<1>6. Len(v) = (c - a) + 1 /\ Len(w) = (c - a) + 1 /\ v[(c - a) + 1] = s[c]
  <2>1. c + 1 - a = (c - a) + 1 /\ 1 \in 1 .. Len(g)
    BY <1>1
  <2> QED  BY <1>1, <1>2, <1>3, <1>5, <2>1
<1>7. ASSUME NEW k \in 1 .. Len(w)
      PROVE  w[k] = v[k]
  <2> DEFINE y == k + a - 1
  <2>1. y \in a .. c /\ y - a + 1 = k /\ (y = c => k = (c - a) + 1) /\ (y # c => y \in a .. c - 1 /\ k \in 1 .. c - a)
    BY <1>6
  <2> HIDE DEF y
  <2>2. w[k] = s[y]
    BY <1>3, <2>1
  <2>3. CASE y = c
    BY <1>6, <2>1, <2>2, <2>3
  <2>4. CASE y # c
    <3>1. u[k] = s[y] /\ v[k] = u[k]
      BY <1>2, <1>5, <2>1, <2>4
    <3> QED  BY <2>2, <3>1
  <2> QED  BY <2>3, <2>4
<1>8. w = v
  <2>1. v \in Seq(S)
    BY <1>5 DEF Text
  <2> QED  BY <1>3, <1>6, <1>7, <2>1, SeqEqual
<1> QED  BY <1>4, <1>8 DEF u, w, v, g

(* What is left of an atom of the document, and of its first k. *)
Single(d, f, y) == IF Dropped(d, f, y) THEN <<>> ELSE <<d[y]>>
Once(d, f, k) == FlattenSeq([y \in 1 .. k |-> Single(d, f, y)])

(* The document goes on by one atom. *)
LEMMA OnceGrows ==
    ASSUME NEW S, NEW d, Text(S, d), NEW f
    PROVE  /\ Once(d, f, 0) = <<>>
           /\ \A k \in 0 .. Len(d) : Text(S, Once(d, f, k))
           /\ \A k \in 1 .. Len(d) : /\ Text(S, Single(d, f, k))
                                     /\ Once(d, f, k) = Once(d, f, k - 1) \o Single(d, f, k)
<1> DEFINE L == Len(d)
           Upto(k) == [y \in 1 .. k |-> Single(d, f, y)]
<1>1. d \in Seq(S) /\ L \in Nat
  BY DEF Text
<1>2. \A k \in 1 .. L : Single(d, f, k) \in Seq(S)
  <2> SUFFICES ASSUME NEW k \in 1 .. L PROVE Single(d, f, k) \in Seq(S)
    OBVIOUS
  <2>1. d[k] \in S
    BY <1>1
  <2>2. <<>> \in Seq(S) /\ <<d[k]>> \in Seq(S)
    BY <2>1
  <2> QED  BY <2>2 DEF Single
<1> HIDE DEF L
<1>3. ASSUME NEW k \in 0 .. L
      PROVE  Upto(k) \in Seq(Seq(S)) /\ Len(Upto(k)) = k /\ DOMAIN Upto(k) = 1 .. k
  <2>1. k \in Nat /\ \A y \in 1 .. k : Single(d, f, y) \in Seq(S)
    BY <1>1, <1>2
  <2>2. Upto(k) \in [1 .. k -> Seq(S)]
    BY <2>1
  <2>3. Upto(k) \in Seq(Seq(S))
    BY <2>1, <2>2, SeqDef
  <2> QED  BY <2>1, <2>2, <2>3
<1>4. Once(d, f, 0) = <<>>
  <2>1. Upto(0) = <<>>
    BY SeqDef
  <2>2. Once(d, f, 0) = FlattenSeq(<<>>)
    BY <2>1 DEF Once
  <2>3. FlattenSeq(<<>>) = <<>>
    BY DEF FlattenSeq
  <2> QED  BY <2>2, <2>3
<1>5. ASSUME NEW k \in 0 .. L
      PROVE  Text(S, Once(d, f, k))
  <2>1. Upto(k) \in Seq(Seq(S))
    BY <1>3
  <2> HIDE DEF Upto
  <2>2. FlattenSeq(Upto(k)) \in Seq(S)
    BY <2>1, FlattenOrigins
  <2> QED  BY <2>2 DEF Upto, Once, Text
<1>6. ASSUME NEW k \in 1 .. L
      PROVE  Once(d, f, k) = Once(d, f, k - 1) \o Single(d, f, k)
  <2> DEFINE u == Upto(k - 1)
             v == Upto(k)
  <2>1. k - 1 \in 0 .. L /\ k \in 0 .. L
    BY <1>1
  <2>2. u \in Seq(Seq(S)) /\ Len(u) = k - 1 /\ DOMAIN u = 1 .. k - 1
    BY <1>3, <2>1
  <2>3. v \in Seq(Seq(S)) /\ Len(v) = k
    BY <1>3, <2>1
  <2>4. v[k] = Single(d, f, k) /\ \A y \in 1 .. k - 1 : v[y] = u[y]
    BY <1>1
  <2>5. Once(d, f, k) = FlattenSeq(v) /\ Once(d, f, k - 1) = FlattenSeq(u)
    BY DEF Once
  <2> HIDE DEF u, v
  <2>6. Len(v) = Len(u) + 1
    BY <1>1, <2>2, <2>3
  <2>7. FlattenSeq(v) = FlattenSeq(u) \o v[Len(v)]
    BY <2>2, <2>3, <2>4, <2>6, FlattenAppend
  <2> QED  BY <2>3, <2>4, <2>5, <2>7
<1>7. \A k \in 1 .. L : Text(S, Single(d, f, k))
  BY <1>2 DEF Text
<1> QED  BY <1>4, <1>5, <1>6, <1>7 DEF L

(* Where nothing is dropped, the document goes on as it is. *)
LEMMA OnceKeeps ==
    ASSUME NEW S, NEW d, Text(S, d), NEW f, NEW a \in Nat, 1 <= a,
           NEW e \in Nat, a <= e, e <= Len(d), \A y \in a .. e : ~Dropped(d, f, y)
    PROVE  Once(d, f, e) = Once(d, f, a - 1) \o SubSeq(d, a, e)
<1> DEFINE L == Len(d)
           K(c) == Once(d, f, c) = Once(d, f, a - 1) \o SubSeq(d, a, c)
           G == {k \in Nat : a + k <= e => K(a + k)}
<1>0. L \in Nat
  BY DEF Text
<1>1. /\ \A k \in 0 .. L : Text(S, Once(d, f, k))
      /\ \A k \in 1 .. L : Text(S, Single(d, f, k)) /\ Once(d, f, k) = Once(d, f, k - 1) \o Single(d, f, k)
  BY OnceGrows
<1> HIDE DEF L
<1>2. \A c \in a .. e : /\ Text(S, SubSeq(d, a, c - 1)) /\ Text(S, <<d[c]>>)
                        /\ SubSeq(d, a, c) = SubSeq(d, a, c - 1) \o <<d[c]>>
                        /\ Single(d, f, c) = <<d[c]>>
  <2> SUFFICES ASSUME NEW c \in a .. e
               PROVE  /\ Text(S, SubSeq(d, a, c - 1)) /\ Text(S, <<d[c]>>)
                      /\ SubSeq(d, a, c) = SubSeq(d, a, c - 1) \o <<d[c]>>
                      /\ Single(d, f, c) = <<d[c]>>
    OBVIOUS
  <2>1. c \in Nat /\ a <= c /\ c <= Len(d)
    BY <1>0 DEF L
  <2>2. Single(d, f, c) = <<d[c]>>
    BY DEF Single
  <2> QED  BY <2>1, <2>2, SliceGrows
<1>3. 0 \in G
  <2>1. a \in a .. e /\ a \in 1 .. L /\ a + 0 = a /\ a - 1 \in 0 .. L
    BY <1>0 DEF L
  <2>2. SubSeq(d, a, a - 1) = <<>>
    <3>1. a - 1 < a /\ a - 1 \in Int /\ a \in Int
      OBVIOUS
    <3> QED  BY <3>1, SubSeqEmpty
  <2>3. Text(S, <<d[a]>>) /\ SubSeq(d, a, a) = <<>> \o <<d[a]>>
    BY <1>2, <2>1, <2>2
  <2>4. SubSeq(d, a, a) = <<d[a]>>
    BY <2>3, Concats
  <2>5. K(a)
    BY <1>1, <1>2, <2>1, <2>4
  <2> HIDE DEF K
  <2> QED  BY <2>1, <2>5
<1>4. ASSUME NEW k \in Nat, k \in G
      PROVE  k + 1 \in G
  <2> HIDE DEF K
  <2> SUFFICES ASSUME a + (k + 1) <= e PROVE K(a + (k + 1))
    OBVIOUS
  <2> DEFINE c == a + (k + 1)
             u == Once(d, f, a - 1)
             v == SubSeq(d, a, c - 1)
             w == <<d[c]>>
  <2>1. c \in a .. e /\ c \in 1 .. L /\ c - 1 = a + k /\ a + k <= e /\ a - 1 \in 0 .. L
    BY <1>0 DEF L
  <2>2. K(c - 1)
    BY <1>4, <2>1
  <2> HIDE DEF c, G
  <2>3. Text(S, u) /\ Text(S, v) /\ Text(S, w)
    BY <1>1, <1>2, <2>1
  <2>4. Once(d, f, c) = Once(d, f, c - 1) \o w /\ SubSeq(d, a, c) = v \o w
    BY <1>1, <1>2, <2>1
  <2>5. Once(d, f, c - 1) = u \o v
    BY <2>2 DEF K
  <2> HIDE DEF u, v, w
  <2>6. Chain(u, v, w)
    BY <2>3, Concats
  <2>7. Once(d, f, c) = u \o SubSeq(d, a, c)
    BY <2>4, <2>5, <2>6 DEF Chain
  <2> QED  BY <2>7 DEF c, u, K
<1> HIDE DEF G, K
<1>5. e - a \in G
  <2>1. e - a \in Nat
    OBVIOUS
  <2> QED  BY <1>3, <1>4, <2>1, SetInduction
<1>6. a + (e - a) = e /\ a + (e - a) <= e
  OBVIOUS
<1>7. K(e)
  BY <1>5, <1>6 DEF G
<1> QED  BY <1>7 DEF K

(* Where part m goes on, past the ="" of the block before it. *)
Start(d, f, m) ==
    IF m > 0 /\ Past(f, m) < Till(d, f, m) /\ d[Past(f, m)] = Empty THEN Past(f, m) + 1
    ELSE Past(f, m)

(* What is to be written before the copy at b comes to atom y. *)
Restored(d, f, b, y) ==
    IF b = 0 THEN Once(d, f, y - 1) ELSE (Once(d, f, Len(d)) \o <<"x">>) \o Once(d, f, y - 1)

(* The decoder, at k, has written o, and this is right. *)
Walks(d, f, off, B, k, o) ==
    \E b \in B : \E m \in 0 .. Len(f) : \E y \in Start(d, f, m) .. Till(d, f, m) :
        k = PlainAt(f, off, b, m, y) /\ o = Restored(d, f, b, y)

(* A part goes on inside itself, and from there no atom of it is dropped. *)
LEMMA StartIs ==
    ASSUME NEW d, Len(d) \in Nat, NEW f, BlocksOf(d, f), NEW m \in 0 .. Len(f)
    PROVE  /\ Past(f, m) \in Nat /\ Till(d, f, m) \in Nat /\ 1 <= Past(f, m)
           /\ Till(d, f, m) <= Len(d) + 1
           /\ Start(d, f, m) \in Past(f, m) .. Till(d, f, m)
           /\ \A y \in Start(d, f, m) .. Till(d, f, m) - 1 : ~Dropped(d, f, y)
           /\ Start(d, f, m) # Past(f, m) =>
                 Start(d, f, m) = Past(f, m) + 1 /\ Dropped(d, f, Past(f, m))
<1> DEFINE P == Past(f, m)
           T == Till(d, f, m)
           St == Start(d, f, m)
<1>1. /\ P \in Nat /\ T \in Nat /\ 1 <= P /\ P <= T /\ T <= Len(d) + 1
      /\ \A y \in P .. T - 1 : Dropped(d, f, y) <=> y = P /\ m > 0 /\ d[y] = Empty
  BY PartsAre
<1>2. St = IF m > 0 /\ P < T /\ d[P] = Empty THEN P + 1 ELSE P
  BY DEF Start
<1> HIDE DEF P, T, St
<1>3. St \in P .. T
  BY <1>1, <1>2
<1>4. ASSUME NEW y \in St .. T - 1
      PROVE  ~Dropped(d, f, y)
  <2>1. y \in P .. T - 1
    BY <1>1, <1>3
  <2>2. y = P => ~(m > 0 /\ d[P] = Empty)
    BY <1>1, <1>2, <2>1
  <2> QED  BY <1>1, <2>1, <2>2
<1>5. ASSUME St # P
      PROVE  St = P + 1 /\ Dropped(d, f, P)
  <2>1. m > 0 /\ P < T /\ d[P] = Empty /\ St = P + 1
    BY <1>2, <1>5
  <2>2. P \in P .. T - 1
    BY <1>1, <2>1
  <2> QED  BY <1>1, <2>1, <2>2
<1> QED  BY <1>1, <1>3, <1>4, <1>5 DEF P, T, St

(* From y to z the document, and what is restored of it, goes on by u. *)
OnceBy(d, f, y, z, u) == Once(d, f, z - 1) = Once(d, f, y - 1) \o u
RestoredBy(d, f, b, y, z, u) == Restored(d, f, b, z) = Restored(d, f, b, y) \o u

(* What is restored goes on as the document does. *)
LEMMA RestoredGrows ==
    ASSUME NEW S, "x" \in S, NEW d, Text(S, d), NEW f, NEW b,
           NEW y \in Nat, 1 <= y, NEW z \in Nat, y <= z, z <= Len(d) + 1,
           NEW u, Text(S, u), OnceBy(d, f, y, z, u)
    PROVE  RestoredBy(d, f, b, y, z, u)
<1> DEFINE L == Len(d)
           D == Once(d, f, L)
           X == <<"x">>
           v == Once(d, f, y - 1)
<1>1. L \in Nat
  BY DEF Text
<1>2. L \in 0 .. L /\ y - 1 \in 0 .. L
  BY <1>1
<1>3. Text(S, D) /\ Text(S, v)
  BY <1>2, OnceGrows
<1>4. Text(S, X)
  BY DEF Text
<1> HIDE DEF D, X
<1> DEFINE w == D \o X
<1>5. Text(S, w)
  BY <1>3, <1>4, ConcatIs
<1> HIDE DEF v, w
<1>6. Chain(w, v, u)
  BY <1>3, <1>5, Concats
<1>7. Restored(d, f, b, y) = IF b = 0 THEN v ELSE w \o v
  BY DEF Restored, v, w, D, X
<1>8. Restored(d, f, b, z) = IF b = 0 THEN v \o u ELSE w \o (v \o u)
  BY DEF Restored, OnceBy, v, w, D, X
<1> QED  BY <1>6, <1>7, <1>8 DEF Chain, RestoredBy

(* At the beginning nothing is written. *)
LEMMA WalkBegins ==
    ASSUME NEW S, NEW d, Text(S, d), NEW f, NEW t, NEW off, NEW x, NEW B,
           Processed(d, f, t, off, x, B)
    PROVE  Walks(d, f, off, B, 1, <<>>)
<1>1. /\ Len(d) \in Nat /\ BlocksOf(d, f) /\ Len(f) \in Nat /\ 0 \in 0 .. Len(f) /\ 0 \in B
      /\ off[0] = 1
  <2>1. Len(d) \in Nat /\ BlocksOf(d, f) /\ 0 \in B /\ off[0] = 1
    BY CopyIs DEF Processed, Whole
  <2> QED  BY <2>1, BlocksFit
<1>2. Past(f, 0) = 1 /\ Start(d, f, 0) = 1
  BY DEF Past, Start
<1>3. 1 \in Start(d, f, 0) .. Till(d, f, 0)
  BY <1>1, <1>2, StartIs
<1>4. PlainAt(f, off, 0, 0, 1) = 1
  BY <1>1, <1>2 DEF PlainAt, Spot
<1>5. Restored(d, f, 0, 1) = <<>>
  <2>1. Once(d, f, 0) = <<>> /\ 1 - 1 = 0
    BY OnceGrows
  <2> QED  BY <2>1 DEF Restored
<1> QED  BY <1>1, <1>3, <1>4, <1>5 DEF Walks

(* An atom that begins no placeholder is copied, from one copy into the next
   too. *)
LEMMA WalkStep ==
    ASSUME NEW S, "x" \in S, NEW d, Text(S, d), NEW f, NEW t, NEW off, NEW x, NEW B,
           Processed(d, f, t, off, x, B), NEW k \in 1 .. Len(x), x[k] # Prefix,
           NEW o, Walks(d, f, off, B, k, o)
    PROVE  Walks(d, f, off, B, k + 1, o \o <<x[k]>>)
<1>1. /\ Len(d) \in Nat /\ BlocksOf(d, f) /\ Len(f) \in Nat /\ Len(x) \in Nat /\ off[0] = 1
  <2>1. Len(d) \in Nat /\ BlocksOf(d, f) /\ off[0] = 1 /\ Len(x) \in Nat
    BY CopyIs DEF Processed, Whole
  <2> QED  BY <2>1, BlocksFit
<1>2. PICK b \in B : \E m \in 0 .. Len(f) : \E y \in Start(d, f, m) .. Till(d, f, m) :
                        k = PlainAt(f, off, b, m, y) /\ o = Restored(d, f, b, y)
  BY DEF Walks
<1>3. PICK m \in 0 .. Len(f) : \E y \in Start(d, f, m) .. Till(d, f, m) :
                        k = PlainAt(f, off, b, m, y) /\ o = Restored(d, f, b, y)
  BY <1>2
<1>4. PICK y \in Start(d, f, m) .. Till(d, f, m) :
                        k = PlainAt(f, off, b, m, y) /\ o = Restored(d, f, b, y)
  BY <1>3
<1> DEFINE P == Past(f, m)
           T == Till(d, f, m)
           St == Start(d, f, m)
<1>5. /\ P \in Nat /\ T \in Nat /\ 1 <= P /\ T <= Len(d) + 1 /\ St \in P .. T
      /\ \A z \in St .. T - 1 : ~Dropped(d, f, z)
  BY <1>1, StartIs
<1>6. y \in P .. T /\ y \in Nat /\ 1 <= y
  BY <1>5
<1>7. CASE y < T
  <2>1. y \in P .. T - 1 /\ y \in St .. T - 1 /\ y + 1 \in St .. T /\ y \in 1 .. Len(d)
    BY <1>1, <1>5, <1>6, <1>7
  <2>2. x[k] = d[y] /\ k + 1 = PlainAt(f, off, b, m, y + 1)
    BY <1>4, <1>6, <2>1, PlacesAre
  <2>3. Once(d, f, y) = Once(d, f, y - 1) \o <<d[y]>> /\ Text(S, <<d[y]>>)
    <3>1. Single(d, f, y) = <<d[y]>>
      BY <1>5, <2>1 DEF Single
    <3> QED  BY <2>1, <3>1, OnceGrows
  <2>4. Restored(d, f, b, y + 1) = Restored(d, f, b, y) \o <<d[y]>>
    <3> DEFINE z == y + 1
               u == <<d[y]>>
    <3>1. z \in Nat /\ y <= z /\ z <= Len(d) + 1 /\ z - 1 = y
      BY <1>1, <2>1
    <3> HIDE DEF z
    <3>2. OnceBy(d, f, y, z, u) /\ Text(S, u)
      BY <2>3, <3>1 DEF OnceBy
    <3> HIDE DEF u
    <3>3. RestoredBy(d, f, b, y, z, u)
      BY <1>6, <3>1, <3>2, RestoredGrows
    <3> QED  BY <3>3 DEF RestoredBy, z, u
  <2> HIDE DEF T, St
  <2>5. \E z \in St .. T : k + 1 = PlainAt(f, off, b, m, z) /\ o \o <<x[k]>> = Restored(d, f, b, z)
    BY <1>4, <2>1, <2>2, <2>4
  <2> QED  BY <2>5 DEF Walks, T, St
<1>8. CASE y = T
  <2>1. k = CodeAt(d, f, off, b, m)
    BY <1>4, <1>8 DEF PlainAt, CodeAt
  <2>2. m = Len(f)
    <3>1. ~(m < Len(f))
      BY <2>1, CodeReads
    <3> QED  BY <1>1, <3>1
  <2>3. x[k] = "x" /\ b = 0 /\ k \in B /\ k # 0
    <3>1. k # Len(x) + 1
      BY <1>1
    <3> QED  BY <2>1, <2>2, <3>1, PlacesAre
  <2>4. y = Len(d) + 1
    BY <1>1, <1>8, <2>2 DEF Till
  <2>5. o = Once(d, f, Len(d))
    <3>1. (Len(d) + 1) - 1 = Len(d)
      BY <1>1
    <3>2. o = Once(d, f, y - 1)
      BY <1>4, <2>3 DEF Restored
    <3> QED  BY <2>4, <3>1, <3>2
  <2>6. Past(f, 0) = 1 /\ Start(d, f, 0) = 1
    BY DEF Past, Start
  <2>7. 0 \in 0 .. Len(f) /\ 1 \in Start(d, f, 0) .. Till(d, f, 0)
    <3>1. 0 \in 0 .. Len(f)
      BY <1>1
    <3> QED  BY <1>1, <2>6, <3>1, StartIs
  <2>8. PlainAt(f, off, k, 0, 1) = k + 1
    BY <1>1, <2>6 DEF PlainAt, Spot
  <2>9. Restored(d, f, k, 1) = o \o <<x[k]>>
    <3> DEFINE w == Once(d, f, Len(d)) \o <<"x">>
    <3>1. Text(S, Once(d, f, Len(d)))
      <4>1. Len(d) \in 0 .. Len(d)
        BY <1>1
      <4> QED  BY <4>1, OnceGrows
    <3>2. Text(S, <<"x">>)
      BY DEF Text
    <3>3. Text(S, w)
      BY <3>1, <3>2, ConcatIs
    <3>4. Once(d, f, 1 - 1) = <<>>
      BY OnceGrows
    <3>5. Restored(d, f, k, 1) = w \o <<>>
      BY <2>3, <3>4 DEF Restored
    <3> HIDE DEF w
    <3>6. w \o <<>> = w
      BY <3>3, Concats
    <3>7. o \o <<x[k]>> = w
      BY <2>3, <2>5 DEF w
    <3> QED  BY <3>5, <3>6, <3>7
  <2> QED  BY <2>3, <2>7, <2>8, <2>9 DEF Walks
<1> QED  BY <1>5, <1>6, <1>7, <1>8

(* Up to the next prefix the text is copied. *)
LEMMA WalkOn ==
    ASSUME NEW S, "x" \in S, NEW d, Text(S, d), NEW f, NEW t, NEW off, NEW x, Text(S, x), NEW B,
           Processed(d, f, t, off, x, B), NEW k \in Nat, 1 <= k, NEW c \in Nat, k <= c,
           c <= Len(x) + 1, \A j \in k .. c - 1 : x[j] # Prefix,
           NEW o, Text(S, o), Walks(d, f, off, B, k, o)
    PROVE  Walks(d, f, off, B, c, o \o SubSeq(x, k, c - 1))
<1> DEFINE W(e) == Walks(d, f, off, B, e, o \o SubSeq(x, k, e - 1))
           G == {h \in Nat : k + h <= c => W(k + h)}
<1>0. Len(x) \in Nat
  BY DEF Text
<1>1. 0 \in G
  <2>1. SubSeq(x, k, k - 1) = <<>>
    <3>1. k - 1 < k /\ k - 1 \in Int /\ k \in Int
      OBVIOUS
    <3> QED  BY <3>1, SubSeqEmpty
  <2>2. o \o <<>> = o /\ k + 0 = k
    BY Concats
  <2>3. W(k)
    BY <2>1, <2>2
  <2> HIDE DEF W
  <2> QED  BY <2>2, <2>3
<1>2. ASSUME NEW h \in Nat, h \in G
      PROVE  h + 1 \in G
  <2> HIDE DEF W
  <2> SUFFICES ASSUME k + (h + 1) <= c PROVE W(k + (h + 1))
    OBVIOUS
  <2> DEFINE e == k + h
             u == SubSeq(x, k, e - 1)
             g == <<x[e]>>
  <2>1. e \in k .. c - 1 /\ e \in 1 .. Len(x) /\ e <= c /\ k + (h + 1) = e + 1 /\ (e + 1) - 1 = e
        /\ e \in Nat /\ k <= e /\ e <= Len(x)
    BY <1>0
  <2>2. W(e)
    BY <1>2, <2>1
  <2> HIDE DEF e, G
  <2>3. Text(S, u) /\ Text(S, g) /\ SubSeq(x, k, e) = u \o g
    BY <2>1, SliceGrows
  <2>4. Walks(d, f, off, B, e + 1, (o \o u) \o g)
    <3>1. Walks(d, f, off, B, e, o \o u)
      BY <2>2 DEF W
    <3>2. x[e] # Prefix
      BY <2>1
    <3> HIDE DEF u
    <3> QED  BY <2>1, <3>1, <3>2, WalkStep
  <2> HIDE DEF u, g
  <2>5. (o \o u) \o g = o \o (u \o g)
    <3>1. Text(S, u) /\ Text(S, g)
      BY <2>3
    <3>2. Chain(o, u, g)
      BY <3>1, Concats
    <3> QED  BY <3>2 DEF Chain
  <2>6. Walks(d, f, off, B, e + 1, o \o SubSeq(x, k, (e + 1) - 1))
    BY <2>1, <2>3, <2>4, <2>5
  <2> QED  BY <2>1, <2>6 DEF W
<1> HIDE DEF G, W
<1>3. c - k \in G
  <2>1. c - k \in Nat
    OBVIOUS
  <2> QED  BY <1>1, <1>2, <2>1, SetInduction
<1>4. k + (c - k) = c /\ k + (c - k) <= c
  OBVIOUS
<1>5. W(c)
  BY <1>3, <1>4 DEF G
<1> QED  BY <1>5 DEF W

(* At the end, all of the document is written, as often as it was copied. *)
LEMMA WalkEnds ==
    ASSUME NEW d, NEW f, NEW t, NEW off, NEW x, NEW B, Processed(d, f, t, off, x, B),
           NEW o, Walks(d, f, off, B, Len(x) + 1, o)
    PROVE  o \in {Once(d, f, Len(d)), (Once(d, f, Len(d)) \o <<"x">>) \o Once(d, f, Len(d))}
<1>1. /\ Len(d) \in Nat /\ BlocksOf(d, f) /\ Len(f) \in Nat /\ Len(x) \in Nat
  <2>1. Len(d) \in Nat /\ BlocksOf(d, f) /\ Len(x) \in Nat
    BY CopyIs DEF Processed, Whole
  <2> QED  BY <2>1, BlocksFit
<1>2. PICK b \in B : \E m \in 0 .. Len(f) : \E y \in Start(d, f, m) .. Till(d, f, m) :
                        Len(x) + 1 = PlainAt(f, off, b, m, y) /\ o = Restored(d, f, b, y)
  BY DEF Walks
<1>3. PICK m \in 0 .. Len(f) : \E y \in Start(d, f, m) .. Till(d, f, m) :
                        Len(x) + 1 = PlainAt(f, off, b, m, y) /\ o = Restored(d, f, b, y)
  BY <1>2
<1>4. PICK y \in Start(d, f, m) .. Till(d, f, m) :
                        Len(x) + 1 = PlainAt(f, off, b, m, y) /\ o = Restored(d, f, b, y)
  BY <1>3
<1>5. /\ Past(f, m) \in Nat /\ Till(d, f, m) \in Nat /\ Start(d, f, m) \in Past(f, m) .. Till(d, f, m)
  BY <1>1, StartIs
<1>6. y = Till(d, f, m)
  <2> SUFFICES ASSUME y # Till(d, f, m) PROVE FALSE
    OBVIOUS
  <2>1. y \in Past(f, m) .. Till(d, f, m) - 1
    BY <1>5
  <2>2. PlainAt(f, off, b, m, y) \in 1 .. Len(x)
    BY <2>1, PlacesAre
  <2> QED  BY <1>1, <1>4, <2>2
<1>7. m = Len(f)
  <2> SUFFICES ASSUME m # Len(f) PROVE FALSE
    OBVIOUS
  <2>1. m < Len(f)
    BY <1>1
  <2>2. CodeAt(d, f, off, b, m) \in 1 .. Len(x)
    BY <2>1, PlacesAre
  <2>3. CodeAt(d, f, off, b, m) = Len(x) + 1
    BY <1>4, <1>6 DEF CodeAt, PlainAt
  <2> QED  BY <1>1, <2>2, <2>3
<1>8. y - 1 = Len(d)
  <2>1. y = Len(d) + 1
    BY <1>1, <1>6, <1>7 DEF Till
  <2> QED  BY <1>1, <2>1
<1> QED  BY <1>4, <1>8 DEF Restored

(* Nothing in the document but its placeholders has the prefix. *)
NoPrefix(d, f) ==
    \A y \in 1 .. Len(d) : (\A b \in DOMAIN f : y \notin f[b][1] .. f[b][2]) => d[y] # Prefix

(* Past a placeholder that ends at q, and past a ="" right after it. *)
ResumesAt(x, q) == IF q < Len(x) /\ x[q + 1] = Empty THEN q + 2 ELSE q + 1

(* Behind a placeholder, the text goes on where the next part does. *)
LEMMA ResumesRight ==
    ASSUME NEW d, NEW f, NEW t, NEW off, NEW x, NEW B, Processed(d, f, t, off, x, B),
           NEW b \in B, NEW m \in 0 .. Len(f),
           NEW q \in Nat, q <= Len(x), q + 1 = PlainAt(f, off, b, m, Past(f, m))
    PROVE  m > 0 => ResumesAt(x, q) = PlainAt(f, off, b, m, Start(d, f, m))
<1> SUFFICES ASSUME m > 0 PROVE ResumesAt(x, q) = PlainAt(f, off, b, m, Start(d, f, m))
  OBVIOUS
<1> DEFINE P == Past(f, m)
           T == Till(d, f, m)
           R(y) == PlainAt(f, off, b, m, y)
           e == CodeAt(d, f, off, b, m)
<1>1. /\ Len(d) \in Nat /\ BlocksOf(d, f) /\ Len(f) \in Nat /\ Len(x) \in Nat
  <2>1. Len(d) \in Nat /\ BlocksOf(d, f) /\ Len(x) \in Nat
    BY CopyIs DEF Processed, Whole
  <2> QED  BY <2>1, BlocksFit
<1>2. P \in Nat /\ T \in Nat /\ P <= T
  BY <1>1, PartsAre
<1>3. /\ \A y \in P .. T : R(y + 1) = R(y) + 1
      /\ \A y \in P .. T - 1 : R(y) \in 1 .. Len(x) /\ x[R(y)] = d[y]
      /\ R(T) = e /\ R(P) = q + 1
  BY PlacesAre DEF CodeAt, PlainAt
<1>4. e \in 1 .. Len(x) => x[e] # Empty
  <2>1. Prefix # Empty /\ "x" # Empty
    BY AtomsAssumption
  <2>2. CASE m < Len(f)
    BY <2>1, <2>2, CodeReads
  <2>3. CASE m = Len(f)
    <3>1. e = Len(x) + 1 \/ x[e] = "x"
      BY <2>3, PlacesAre
    <3> QED  BY <1>1, <2>1, <3>1
  <2> QED  BY <1>1, <2>2, <2>3
<1>5. Start(d, f, m) = IF P < T /\ d[P] = Empty THEN P + 1 ELSE P
  BY DEF Start
<1> HIDE DEF P, T, R, e
<1>6. CASE P < T
  <2>1. P \in P .. T - 1 /\ P \in P .. T
    BY <1>2, <1>6
  <2>2. x[q + 1] = d[P] /\ q + 1 <= Len(x) /\ R(P + 1) = q + 2
    <3>1. R(P) \in 1 .. Len(x) /\ x[R(P)] = d[P] /\ R(P + 1) = R(P) + 1
      BY <1>3, <2>1
    <3> QED  BY <1>1, <1>3, <3>1
  <2>3. q < Len(x)
    BY <1>1, <2>2
  <2>4. CASE d[P] = Empty
    <3>1. ResumesAt(x, q) = q + 2 /\ Start(d, f, m) = P + 1
      BY <1>5, <1>6, <2>2, <2>3, <2>4 DEF ResumesAt
    <3> QED  BY <2>2, <3>1 DEF R
  <2>5. CASE d[P] # Empty
    <3>1. ResumesAt(x, q) = q + 1 /\ Start(d, f, m) = P
      BY <1>5, <2>2, <2>5 DEF ResumesAt
    <3> QED  BY <1>3, <3>1 DEF R
  <2> QED  BY <2>4, <2>5
<1>7. CASE P = T
  <2>1. q + 1 = e /\ Start(d, f, m) = P
    BY <1>2, <1>3, <1>5, <1>7
  <2>2. ~(q < Len(x) /\ x[q + 1] = Empty)
    <3> SUFFICES ASSUME q < Len(x), x[q + 1] = Empty PROVE FALSE
      OBVIOUS
    <3>1. q + 1 \in 1 .. Len(x)
      BY <1>1
    <3> QED  BY <1>4, <2>1, <3>1
  <2>3. ResumesAt(x, q) = q + 1
    BY <2>2 DEF ResumesAt
  <2> QED  BY <1>3, <2>1, <2>3 DEF R
<1> QED  BY <1>2, <1>6, <1>7

(* Without its prefix in the document, the text has it only where a placeholder
   begins; the block comes in its place. *)
LEMMA WalkBlock ==
    ASSUME NEW S, "x" \in S, NEW d, Text(S, d), NEW f, NEW t, NEW off, NEW x, NEW B,
           Processed(d, f, t, off, x, B), NoPrefix(d, f),
           NEW k \in 1 .. Len(x), x[k] = Prefix, NEW o, Text(S, o), Walks(d, f, off, B, k, o)
    PROVE  \E m \in 0 .. Len(f) - 1 :
              /\ Written(x, k) = m
              /\ AfterDigits(x, k) > k + 1 /\ AfterDigits(x, k) <= Len(x)
              /\ x[AfterDigits(x, k)] = Underscore
              /\ Walks(d, f, off, B, ResumesAt(x, AfterDigits(x, k)),
                       o \o SubSeq(d, f[m + 1][1], f[m + 1][2]))
<1>1. /\ Len(d) \in Nat /\ BlocksOf(d, f) /\ Len(f) \in Nat /\ Len(x) \in Nat
  <2>1. Len(d) \in Nat /\ BlocksOf(d, f) /\ Len(x) \in Nat
    BY CopyIs DEF Processed, Whole
  <2> QED  BY <2>1, BlocksFit
<1>2. PICK b \in B : \E m \in 0 .. Len(f) : \E y \in Start(d, f, m) .. Till(d, f, m) :
                        k = PlainAt(f, off, b, m, y) /\ o = Restored(d, f, b, y)
  BY DEF Walks
<1>3. PICK m \in 0 .. Len(f) : \E y \in Start(d, f, m) .. Till(d, f, m) :
                        k = PlainAt(f, off, b, m, y) /\ o = Restored(d, f, b, y)
  BY <1>2
<1>4. PICK y \in Start(d, f, m) .. Till(d, f, m) :
                        k = PlainAt(f, off, b, m, y) /\ o = Restored(d, f, b, y)
  BY <1>3
<1>5. /\ Past(f, m) \in Nat /\ Till(d, f, m) \in Nat /\ Start(d, f, m) \in Past(f, m) .. Till(d, f, m)
      /\ 1 <= Past(f, m)
  BY <1>1, StartIs
<1>6. y = Till(d, f, m)
  <2> SUFFICES ASSUME y # Till(d, f, m) PROVE FALSE
    OBVIOUS
  <2>1. y \in Past(f, m) .. Till(d, f, m) - 1
    BY <1>5
  <2>2. x[k] = d[y]
    BY <1>4, <2>1, PlacesAre
  <2>3. y \in 1 .. Len(d) /\ \A c \in DOMAIN f : y \notin f[c][1] .. f[c][2]
    BY <1>1, <2>1, PartsAre
  <2> QED  BY <2>2, <2>3 DEF NoPrefix
<1>7. k = CodeAt(d, f, off, b, m)
  BY <1>4, <1>6 DEF CodeAt, PlainAt
<1>8. m < Len(f)
  <2> SUFFICES ASSUME m = Len(f) PROVE FALSE
    BY <1>1
  <2>1. k = Len(x) + 1 \/ x[k] = "x"
    BY <1>7, PlacesAre
  <2>2. Prefix # "x"
    BY AtomsAssumption
  <2> QED  BY <1>1, <2>1, <2>2
<1> DEFINE q == AfterDigits(x, k)
           c == m + 1
           from == f[c][1]
           to == f[c][2]
<1>9. /\ Written(x, k) = m /\ q \in Nat /\ q > k + 1 /\ q <= Len(x) /\ x[q] = Underscore
      /\ q + 1 = PlainAt(f, off, b, c, Past(f, c))
  BY <1>7, <1>8, CodeReads
<1>10. m \in 0 .. Len(f) - 1 /\ c \in 0 .. Len(f) /\ c \in 1 .. Len(f) /\ c > 0 /\ c \in DOMAIN f
  <2>1. DOMAIN f = 1 .. Len(f)
    BY <1>1, BlocksFit
  <2> QED  BY <1>1, <1>8, <2>1
<1>11. y = from /\ Past(f, c) = to + 1
  <2>1. y = from
    BY <1>6, <1>8 DEF Till
  <2>2. Past(f, c) = to + 1
    BY <1>1, <1>10, BlocksFit
  <2> QED  BY <2>1, <2>2
<1>12. /\ from \in Nat /\ to \in Nat /\ 1 <= from /\ from <= to /\ to <= Len(d)
       /\ \A z \in from .. to : ~Dropped(d, f, z)
  <2>1. from \in Nat /\ to \in Nat
    BY <1>1, <1>10, BlocksFit
  <2>2. 1 <= from /\ from <= to /\ to <= Len(d)
    BY <1>1, <1>10 DEF BlocksOf
  <2>3. \A z \in f[m + 1][1] .. f[m + 1][2] : ~Dropped(d, f, z)
    BY <1>1, <1>8, PartsAre
  <2> QED  BY <2>1, <2>2, <2>3
<1>13. /\ Start(d, f, c) \in Past(f, c) .. Till(d, f, c) /\ Past(f, c) \in Nat
       /\ Till(d, f, c) \in Nat /\ Till(d, f, c) <= Len(d) + 1
       /\ Start(d, f, c) # Past(f, c) =>
             Start(d, f, c) = Past(f, c) + 1 /\ Dropped(d, f, Past(f, c))
  BY <1>1, <1>10, StartIs
<1>14. ResumesAt(x, q) = PlainAt(f, off, b, c, Start(d, f, c))
  BY <1>9, <1>10, ResumesRight
<1> HIDE DEF from, to
<1> DEFINE u == SubSeq(d, from, to)
           st == Start(d, f, c)
<1>15. Text(S, u) /\ Once(d, f, to) = Once(d, f, from - 1) \o u
  <2>1. Once(d, f, to) = Once(d, f, from - 1) \o u
    BY <1>12, OnceKeeps
  <2>2. d \in Seq(S)
    BY DEF Text
  <2> DEFINE e == to + 1
  <2>3. e \in Nat /\ from <= e /\ e <= Len(d) + 1 /\ e - 1 = to
    BY <1>1, <1>12
  <2> HIDE DEF e
  <2>4. SubSeq(d, from, e - 1) \in Seq(S)
    BY <1>12, <2>2, <2>3, Piece
  <2> QED  BY <2>1, <2>3, <2>4 DEF Text
<1> HIDE DEF q, u, st
(* The ="" behind the block is no part of what is restored. *)
<1>16. st \in Nat /\ from <= st /\ st <= Len(d) + 1 /\ Once(d, f, st - 1) = Once(d, f, to)
  <2>1. st \in Nat /\ from <= st /\ st <= Len(d) + 1
    BY <1>1, <1>11, <1>12, <1>13, SMTT(30) DEF st
  <2>2. CASE st = Past(f, c)
    <3>1. st - 1 = to
      BY <1>11, <1>12, <2>2
    <3> QED  BY <2>1, <3>1
  <2>3. CASE st # Past(f, c)
    <3> DEFINE e == to + 1
    <3>1. st - 1 = e /\ Dropped(d, f, e) /\ e \in 1 .. Len(d) /\ e - 1 = to
      BY <1>1, <1>11, <1>12, <1>13, <2>1, <2>3, SMTT(30) DEF st
    <3> HIDE DEF e
    <3>2. Once(d, f, e) = Once(d, f, e - 1) \o Single(d, f, e)
      BY <3>1, OnceGrows
    <3>3. Single(d, f, e) = <<>>
      BY <3>1 DEF Single
    <3>4. to \in 0 .. Len(d)
      BY <1>1, <1>12
    <3>5. Text(S, Once(d, f, to))
      BY <3>4, OnceGrows
    <3>6. Once(d, f, to) \o <<>> = Once(d, f, to)
      BY <3>5, Concats
    <3>7. Once(d, f, e) = Once(d, f, to)
      BY <3>1, <3>2, <3>3, <3>6
    <3> QED  BY <2>1, <3>1, <3>7
  <2> QED  BY <2>2, <2>3
<1>17. Restored(d, f, b, st) = o \o u
  <2>1. OnceBy(d, f, from, st, u)
    BY <1>15, <1>16 DEF OnceBy
  <2>2. Text(S, u)
    BY <1>15
  <2>3. from \in Nat /\ 1 <= from /\ st \in Nat /\ from <= st /\ st <= Len(d) + 1
    BY <1>12, <1>16
  <2>4. RestoredBy(d, f, b, from, st, u)
    BY <2>1, <2>2, <2>3, RestoredGrows
  <2>5. o = Restored(d, f, b, from)
    BY <1>4, <1>11
  <2> QED  BY <2>4, <2>5 DEF RestoredBy
<1>18. Walks(d, f, off, B, ResumesAt(x, q), o \o u)
  <2>1. st \in Start(d, f, c) .. Till(d, f, c)
    BY <1>13 DEF st
  <2>2. ResumesAt(x, q) = PlainAt(f, off, b, c, st)
    BY <1>14 DEF st
  <2> QED  BY <1>10, <1>17, <2>1, <2>2 DEF Walks
<1> QED  BY <1>9, <1>10, <1>18 DEF q, u, from, to

-----------------------------------------------------------------------------
(* CodeBlocks: the inductive invariant *)

(* The types, and the blocks found. *)
Typed ==
    /\ doc \in Documents /\ pc \in {"encode", "process", "decode", "done", "panicked"}
    /\ BlocksOf(doc, found) /\ Text(AtomsOf(doc), out) /\ Text(AtomsOf(doc), text)
    /\ i \in Nat /\ 1 <= i /\ i <= Len(doc) + Len(text) + 1
    /\ pc = "decode" => i <= Len(text) + 1

(* The encoder stands behind the last block it found, and has written the
   document up to there. *)
Encoded ==
    pc = "encode" =>
        /\ text = <<>> /\ i = Past(found, Len(found)) /\ Clean(doc, found)
        /\ \E off : Encodes(doc, found, Len(found), out, off) /\ Len(out) + 1 = off[Len(found)]

(* Then it has written all of it. *)
Complete == pc = "process" => /\ out = <<>> /\ i = 1
                              /\ \E off : Whole(doc, found, text, off)

(* The decoder reads it, and what it has written is right unless the document
   deceives it. *)
Decoded ==
    pc = "decode" =>
        \E t, off, B :
            /\ Processed(doc, found, t, off, text, B)
            /\ NoPrefix(doc, found) => /\ Walks(doc, found, off, B, i, out)
                                       /\ out = <<>> => i = 1

CodeInv == /\ Typed /\ Encoded /\ Complete /\ Decoded
           /\ ParserSeesNoBlock /\ StaysInBounds /\ RoundTrip

(* What a state's document is. *)
LEMMA DocFacts ==
    ASSUME Typed
    PROVE  /\ Text(AtomsOf(doc), doc) /\ Len(doc) \in Nat /\ Len(doc) < IntHalf
           /\ DOMAIN doc = 1 .. Len(doc) /\ "x" \in AtomsOf(doc)
           /\ Len(found) \in Nat /\ DOMAIN found = 1 .. Len(found) /\ Len(text) \in Nat
           /\ Len(found) <= Len(doc)
<1>1. doc \in Documents
  BY DEF Typed
<1>2. doc \in Seq(AtomsOf(doc)) /\ Len(doc) \in Nat /\ DOMAIN doc = 1 .. Len(doc) /\ Len(doc) < IntHalf
  BY <1>1, DocumentIs
<1>3. Len(found) \in Nat /\ DOMAIN found = 1 .. Len(found) /\ Len(found) <= Len(doc)
  BY <1>2, BlocksFit DEF Typed
<1>4. Len(text) \in Nat
  BY DEF Typed, Text
<1>5. "x" \in AtomsOf(doc)
  BY DEF AtomsOf
<1> QED  BY <1>2, <1>3, <1>4, <1>5 DEF Text

(* A text of some atoms is one of more. *)
LEMMA TextWidens ==
    ASSUME NEW S, NEW T, S \subseteq T, NEW u \in Seq(S)
    PROVE  Text(T, u)
<1>1. u \in [1 .. Len(u) -> S] /\ Len(u) \in Nat
  OBVIOUS
<1>2. u \in [1 .. Len(u) -> T]
  BY <1>1
<1> QED  BY <1>1, <1>2, SeqDef DEF Text

(* Blocks before which nothing opens stay so when one is added. *)
LEMMA CleanGrows ==
    ASSUME NEW d, Len(d) \in Nat, NEW f, BlocksOf(d, f), Clean(d, f), NEW p \in Nat, NEW q \in Nat,
           Past(f, Len(f)) <= p, p <= q, q <= Len(d), <<d[p], d[q]>> \in Delimiters,
           \A y \in Past(f, Len(f)) .. p - 1 : ~Opening(d[y])
    PROVE  Clean(d, Append(f, <<p, q>>))
<1> DEFINE g == Append(f, <<p, q>>)
           n == Len(f)
<1>1. n \in Nat /\ f \in Seq(Nat \X Nat)
  BY BlocksFit DEF BlocksOf
<1>2. Len(g) = n + 1 /\ g[n + 1] = <<p, q>> /\ \A m \in 1 .. n : g[m] = f[m]
  BY <1>1
<1>3. \A m \in 0 .. n : Past(g, m) = Past(f, m)
  BY BlocksGrow
<1> HIDE DEF g, n
<1>4. ASSUME NEW m \in 0 .. Len(g) - 1, NEW y \in Past(g, m) .. g[m + 1][1] - 1
      PROVE  ~Opening(d[y])
  <2>1. CASE m = n
    <3>1. m \in 0 .. n /\ g[m + 1][1] = p /\ Past(g, m) = Past(f, n)
      BY <1>1, <1>2, <1>3, <2>1
    <3> QED  BY <3>1 DEF n
  <2>2. CASE m # n
    <3>1. m \in 0 .. n - 1 /\ m \in 0 .. n /\ m + 1 \in 1 .. n
      BY <1>1, <1>2, <2>2
    <3>2. g[m + 1] = f[m + 1] /\ Past(g, m) = Past(f, m)
      BY <1>2, <1>3, <3>1
    <3> QED  BY <3>1, <3>2 DEF Clean, n
  <2> QED  BY <2>1, <2>2
<1> QED  BY <1>4 DEF Clean, g

(* Before anything is read, nothing is encoded. *)
LEMMA NothingEncoded ==
    ASSUME NEW d
    PROVE  /\ BlocksOf(d, <<>>) /\ Clean(d, <<>>) /\ Len(<<>>) = 0 /\ Past(<<>>, 0) = 1
           /\ \E off : Encodes(d, <<>>, 0, <<>>, off) /\ 0 + 1 = off[0]
<1>1. BlocksOf(d, <<>>)
  BY DEF BlocksOf
<1>2. Clean(d, <<>>)
  BY DEF Clean
<1> DEFINE off == [m \in 0 .. 0 |-> 1]
<1>3. off \in [0 .. 0 -> Nat] /\ off[0] = 1
  OBVIOUS
<1> HIDE DEF off
<1>4. \A m \in 0 .. 0 - 1 : FALSE
  OBVIOUS
<1>5. \A k \in 1 .. off[0] - 1 : FALSE
  BY <1>3
<1>6. Encodes(d, <<>>, 0, <<>>, off)
  BY <1>3, <1>4, <1>5 DEF Encodes
<1> QED  BY <1>1, <1>2, <1>3, <1>6 DEF Past

(* It holds when encodeCodeBlocks begins. *)
LEMMA CodeInitInv == CodeInit => CodeInv
<1> SUFFICES ASSUME CodeInit PROVE CodeInv
  OBVIOUS
<1>1. doc \in Documents /\ pc = "encode" /\ i = 1 /\ out = <<>> /\ found = <<>> /\ text = <<>>
  BY DEF CodeInit
<1>2. Len(doc) \in Nat
  BY <1>1, DocumentIs
<1>3. Len(<<>>) = 0 /\ \A S : Text(S, <<>>)
  BY DEF Text
<1>4. Typed
  <2>1. BlocksOf(doc, found)
    BY <1>1, NothingEncoded
  <2>2. 1 <= Len(doc) + Len(text) + 1
    BY <1>1, <1>2, <1>3
  <2> QED  BY <1>1, <1>3, <2>1, <2>2 DEF Typed
<1>5. Encoded
  <2>1. /\ Clean(doc, <<>>) /\ Past(<<>>, 0) = 1
        /\ \E off : Encodes(doc, <<>>, 0, <<>>, off) /\ 0 + 1 = off[0]
    BY NothingEncoded
  <2> QED  BY <1>1, <1>3, <2>1 DEF Encoded
<1>6. Complete /\ Decoded /\ ParserSeesNoBlock /\ StaysInBounds /\ RoundTrip
  BY <1>1 DEF Complete, Decoded, ParserSeesNoBlock, StaysInBounds, RoundTrip
<1> QED  BY <1>4, <1>5, <1>6 DEF CodeInv

-----------------------------------------------------------------------------
(* CodeBlocks: its steps *)

(* The encoder writes what is before the next block, and its placeholder. *)
LEMMA EncodeBlockInv ==
    ASSUME CodeInv, EncodeBlock
    PROVE  CodeInv'
<1> DEFINE A == AtomsOf(doc)
           n == Len(found)
           a == i
           ph == placeholder(n)
           x == Len(out) + 1
<1>1. /\ pc = "encode" /\ NextBlock(doc, i) # <<>>
      /\ out' = out \o SubSeq(doc, i, NextBlock(doc, i)[1] - 1) \o ph
      /\ found' = Append(found, NextBlock(doc, i))
      /\ i' = NextBlock(doc, i)[2] + 1
      /\ doc' = doc /\ pc' = pc /\ text' = text
  BY DEF EncodeBlock
<1>2. /\ Text(A, doc) /\ Len(doc) \in Nat /\ n \in Nat /\ BlocksOf(doc, found) /\ Text(A, out)
      /\ i \in Nat /\ 1 <= i /\ Len(out) \in Nat /\ Len(text) \in Nat
  <2>1. Text(A, out)
    BY DEF CodeInv, Typed
  <2>2. Len(out) \in Nat
    BY <2>1 DEF Text
  <2> QED  BY <2>1, <2>2, DocFacts DEF CodeInv, Typed
<1>3. text = <<>> /\ i = Past(found, n) /\ Clean(doc, found)
  BY <1>1 DEF CodeInv, Encoded
<1>4. PICK off : Encodes(doc, found, n, out, off) /\ x = off[n]
  BY <1>1 DEF CodeInv, Encoded
<1>5. PICK p, q \in Nat : /\ NextBlock(doc, i) = <<p, q>> /\ i <= p /\ p <= q /\ q <= Len(doc)
                          /\ <<doc[p], doc[q]>> \in Delimiters
                          /\ \A y \in i .. p - 1 : ~Opening(doc[y])
  <2>1. doc \in Seq(A)
    BY <1>2 DEF Text
  <2> HIDE DEF A
  <2> QED  BY <1>1, <1>2, <2>1, NextBlockIs
<1> DEFINE g == Append(found, <<p, q>>)
           w == (out \o SubSeq(doc, i, p - 1)) \o ph
<1>6. out' = w /\ found' = g /\ i' = q + 1
  <2>1. NextBlock(doc, i) = <<p, q>>
    BY <1>5
  <2>2. NextBlock(doc, i)[1] = p /\ NextBlock(doc, i)[2] = q
    BY <2>1
  <2> HIDE DEF ph
  <2>3. out' = w
    BY <1>1, <2>2
  <2> QED  BY <1>1, <2>1, <2>2, <2>3
<1>7. Text(A, ph)
  <2>1. ph \in Seq(ToSet(Digits) \union {Prefix, Underscore})
    BY <1>2, PlaceholderIs
  <2>2. ToSet(Digits) \union {Prefix, Underscore} \subseteq A
    BY DEF AtomsOf
  <2> HIDE DEF A, ph
  <2> QED  BY <2>1, <2>2, TextWidens
<1>8. Text(A, w) /\ Joined(w, out, x, doc, i, p, ph, Len(ph))
  <2>1. p <= Len(doc) + 1
    BY <1>2, <1>5
  <2> HIDE DEF A, ph
  <2> QED  BY <1>2, <1>5, <1>7, <2>1, JoinedIs
<1> HIDE DEF A, n, w, x
<1>9. Follows(doc, found, off, n, i, x, p, q)
  BY <1>3, <1>4, <1>5 DEF Follows, n
<1>10. x \in Nat
  BY <1>2 DEF x
<1>11. \E o : Encodes(doc, g, n + 1, w, o) /\ Len(w) = o[n + 1] - 1
  BY <1>2, <1>4, <1>8, <1>9, <1>10, EncodesGrow, SMTT(30)
<1>12. BlocksOf(doc, g) /\ Past(g, n + 1) = q + 1 /\ Clean(doc, g) /\ Len(g) = n + 1
  <2>1. found \in Seq(Nat \X Nat)
    BY <1>2 DEF BlocksOf
  <2>2. Len(g) = n + 1
    BY <2>1 DEF n
  <2>3. BlocksOf(doc, g) /\ Past(g, n + 1) = q + 1
    BY <1>2, <1>3, <1>5, BlocksGrow DEF n
  <2>4. Clean(doc, g)
    BY <1>2, <1>3, <1>5, CleanGrows DEF n
  <2> QED  BY <2>2, <2>3, <2>4
<1> HIDE DEF g
<1>13. Typed'
  <2>1. q + 1 \in Nat /\ 1 <= q + 1 /\ q + 1 <= Len(doc) + Len(text) + 1
    BY <1>2, <1>5
  <2> QED  BY <1>1, <1>2, <1>6, <1>8, <1>12, <2>1 DEF Typed, CodeInv, A
<1>14. Encoded'
  <2>1. PICK o : Encodes(doc, g, n + 1, w, o) /\ Len(w) = o[n + 1] - 1
    BY <1>11
  <2>2. o[n + 1] \in Nat
    <3>1. n + 1 \in 0 .. n + 1
      BY <1>2
    <3>2. o \in [0 .. n + 1 -> Nat]
      BY <2>1 DEF Encodes
    <3> QED  BY <3>1, <3>2
  <2>3. Len(w) + 1 = o[n + 1]
    BY <2>1, <2>2
  <2> QED  BY <1>1, <1>3, <1>6, <1>12, <2>1, <2>3 DEF Encoded
<1>15. (Complete /\ Decoded /\ ParserSeesNoBlock /\ StaysInBounds /\ RoundTrip)'
  BY <1>1 DEF Complete, Decoded, ParserSeesNoBlock, StaysInBounds, RoundTrip
<1> QED  BY <1>13, <1>14, <1>15 DEF CodeInv

(* It writes what is left, and the document is encoded. *)
LEMMA EncodeRestInv ==
    ASSUME CodeInv, EncodeRest
    PROVE  CodeInv'
<1> DEFINE A == AtomsOf(doc)
           n == Len(found)
           x == Len(out) + 1
           p == Len(doc) + 1
           w == (out \o SubSeq(doc, i, p - 1)) \o <<>>
<1>1. /\ pc = "encode" /\ NextBlock(doc, i) = <<>> /\ pc' = "process"
      /\ text' = out \o SubSeq(doc, i, Len(doc)) /\ out' = <<>> /\ i' = 1
      /\ doc' = doc /\ found' = found
  BY DEF EncodeRest, From
<1>2. /\ Text(A, doc) /\ Len(doc) \in Nat /\ n \in Nat /\ BlocksOf(doc, found) /\ Text(A, out)
      /\ i \in Nat /\ 1 <= i /\ Len(out) \in Nat
  <2>1. Text(A, out)
    BY DEF CodeInv, Typed
  <2>2. Len(out) \in Nat
    BY <2>1 DEF Text
  <2> QED  BY <2>1, <2>2, DocFacts DEF CodeInv, Typed
<1>3. i = Past(found, n) /\ Clean(doc, found)
  BY <1>1 DEF CodeInv, Encoded
<1>4. PICK off : Encodes(doc, found, n, out, off) /\ x = off[n]
  BY <1>1 DEF CodeInv, Encoded
<1>5. i <= p
  <2>1. n \in 0 .. n
    BY <1>2
  <2> QED  BY <1>2, <1>3, <2>1, BlocksFit
<1>6. p \in Nat /\ p - 1 = Len(doc) /\ p <= Len(doc) + 1
  BY <1>2
<1> HIDE DEF p
<1>7. Text(A, <<>>) /\ Len(<<>>) = 0
  BY DEF Text
<1>8. Text(A, w) /\ Joined(w, out, x, doc, i, p, <<>>, 0)
  <2> HIDE DEF A
  <2>1. Text(A, w) /\ Joined(w, out, x, doc, i, p, <<>>, Len(<<>>))
    BY <1>2, <1>5, <1>6, <1>7, JoinedIs
  <2> QED  BY <1>7, <2>1
<1>9. text' = w
  <2> DEFINE mid == SubSeq(doc, i, p - 1)
  <2>1. Text(A, mid)
    <3>1. doc \in Seq(A)
      BY <1>2 DEF Text
    <3> HIDE DEF A
    <3>2. mid \in Seq(A)
      BY <1>2, <1>5, <1>6, <3>1, Piece
    <3> QED  BY <3>2 DEF Text
  <2>2. text' = out \o mid
    BY <1>1, <1>6
  <2> HIDE DEF mid, A
  <2>3. Text(A, out \o mid)
    BY <1>2, <2>1, ConcatIs
  <2> DEFINE v == out \o mid
  <2> HIDE DEF v
  <2>4. v \o <<>> = v
    BY <2>3, Concats DEF v
  <2> QED  BY <2>2, <2>4 DEF v, mid
<1> HIDE DEF A, n, w, x
<1>10. Whole(doc, found, w, off)
  <2>1. Final(doc, found, off, n, i, x, p)
    BY <1>3, <1>4 DEF Final, n, p
  <2>2. x \in Nat
    BY <1>2 DEF x
  <2> QED  BY <1>2, <1>4, <1>6, <1>8, <2>1, <2>2, WholeMade
<1>11. Len(w) \in Nat
  BY <1>8 DEF Text
<1>12. Typed'
  <2>1. 1 <= Len(doc) + Len(w) + 1
    BY <1>2, <1>11
  <2> QED  BY <1>1, <1>2, <1>7, <1>8, <1>9, <2>1 DEF Typed, CodeInv, A
<1>13. Complete'
  BY <1>1, <1>9, <1>10 DEF Complete
<1>14. ParserSeesNoBlock'
  <2>1. ASSUME NEW r \in DOMAIN w, Closings(w, r) # {}
        PROVE  \E u \in Openings(w, 1) : u < r /\ Closings(w, u) = {}
    <3>1. r \in 1 .. Len(w) /\ doc \in Seq(A)
      BY <1>2, <1>8 DEF Text
    <3>2. NextBlock(doc, Past(found, Len(found))) = <<>>
      BY <1>1, <1>3 DEF n
    <3> QED  BY <1>2, <1>3, <1>10, <1>11, <2>1, <3>1, <3>2, NoBlockSeen
  <2> QED  BY <1>9, <2>1 DEF ParserSeesNoBlock
<1>15. (Encoded /\ Decoded /\ StaysInBounds /\ RoundTrip)'
  BY <1>1 DEF Encoded, Decoded, StaysInBounds, RoundTrip
<1> QED  BY <1>12, <1>13, <1>14, <1>15 DEF CodeInv

(* Inline copies what is encoded, and the decoder begins to read. *)
LEMMA ProcessInv ==
    ASSUME CodeInv, Process
    PROVE  CodeInv'
<1> DEFINE A == AtomsOf(doc)
<1>1. /\ pc = "process" /\ pc' = "decode"
      /\ doc' = doc /\ i' = i /\ out' = out /\ found' = found
  BY DEF Process
<1>2. PICK copies \in {<<text>>, <<text, <<"x">>, text>>} : text' = FlattenSeq(copies)
  BY DEF Process
<1>3. /\ Text(A, doc) /\ Len(doc) \in Nat /\ BlocksOf(doc, found) /\ Text(A, text)
      /\ Len(text) \in Nat /\ "x" \in A
  BY DocFacts DEF CodeInv, Typed
<1>4. out = <<>> /\ i = 1
  BY <1>1 DEF CodeInv, Complete
<1>5. PICK off : Whole(doc, found, text, off)
  BY <1>1 DEF CodeInv, Complete
<1> HIDE DEF A
<1>6. Text(A, FlattenSeq(copies)) /\ \E B : Copied(FlattenSeq(copies), text, B)
  BY <1>3, CopiesAre
<1>7. PICK B : Copied(text', text, B)
  BY <1>2, <1>6
<1>8. Processed(doc, found, text, off, text', B)
  BY <1>3, <1>5, <1>7 DEF Processed
<1>9. Walks(doc, found, off, B, 1, <<>>)
  BY <1>3, <1>8, WalkBegins
<1>10. Decoded'
  BY <1>1, <1>4, <1>8, <1>9 DEF Decoded
<1>11. Typed'
  <2>1. Text(A, text') /\ Len(text') \in Nat
    BY <1>2, <1>6 DEF Text
  <2>2. 1 <= Len(doc) + Len(text') + 1 /\ 1 <= Len(text') + 1
    BY <1>3, <2>1
  <2> QED  BY <1>1, <1>3, <1>4, <2>1, <2>2 DEF CodeInv, Typed, A
<1>12. (Encoded /\ Complete /\ ParserSeesNoBlock /\ StaysInBounds /\ RoundTrip)'
  BY <1>1 DEF Encoded, Complete, ParserSeesNoBlock, StaysInBounds, RoundTrip
<1> QED  BY <1>10, <1>11, <1>12 DEF CodeInv

(* The next prefix is the first one from where the decoder reads on. *)
LEMMA NextIs ==
    ASSUME CodeInv, PrefixesFrom(text, i) # {}
    PROVE  /\ next \in Nat /\ i <= next /\ next \in 1 .. Len(text) /\ text[next] = Prefix
           /\ \A j \in i .. next - 1 : text[j] # Prefix
<1> DEFINE F == PrefixesFrom(text, i)
           k == next
<1>1. k = Min(F)
  BY DEF next
<1>2. i \in Nat /\ 1 <= i /\ Len(text) \in Nat
  BY DocFacts DEF CodeInv, Typed
<1>3. F \in SUBSET Nat /\ \A j \in Nat : j \in F <=> j \in i .. Len(text) /\ text[j] = Prefix
  BY <1>2 DEF PrefixesFrom
<1> HIDE DEF F, k
<1>4. k \in F /\ \A j \in F : k <= j
  BY <1>1, <1>3, MinIs DEF F
<1>5. k \in i .. Len(text) /\ text[k] = Prefix /\ k \in Nat
  BY <1>3, <1>4
<1>6. ASSUME NEW j \in i .. k - 1, text[j] = Prefix
      PROVE  FALSE
  <2>1. j \in Nat /\ j \in i .. Len(text) /\ ~(k <= j)
    BY <1>2, <1>5
  <2> QED  BY <1>3, <1>4, <1>6, <2>1
<1> QED  BY <1>2, <1>5, <1>6 DEF k

(* While the decoder has been right, it is right at the next prefix: it takes
   it for one of ours, with the number of a block, and goes on being right. *)
LEMMA NextRestores ==
    ASSUME CodeInv, PrefixesFrom(text, i) # {}, NEW t, NEW off, NEW B,
           Processed(doc, found, t, off, text, B), NoPrefix(doc, found),
           Walks(doc, found, off, B, i, out)
    PROVE  /\ Ours(text, next) /\ Number(text, next) + 1 \in DOMAIN found
           /\ Walks(doc, found, off, B, Resume(AfterDigits(text, next)),
                    (out \o SubSeq(text, i, next - 1)) \o
                       Slice(doc, found[Number(text, next) + 1]))
<1> DEFINE A == AtomsOf(doc)
           k == next
           mid == SubSeq(text, i, k - 1)
           o == out \o mid
           q == AfterDigits(text, k)
<1>1. /\ Text(A, doc) /\ Len(doc) \in Nat /\ Len(doc) < IntHalf /\ "x" \in A /\ Text(A, text)
      /\ Text(A, out) /\ i \in Nat /\ 1 <= i /\ Len(found) \in Nat /\ Len(text) \in Nat
      /\ DOMAIN found = 1 .. Len(found) /\ Len(found) <= Len(doc)
  BY DocFacts DEF CodeInv, Typed
<1>2. /\ k \in Nat /\ i <= k /\ k \in 1 .. Len(text) /\ text[k] = Prefix
      /\ \A j \in i .. k - 1 : text[j] # Prefix
  BY NextIs
<1> HIDE DEF A, k
<1>3. Text(A, mid)
  <2>1. text \in Seq(A) /\ k <= Len(text) + 1
    BY <1>1, <1>2 DEF Text
  <2>2. mid \in Seq(A)
    BY <1>1, <1>2, <2>1, Piece
  <2> QED  BY <2>2 DEF Text
<1>4. Walks(doc, found, off, B, k, o)
  <2>1. k <= Len(text) + 1
    BY <1>1, <1>2
  <2> QED  BY <1>1, <1>2, <2>1, WalkOn
<1> HIDE DEF mid
<1>5. Text(A, o)
  BY <1>1, <1>3, ConcatIs
<1> HIDE DEF o
<1>6. PICK m \in 0 .. Len(found) - 1 :
              /\ Written(text, k) = m
              /\ AfterDigits(text, k) > k + 1 /\ AfterDigits(text, k) <= Len(text)
              /\ text[AfterDigits(text, k)] = Underscore
              /\ Walks(doc, found, off, B, ResumesAt(text, AfterDigits(text, k)),
                       o \o SubSeq(doc, found[m + 1][1], found[m + 1][2]))
  <2>1. Text(A, doc) /\ "x" \in A /\ k \in 1 .. Len(text) /\ text[k] = Prefix
    BY <1>1, <1>2
  <2> QED  BY <1>4, <1>5, <2>1, WalkBlock
<1>7. Number(text, k) = m
  <2>1. m \in Nat /\ m < IntHalf
    <3>1. IntHalf \in Nat
      BY DocumentsAssumption
    <3> QED  BY <1>1, <3>1
  <2>2. Wrap(m) = m
    BY <2>1, WrapIs
  <2> QED  BY <1>6, <2>2 DEF Number
<1>8. Number(text, k) + 1 \in DOMAIN found /\ Number(text, k) < Len(found)
  BY <1>1, <1>7
<1>9. Ours(text, k)
  BY <1>6, <1>8 DEF Ours
<1>10. Resume(q) = ResumesAt(text, q)
  BY DEF Resume, ResumesAt
<1>11. Slice(doc, found[Number(text, k) + 1]) = SubSeq(doc, found[m + 1][1], found[m + 1][2])
  BY <1>7 DEF Slice
<1>12. Walks(doc, found, off, B, Resume(q), o \o Slice(doc, found[Number(text, k) + 1]))
  BY <1>6, <1>10, <1>11
<1> QED  BY <1>8, <1>9, <1>12 DEF k, o, mid, q

(* The decoder puts a block back: the one whose placeholder it stands at. *)
LEMMA DecodeBlockInv ==
    ASSUME CodeInv, DecodeBlock
    PROVE  CodeInv'
<1> DEFINE A == AtomsOf(doc)
           k == next
           n == Number(text, k)
           q == AfterDigits(text, k)
           mid == SubSeq(text, i, k - 1)
           s == Slice(doc, found[n + 1])
<1>1. /\ pc = "decode" /\ pc' = pc /\ PrefixesFrom(text, i) # {} /\ Ours(text, k)
      /\ n + 1 \in DOMAIN found /\ out' = (out \o mid) \o s /\ i' = Resume(q)
      /\ doc' = doc /\ found' = found /\ text' = text
  BY DEF DecodeBlock, Decoding
<1>2. /\ Text(A, doc) /\ Len(doc) \in Nat /\ "x" \in A /\ Text(A, text)
      /\ Text(A, out) /\ i \in Nat /\ 1 <= i /\ Len(found) \in Nat /\ Len(text) \in Nat
      /\ DOMAIN found = 1 .. Len(found) /\ BlocksOf(doc, found)
  BY DocFacts DEF CodeInv, Typed
<1>3. k \in Nat /\ i <= k /\ k \in 1 .. Len(text)
  BY <1>1, NextIs
<1>4. Text(A, s) /\ Len(s) > 0
  <2> DEFINE c == n + 1
             from == found[c][1]
             to == found[c][2]
             e == to + 1
  <2>1. c \in 1 .. Len(found)
    BY <1>1, <1>2
  <2> HIDE DEF c
  <2>2. from \in Nat /\ to \in Nat
    BY <1>2, <2>1, BlocksFit
  <2>3. 1 <= from /\ from <= to /\ to <= Len(doc)
    BY <1>2, <2>1 DEF BlocksOf
  <2>4. s = SubSeq(doc, from, to)
    BY DEF Slice, c
  <2> HIDE DEF from, to
  <2>5. e \in Nat /\ from <= e /\ e <= Len(doc) + 1 /\ e - 1 = to
    BY <1>2, <2>2, <2>3
  <2>6. doc \in Seq(A)
    BY <1>2 DEF Text
  <2> HIDE DEF e, s, A
  <2>7. SubSeq(doc, from, e - 1) \in Seq(A) /\ Len(SubSeq(doc, from, e - 1)) = e - from
    BY <2>2, <2>3, <2>5, <2>6, Piece
  <2>8. e - from > 0
    BY <2>2, <2>3 DEF e
  <2> QED  BY <2>4, <2>5, <2>7, <2>8 DEF Text
<1>5. Text(A, mid)
  <2>1. text \in Seq(A) /\ k <= Len(text) + 1
    BY <1>2, <1>3 DEF Text
  <2> HIDE DEF A, k
  <2>2. mid \in Seq(A)
    BY <1>2, <1>3, <2>1, Piece
  <2> QED  BY <2>2 DEF Text
<1>6. q \in Nat /\ q <= Len(text) /\ Resume(q) \in Nat /\ 1 <= Resume(q) /\ Resume(q) <= Len(text) + 1
  <2>1. k <= Len(text)
    BY <1>2, <1>3
  <2>2. EndsAt(text, k, q) /\ q <= Len(text)
    BY <1>1, <1>2, <1>3, <2>1, DigitsEnd DEF Ours
  <2>3. q \in Nat
    BY <1>3, <2>2 DEF EndsAt
  <2> HIDE DEF q
  <2>4. Resume(q) = q + 1 \/ (q < Len(text) /\ Resume(q) = q + 2)
    BY DEF Resume
  <2> QED  BY <1>2, <2>2, <2>3, <2>4
<1> HIDE DEF A, s, mid
<1>7. Text(A, (out \o mid) \o s) /\ (out \o mid) \o s # <<>>
  <2> DEFINE v == out \o mid
  <2>1. Text(A, v)
    BY <1>2, <1>5, ConcatIs
  <2> HIDE DEF v
  <2>2. Text(A, v \o s) /\ Len(v \o s) = Len(v) + Len(s) /\ Len(v) \in Nat /\ Len(s) \in Nat
    BY <1>4, <2>1, ConcatIs
  <2>3. Len(v) + Len(s) > 0
    BY <1>4, <2>2
  <2>4. Len(v \o s) # 0
    BY <2>2, <2>3
  <2>5. Len(<<>>) = 0
    OBVIOUS
  <2>6. v \o s # <<>>
    BY <2>4, <2>5
  <2> QED  BY <2>2, <2>6 DEF v
<1>8. Typed'
  <2>1. Resume(q) <= Len(doc) + Len(text) + 1
    BY <1>2, <1>6
  <2> HIDE DEF k, n, q
  <2>2. Text(A, out')
    BY <1>1, <1>7
  <2> QED  BY <1>1, <1>6, <2>1, <2>2 DEF CodeInv, Typed, A
<1>9. Decoded'
  <2>1. PICK t, off, B : /\ Processed(doc, found, t, off, text, B)
                         /\ NoPrefix(doc, found) => Walks(doc, found, off, B, i, out)
    BY <1>1 DEF CodeInv, Decoded
  <2>2. NoPrefix(doc, found) => Walks(doc, found, off, B, Resume(q), (out \o mid) \o s)
    BY <1>1, <2>1, NextRestores DEF mid, s
  <2> HIDE DEF k, n, q
  <2>3. Walks(doc, found, off, B, Resume(q), (out \o mid) \o s)
           => Walks(doc, found, off, B, i', out')
    BY <1>1
  <2>4. out' # <<>>
    BY <1>1, <1>7
  <2> QED  BY <1>1, <2>1, <2>2, <2>3, <2>4 DEF Decoded
<1>10. (Encoded /\ Complete /\ ParserSeesNoBlock /\ StaysInBounds /\ RoundTrip)'
  BY <1>1 DEF Encoded, Complete, ParserSeesNoBlock, StaysInBounds, RoundTrip
<1> QED  BY <1>8, <1>9, <1>10 DEF CodeInv

(* It finds no block only for a number the document writes itself. *)
LEMMA PanicInv ==
    ASSUME CodeInv, Panic
    PROVE  CodeInv'
<1> DEFINE k == next
<1>1. /\ pc = "decode" /\ pc' = "panicked" /\ PrefixesFrom(text, i) # {} /\ Ours(text, k)
      /\ Number(text, k) + 1 \notin DOMAIN found
      /\ doc' = doc /\ found' = found /\ text' = text /\ i' = i /\ out' = out
  BY DEF Panic, Decoding
<1>2. k \in 1 .. Len(text) /\ text[k] = Prefix
  BY <1>1, NextIs
<1>3. PICK t, off, B : Processed(doc, found, t, off, text, B)
  BY <1>1 DEF CodeInv, Decoded
<1>4. /\ AfterDigits(text, k) > k + 1 /\ Wrap(Written(text, k)) < Len(found)
      /\ Wrap(Written(text, k)) + 1 \notin DOMAIN found
  BY <1>1 DEF Ours, Number
<1> HIDE DEF k
<1>5. Len(doc) < IntHalf /\ DOMAIN doc = 1 .. Len(doc)
  BY DocFacts DEF CodeInv
<1>6. \E y \in 1 .. Len(doc) : /\ \A b \in DOMAIN found : y \notin found[b][1] .. found[b][2]
                               /\ doc[y] = Prefix /\ AfterDigits(doc, y) > y + 1
                               /\ Written(doc, y) >= IntHalf
  BY <1>2, <1>3, <1>4, <1>5, PanicIs
<1>7. StaysInBounds'
  <2>1. \E y \in Plain : doc[y] = Prefix /\ AfterDigits(doc, y) > y + 1 /\ Written(doc, y) >= IntHalf
    BY <1>5, <1>6 DEF Plain
  <2>2. Plain' = Plain
    BY <1>1 DEF Plain
  <2> QED  BY <1>1, <2>1, <2>2 DEF StaysInBounds
<1>8. Typed'
  BY <1>1 DEF CodeInv, Typed
<1>9. (Encoded /\ Complete /\ Decoded /\ ParserSeesNoBlock /\ RoundTrip)'
  BY <1>1 DEF Encoded, Complete, Decoded, ParserSeesNoBlock, RoundTrip
<1> QED  BY <1>7, <1>8, <1>9 DEF CodeInv

(* It passes over a prefix only if the document has one of its own. *)
LEMMA NotOursInv ==
    ASSUME CodeInv, NotOurs
    PROVE  CodeInv'
<1> DEFINE k == next
<1>1. /\ pc = "decode" /\ pc' = pc /\ PrefixesFrom(text, i) # {} /\ ~Ours(text, k) /\ i' = k + 1
      /\ doc' = doc /\ found' = found /\ text' = text /\ out' = out
  BY DEF NotOurs, Decoding
<1>2. k \in Nat /\ k \in 1 .. Len(text) /\ Len(text) \in Nat /\ Len(doc) \in Nat
  BY <1>1, NextIs, DocFacts DEF CodeInv
<1>3. PICK t, off, B : /\ Processed(doc, found, t, off, text, B)
                       /\ NoPrefix(doc, found) => Walks(doc, found, off, B, i, out)
  BY <1>1 DEF CodeInv, Decoded
<1>4. ~NoPrefix(doc, found)
  BY <1>1, <1>3, NextRestores
<1> HIDE DEF k
<1>5. Decoded'
  BY <1>1, <1>3, <1>4 DEF Decoded
<1>6. Typed'
  <2>1. k + 1 \in Nat /\ 1 <= k + 1 /\ k + 1 <= Len(text) + 1 /\ k + 1 <= Len(doc) + Len(text) + 1
    BY <1>2
  <2> QED  BY <1>1, <2>1 DEF CodeInv, Typed
<1>7. (Encoded /\ Complete /\ ParserSeesNoBlock /\ StaysInBounds /\ RoundTrip)'
  BY <1>1 DEF Encoded, Complete, ParserSeesNoBlock, StaysInBounds, RoundTrip
<1> QED  BY <1>5, <1>6, <1>7 DEF CodeInv

(* What the round trip is to give. *)
LEMMA ExpectedIs ==
    ASSUME Typed
    PROVE  /\ Expected = {Once(doc, found, Len(doc)),
                          (Once(doc, found, Len(doc)) \o <<"x">>) \o Once(doc, found, Len(doc))}
           /\ NoPrefix(doc, found) <=> Prefix \notin {doc[y] : y \in Plain}
<1>1. DOMAIN doc = 1 .. Len(doc)
  BY DocFacts
<1> DEFINE kept == {y \in DOMAIN doc : ~(doc[y] = Empty /\ \E b \in DOMAIN found : found[b][2] = y - 1)}
           parts == [y \in DOMAIN doc |-> IF y \in kept THEN <<doc[y]>> ELSE <<>>]
<1>2. parts = [y \in 1 .. Len(doc) |-> Single(doc, found, y)]
  <2>1. \A y \in DOMAIN doc : (IF y \in kept THEN <<doc[y]>> ELSE <<>>) = Single(doc, found, y)
    BY DEF Single, Dropped
  <2> QED  BY <1>1, <2>1
<1>3. FlattenSeq(parts) = Once(doc, found, Len(doc))
  BY <1>2 DEF Once
<1>4. Expected = {FlattenSeq(parts), (FlattenSeq(parts) \o <<"x">>) \o FlattenSeq(parts)}
  BY Zenon DEF Expected
<1>5. NoPrefix(doc, found) <=> Prefix \notin {doc[y] : y \in Plain}
  BY <1>1 DEF NoPrefix, Plain
<1> QED  BY <1>3, <1>4, <1>5

(* A whole text is its own slice. *)
LEMMA SliceOfAll ==
    ASSUME NEW S, NEW s, Text(S, s)
    PROVE  SubSeq(s, 1, Len(s)) = s
<1> DEFINE e == Len(s) + 1
           u == SubSeq(s, 1, e - 1)
<1>1. s \in Seq(S) /\ Len(s) \in Nat
  BY DEF Text
<1>2. e \in Nat /\ 1 <= e /\ e <= Len(s) + 1 /\ e - 1 = Len(s) /\ e - 1 \in Nat
  BY <1>1
<1> HIDE DEF e
<1>3. u \in Seq(S) /\ Len(u) = e - 1 /\ \A y \in 1 .. e - 1 : u[y - 1 + 1] = s[y]
  BY <1>1, <1>2, Piece
<1> HIDE DEF u
<1>4. \A y \in 1 .. Len(s) : u[y] = s[y]
  <2>1. \A y \in 1 .. Len(s) : y - 1 + 1 = y
    BY <1>1
  <2> QED  BY <1>2, <1>3, <2>1
<1>5. u = s
  <2>1. Len(u) = Len(s)
    BY <1>2, <1>3
  <2>2. \A y \in 1 .. Len(u) : u[y] = s[y]
    BY <1>4, <2>1
  <2> QED  BY <1>1, <1>3, <2>1, <2>2, SeqEqual
<1> QED  BY <1>2, <1>5 DEF u

(* It writes what is left, and the document is restored. *)
LEMMA DecodeRestInv ==
    ASSUME CodeInv, DecodeRest
    PROVE  CodeInv'
<1> DEFINE A == AtomsOf(doc)
           e == Len(text) + 1
           rest == SubSeq(text, i, e - 1)
<1>1. /\ pc = "decode" /\ pc' = "done" /\ (found = <<>> \/ PrefixesFrom(text, i) = {})
      /\ out' = (IF out = <<>> THEN text ELSE out \o From(text, i))
      /\ doc' = doc /\ found' = found /\ text' = text /\ i' = i
  BY DEF DecodeRest
<1>2. /\ Text(A, doc) /\ Len(doc) \in Nat /\ "x" \in A /\ Text(A, text)
      /\ Text(A, out) /\ i \in Nat /\ 1 <= i /\ Len(text) \in Nat /\ i <= Len(text) + 1
  BY <1>1, DocFacts DEF CodeInv, Typed
<1>3. e \in Nat /\ i <= e /\ e <= Len(text) + 1 /\ e - 1 = Len(text)
  BY <1>2
<1> HIDE DEF e
<1>4. From(text, i) = rest /\ Text(A, rest)
  <2>1. text \in Seq(A)
    BY <1>2 DEF Text
  <2> HIDE DEF A
  <2>2. rest \in Seq(A)
    BY <1>2, <1>3, <2>1, Piece
  <2> QED  BY <1>3, <2>2 DEF From, Text
<1> HIDE DEF A
<1>5. PICK t, off, B : /\ Processed(doc, found, t, off, text, B)
                       /\ NoPrefix(doc, found) => /\ Walks(doc, found, off, B, i, out)
                                                  /\ out = <<>> => i = 1
  BY <1>1 DEF CodeInv, Decoded
<1>6. ASSUME NoPrefix(doc, found)
      PROVE  out' \in Expected
  <2>1. Walks(doc, found, off, B, i, out) /\ (out = <<>> => i = 1)
    BY <1>5, <1>6
  <2>2. PrefixesFrom(text, i) = {}
    <3> SUFFICES ASSUME PrefixesFrom(text, i) # {} PROVE FALSE
      OBVIOUS
    <3>1. Number(text, next) + 1 \in DOMAIN found
      BY <1>5, <1>6, <2>1, NextRestores
    <3>2. found = <<>>
      BY <1>1
    <3> QED  BY <3>1, <3>2
  <2>3. \A j \in i .. e - 1 : text[j] # Prefix
    BY <1>3, <2>2 DEF PrefixesFrom
  <2>4. Walks(doc, found, off, B, e, out \o rest)
    BY <1>2, <1>3, <1>5, <2>1, <2>3, WalkOn
  <2>5. out' = out \o rest
    <3>1. CASE out # <<>>
      BY <1>1, <1>4, <3>1
    <3>2. CASE out = <<>>
      <4>1. rest = text
        BY <1>2, <1>3, <2>1, <3>2, SliceOfAll
      <4>2. <<>> \o rest = rest
        BY <1>4, Concats
      <4> QED  BY <1>1, <3>2, <4>1, <4>2
    <3> QED  BY <3>1, <3>2
  <2> HIDE DEF rest
  <2>6. Walks(doc, found, off, B, Len(text) + 1, out')
    BY <2>4, <2>5 DEF e
  <2>7. out' \in {Once(doc, found, Len(doc)),
                  (Once(doc, found, Len(doc)) \o <<"x">>) \o Once(doc, found, Len(doc))}
    BY <1>5, <2>6, WalkEnds
  <2> QED  BY <2>7, ExpectedIs DEF CodeInv
<1>7. RoundTrip'
  <2>1. Expected' = Expected /\ Plain' = Plain
    BY <1>1 DEF Expected, Plain
  <2>2. Prefix \notin {doc[y] : y \in Plain} => out' \in Expected
    BY <1>6, ExpectedIs DEF CodeInv
  <2> QED  BY <1>1, <2>1, <2>2 DEF RoundTrip
<1>8. Typed'
  <2>1. Text(A, out \o rest)
    BY <1>2, <1>4, ConcatIs
  <2> HIDE DEF rest
  <2>2. Text(A, out')
    BY <1>1, <1>2, <1>4, <2>1
  <2> QED  BY <1>1, <2>2 DEF CodeInv, Typed, A
<1>9. (Encoded /\ Complete /\ Decoded /\ ParserSeesNoBlock /\ StaysInBounds)'
  BY <1>1 DEF Encoded, Complete, Decoded, ParserSeesNoBlock, StaysInBounds
<1> QED  BY <1>7, <1>8, <1>9 DEF CodeInv

(* Every step keeps the invariant. *)
LEMMA CodeStep == CodeInv /\ [CodeNext]_codeVars => CodeInv'
<1> SUFFICES ASSUME CodeInv, [CodeNext]_codeVars PROVE CodeInv'
  OBVIOUS
<1>1. CASE EncodeBlock
  BY <1>1, EncodeBlockInv
<1>2. CASE EncodeRest
  BY <1>2, EncodeRestInv
<1>3. CASE Process
  BY <1>3, ProcessInv
<1>4. CASE DecodeBlock
  BY <1>4, DecodeBlockInv
<1>5. CASE Panic
  BY <1>5, PanicInv
<1>6. CASE NotOurs
  BY <1>6, NotOursInv
<1>7. CASE DecodeRest
  BY <1>7, DecodeRestInv
<1>8. CASE UNCHANGED codeVars
  <2>1. doc' = doc /\ pc' = pc /\ i' = i /\ out' = out /\ found' = found /\ text' = text
    BY <1>8 DEF codeVars
  <2>2. (Typed /\ Encoded /\ Complete /\ Decoded)'
    BY <2>1 DEF CodeInv, Typed, Encoded, Complete, Decoded
  <2>3. (ParserSeesNoBlock /\ StaysInBounds)'
    BY <2>1 DEF CodeInv, ParserSeesNoBlock, StaysInBounds, Plain
  <2>4. RoundTrip'
    <3>1. Expected' = Expected /\ Plain' = Plain
      BY <2>1 DEF Expected, Plain
    <3> QED  BY <2>1, <3>1 DEF CodeInv, RoundTrip
  <2> QED  BY <2>2, <2>3, <2>4 DEF CodeInv
<1> QED  BY <1>1, <1>2, <1>3, <1>4, <1>5, <1>6, <1>7, <1>8 DEF CodeNext

-----------------------------------------------------------------------------
(* CodeBlocks: the theorems *)

(* encodeCodeBlocks and decodeCodeBlocks keep the invariant. *)
THEOREM CodeInvariant == CodeSpec => []CodeInv
  BY CodeInitInv, CodeStep, PTL DEF CodeSpec

(* Every state is of the right type: what the encoder finds are blocks of the
   document, closed by their own delimiter and one behind the other. *)
THEOREM CodeTypeCorrect == CodeSpec => []CodeTypeOK
<1>1. CodeInv => CodeTypeOK
  <2> SUFFICES ASSUME CodeInv PROVE CodeTypeOK
    OBVIOUS
  <2>1. /\ BlocksOf(doc, found) /\ Text(AtomsOf(doc), out) /\ Text(AtomsOf(doc), text)
        /\ i \in Nat /\ 1 <= i /\ i <= Len(doc) + Len(text) + 1
        /\ pc \in {"encode", "process", "decode", "done", "panicked"}
    BY DEF CodeInv, Typed
  <2>2. Atom = AtomsOf(doc)
    BY DEF Atom, AtomsOf
  <2>3. ToSet(out) \subseteq Atom /\ ToSet(text) \subseteq Atom
    BY <2>1, <2>2 DEF Text, ToSet
  <2>4. i \in 1 .. Len(doc) + Len(text) + 1
    BY <2>1, DocFacts DEF CodeInv
  <2> QED  BY <2>1, <2>3, <2>4 DEF CodeTypeOK, BlocksOf
<1> QED  BY <1>1, CodeInvariant, PTL

(* What the encoder hands to the parser has no block that the parser could see,
   but behind a delimiter that nothing closes. *)
THEOREM NoBlockReachesTheParser == CodeSpec => []ParserSeesNoBlock
<1>1. CodeInv => ParserSeesNoBlock
  BY DEF CodeInv
<1> QED  BY <1>1, CodeInvariant, PTL

(* The decoder takes a block that there is, unless the document itself writes a
   number that no int holds. *)
THEOREM DecoderStaysInBounds == CodeSpec => []StaysInBounds
<1>1. CodeInv => StaysInBounds
  BY DEF CodeInv
<1> QED  BY <1>1, CodeInvariant, PTL

(* Decoding what was encoded and processed gives the document back, as often as
   it was copied, but for the ="" right after a block. *)
THEOREM DecodingRestores == CodeSpec => []RoundTrip
<1>1. CodeInv => RoundTrip
  BY DEF CodeInv
<1> QED  BY <1>1, CodeInvariant, PTL

=============================================================================
