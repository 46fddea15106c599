-------------------------- MODULE RuleIndexProofs --------------------------
(***************************************************************************)
(* Proofs about module RuleIndex, for any stylesheet and any page: a visit *)
(* tests its candidates in strictly ascending rule number and, unless a    *)
(* bucket is named with an escape, calls fn on every rule that matches.    *)
(***************************************************************************)
EXTENDS RuleIndex, SequenceTheorems, TLAPS

-----------------------------------------------------------------------------
(* The buckets an element leads to *)

(* The name the rule is filed under means itself: it holds no escape. *)
KeyDenotesItself(r) ==
    rightmostKey(r)[2] \in Ident => Denotes[rightmostKey(r)[2]] = rightmostKey(r)[2]

KeysDenoteThemselves == \A r \in Selectors : KeyDenotesItself(r)

(* Every rule has its bucket. *)
LEMMA KeyIsRef ==
    ASSUME NEW r \in Selectors
    PROVE  rightmostKey(r) \in Ref
<1>1. /\ r.ids \in Seq(Ident) /\ r.classes \in Seq(Ident) /\ r.tag \in Ident \union {NoIdent}
  BY IdentAssumption DEF Selector
<1>2. r.ids # <<>> => r.ids[1] \in Ident
  BY <1>1
<1>3. r.classes # <<>> => r.classes[1] \in Ident
  BY <1>1
<1> QED  BY <1>1, <1>2, <1>3 DEF rightmostKey, Ref, AnyRef, Kind

(* What forEach asks add for: the buckets of the element's id, of its class
   tokens, of its tag, and the one for all elements. *)
LEMMA ReachableIs ==
    ASSUME NEW el \in Elements
    PROVE  /\ reachable(el) \in Seq(Ref)
           /\ el.id # NoIdent => \E x \in DOMAIN reachable(el) : reachable(el)[x] = <<"id", el.id>>
           /\ \A y \in DOMAIN el.class :
                 \E x \in DOMAIN reachable(el) : reachable(el)[x] = <<"class", el.class[y]>>
           /\ \E x \in DOMAIN reachable(el) : reachable(el)[x] = <<"tag", el.tag>>
           /\ \E x \in DOMAIN reachable(el) : reachable(el)[x] = AnyRef
<1> DEFINE c == classRefs(el)
           i == idRefs(el)
           own == IF el.classFirst THEN c \o i ELSE i \o c
           last == <<<<"tag", el.tag>>, AnyRef>>
           all == reachable(el)
<1>1. /\ el.class \in Seq(Ident) /\ el.tag \in Ident
      /\ el.id \in Ident \union {NoIdent} /\ el.classFirst \in BOOLEAN
  BY IdentAssumption DEF Element
<1>2. c \in Seq(Ref) /\ \A y \in DOMAIN el.class : y \in DOMAIN c /\ c[y] = <<"class", el.class[y]>>
  <2>1. \A y \in DOMAIN el.class : <<"class", el.class[y]>> \in Ref
    BY <1>1 DEF Ref, Kind
  <2>2. DOMAIN el.class = 1..Len(el.class) /\ Len(el.class) \in Nat
    BY <1>1
  <2>3. c = [y \in 1..Len(el.class) |-> <<"class", el.class[y]>>]
    BY <2>2 DEF classRefs
  <2>4. c \in [1..Len(el.class) -> Ref]
    BY <2>1, <2>2, <2>3
  <2> QED  BY <2>2, <2>3, <2>4, SeqDef
<1>3. i \in Seq(Ref) /\ (el.id # NoIdent => 1 \in DOMAIN i /\ i[1] = <<"id", el.id>>)
  <2>1. CASE el.id = NoIdent
    BY <2>1 DEF idRefs
  <2>2. CASE el.id # NoIdent
    <3>1. i = <<<<"id", el.id>>>>
      BY <2>2 DEF idRefs
    <3>2. <<"id", el.id>> \in Ref
      BY <1>1 DEF Ref, Kind
    <3> HIDE DEF i
    <3> QED  BY <3>1, <3>2
  <2> QED  BY <2>1, <2>2
<1>4. last \in Seq(Ref) /\ 1 \in DOMAIN last /\ 2 \in DOMAIN last
      /\ last[1] = <<"tag", el.tag>> /\ last[2] = AnyRef
  BY <1>1 DEF Ref, AnyRef, Kind
<1>5. all = own \o last
  BY DEF reachable, AnyRef
<1> HIDE DEF c, i, last, all
<1> DEFINE Within(s, u) == \A y \in DOMAIN s : \E x \in DOMAIN u : u[x] = s[y]
<1>0. ASSUME NEW s \in Seq(Ref), NEW t \in Seq(Ref), NEW u, u = s \o t
      PROVE  u \in Seq(Ref) /\ Within(s, u) /\ Within(t, u)
  <2>1. /\ u \in Seq(Ref) /\ Len(u) = Len(s) + Len(t)
        /\ Len(s) \in Nat /\ Len(t) \in Nat
        /\ DOMAIN s = 1..Len(s) /\ DOMAIN t = 1..Len(t)
        /\ DOMAIN u = 1 .. Len(s) + Len(t)
    BY <1>0
  <2>2. ASSUME NEW y \in DOMAIN s PROVE y \in DOMAIN u /\ u[y] = s[y]
    BY <1>0, <2>1
  <2>3. ASSUME NEW y \in DOMAIN t
        PROVE  Len(s) + y \in DOMAIN u /\ u[Len(s) + y] = t[y]
    BY <1>0, <2>1
  <2> QED  BY <2>1, <2>2, <2>3
<1> HIDE DEF Within
<1>6. own \in Seq(Ref) /\ Within(c, own) /\ Within(i, own)
  <2>1. CASE el.classFirst
    <3>1. own = c \o i
      BY <2>1
    <3> HIDE DEF own
    <3> QED  BY <1>0, <1>2, <1>3, <3>1
  <2>2. CASE ~el.classFirst
    <3>1. own = i \o c
      BY <2>2
    <3> HIDE DEF own
    <3> QED  BY <1>0, <1>2, <1>3, <3>1
  <2> QED  BY <2>1, <2>2
<1> HIDE DEF own
<1>7. all \in Seq(Ref) /\ Within(own, all) /\ Within(last, all)
  BY <1>0, <1>4, <1>5, <1>6
<1> USE DEF Within
<1>8. Within(c, all) /\ Within(i, all)
  BY <1>6, <1>7
<1>10. el.id # NoIdent => \E x \in DOMAIN all : all[x] = <<"id", el.id>>
  BY <1>3, <1>8, ZenonT(60)
<1>11. \A y \in DOMAIN el.class : \E x \in DOMAIN all : all[x] = <<"class", el.class[y]>>
  BY <1>2, <1>8, Zenon
<1>12. /\ \E x \in DOMAIN all : all[x] = <<"tag", el.tag>>
       /\ \E x \in DOMAIN all : all[x] = AnyRef
  BY <1>4, <1>7
<1> QED  BY <1>7, <1>10, <1>11, <1>12 DEF all

(* The bucket of a rule is among those asked for on every element it matches:
   an element that satisfies a compound has the id, the class or the tag the
   compound is filed under. *)
LEMMA MatchReaches ==
    ASSUME NEW r \in Selectors, KeyDenotesItself(r), NEW el \in Elements, Match(r, el)
    PROVE  \E x \in DOMAIN reachable(el) : reachable(el)[x] = rightmostKey(r)
<1>1. /\ r.ids \in Seq(Ident) /\ r.classes \in Seq(Ident) /\ r.tag \in Ident \union {NoIdent}
  BY IdentAssumption DEF Selector
<1>2. CASE r.ids # <<>>
  <2>1. 1 \in DOMAIN r.ids /\ r.ids[1] \in Ident
    BY <1>1, <1>2
  <2>2. rightmostKey(r) = <<"id", r.ids[1]>>
    BY <1>2 DEF rightmostKey
  <2>3. el.id = Denotes[r.ids[1]] /\ Denotes[r.ids[1]] = r.ids[1]
    BY <2>1, <2>2 DEF Match, KeyDenotesItself
  <2>4. el.id # NoIdent
    BY <2>1, <2>3, IdentAssumption
  <2> QED  BY <2>2, <2>3, <2>4, ReachableIs
<1>3. CASE r.ids = <<>> /\ r.classes # <<>>
  <2>1. 1 \in DOMAIN r.classes /\ r.classes[1] \in Ident
    BY <1>1, <1>3
  <2>2. rightmostKey(r) = <<"class", r.classes[1]>>
    BY <1>3 DEF rightmostKey
  <2>3. PICK y \in DOMAIN el.class : el.class[y] = Denotes[r.classes[1]]
    BY <2>1 DEF Match
  <2>4. Denotes[r.classes[1]] = r.classes[1]
    BY <2>1, <2>2 DEF KeyDenotesItself
  <2> QED  BY <2>2, <2>3, <2>4, ReachableIs
<1>4. CASE r.ids = <<>> /\ r.classes = <<>> /\ r.tag # NoIdent
  <2>1. rightmostKey(r) = <<"tag", r.tag>> /\ r.tag \in Ident
    BY <1>1, <1>4 DEF rightmostKey
  <2>2. el.tag = r.tag
    BY <1>4, <2>1 DEF Match, KeyDenotesItself
  <2> QED  BY <2>1, <2>2, ReachableIs
<1>5. CASE r.ids = <<>> /\ r.classes = <<>> /\ r.tag = NoIdent
  <2>1. rightmostKey(r) = AnyRef
    BY <1>5 DEF rightmostKey
  <2> QED  BY <2>1, ReachableIs
<1> QED  BY <1>2, <1>3, <1>4, <1>5

-----------------------------------------------------------------------------
(* The shape of the state *)

(* A sequence of the first rules is one of the rules up to the next. *)
LEMMA SeqWidens ==
    ASSUME NEW n \in Nat, NEW s \in Seq(1..n)
    PROVE  s \in Seq(1..(n + 1))
<1>1. Len(s) \in Nat /\ s \in [1..Len(s) -> 1..n]
  OBVIOUS
<1>2. \A i \in 1..Len(s) : s[i] \in 1..(n + 1)
  BY <1>1
<1>3. s \in [1..Len(s) -> 1..(n + 1)]
  BY <1>1, <1>2
<1> QED  BY <1>1, <1>3, SeqDef

(***************************************************************************)
(* The state of the index and of the walk has its type in every reachable  *)
(* state; no position of the merge runs past its list.                     *)
(***************************************************************************)
THEOREM TypeCorrect == Spec => []TypeOK
<1>1. ASSUME Init PROVE TypeOK
  <2>1. sheet \in Seq(Selectors) /\ page \in Seq(Elements) /\ Len(sheet) \in Nat
    BY <1>1, InputsAssumption DEF Init
  <2>2. buckets \in [Ref -> Seq(1..indexed)] /\ lists \in Seq(Ref) /\ tested \in Seq(1..indexed)
    BY <1>1 DEF Init
  <2> QED  BY <1>1, <2>1, <2>2 DEF Init, TypeOK
<1>2. ASSUME TypeOK, [Next]_vars PROVE TypeOK'
  <2> USE <1>2
  <2>0. /\ sheet \in Seq(Selectors) /\ page \in Seq(Elements)
        /\ Len(sheet) \in Nat /\ Len(page) \in Nat
        /\ DOMAIN sheet = 1..Len(sheet) /\ DOMAIN page = 1..Len(page)
        /\ indexed \in Nat
        /\ indexed \in 0..Len(sheet) /\ node \in Nat \ {0} /\ asked \in Nat
        /\ phase \in {"index", "visit", "gather", "merge", "left"}
        /\ buckets \in [Ref -> Seq(1..indexed)]
        /\ lists \in Seq(Ref) /\ tested \in Seq(1..indexed)
        /\ phase \in {"gather", "merge", "left"} => node \in DOMAIN page
        /\ phase \in {"merge", "left"} /\ lists # <<>> =>
             /\ DOMAIN pos = DOMAIN lists
             /\ \A l \in DOMAIN lists : pos[l] \in 0..Len(buckets[lists[l]])
    BY DEF TypeOK
  <2>1. CASE IndexRule
    <3> USE <2>1
    <3> DEFINE k == indexed + 1
               ref == rightmostKey(sheet[k])
    <3>1. k \in DOMAIN sheet /\ k \in 1..k /\ sheet[k] \in Selectors
      BY <2>0 DEF IndexRule
    <3>2. ref \in Ref
      BY <3>1, KeyIsRef
    <3>3. /\ indexed' = k /\ buckets' = [buckets EXCEPT ![ref] = Append(@, k)]
          /\ UNCHANGED <<sheet, page, phase, node, asked, lists, pos, tested>>
          /\ phase = "index"
      BY DEF IndexRule
    <3>4. \A r \in Ref : buckets[r] \in Seq(1..k)
      BY <2>0, SeqWidens
    <3> HIDE DEF ref
    <3>5. buckets' \in [Ref -> Seq(1..k)]
      <4>1. Append(buckets[ref], k) \in Seq(1..k)
        BY <3>1, <3>2, <3>4, AppendProperties
      <4> QED  BY <2>0, <3>2, <3>3, <3>4, <4>1
    <3>6. tested' \in Seq(1..k)
      BY <2>0, <3>3, SeqWidens
    <3>7. k \in 0..Len(sheet)
      BY <2>0, <3>1
    <3> QED  BY <2>0, <3>3, <3>5, <3>6, <3>7 DEF TypeOK
  <2>2. CASE IndexDone
    BY <2>0, <2>2 DEF IndexDone, TypeOK
  <2>3. CASE Visit
    <3>1. node \in DOMAIN page /\ lists' \in Seq(Ref) /\ tested' \in Seq(1..indexed)
      BY <2>0, <2>3 DEF Visit
    <3> QED  BY <2>0, <2>3, <3>1 DEF Visit, TypeOK
  <2>4. CASE Add
    <3>1. phase = "gather" /\ node \in DOMAIN page /\ page[node] \in Elements
      BY <2>0, <2>4 DEF Add, Asking
    <3>2. reachable(page[node]) \in Seq(Ref)
      BY <3>1, ReachableIs
    <3>3. Asked \in Ref
      BY <2>0, <2>4, <3>2 DEF Add, Asking, Asked
    <3>4. lists' \in Seq(Ref)
      BY <2>0, <2>4, <3>3 DEF Add
    <3> QED  BY <2>0, <2>4, <3>1, <3>4 DEF Add, TypeOK
  <2>5. CASE Gathered
    <3>1. /\ phase = "gather" /\ phase' = "merge"
          /\ pos' = IF lists = <<>> THEN pos ELSE [l \in DOMAIN lists |-> 0]
          /\ UNCHANGED <<sheet, page, indexed, buckets, node, asked, lists, tested>>
      BY <2>5 DEF Gathered
    <3>2. \A l \in DOMAIN lists : Len(buckets[lists[l]]) \in Nat
      BY <2>0
    <3>3. lists # <<>> => /\ DOMAIN pos' = DOMAIN lists
                          /\ \A l \in DOMAIN lists : pos'[l] \in 0..Len(buckets[lists[l]])
      BY <3>1, <3>2
    <3> QED  BY <2>0, <3>1, <3>3 DEF TypeOK
  <2>6. ASSUME NEW l \in DOMAIN lists, Take(l) PROVE TypeOK'
    <3>1. /\ phase = "merge" /\ IsBest(l) /\ pos' = [pos EXCEPT ![l] = @ + 1]
          /\ tested' = Append(tested, Candidate(l))
          /\ UNCHANGED <<sheet, page, phase, indexed, buckets, node, asked, lists>>
      BY <2>6 DEF Take
    <3>2. lists # <<>>
      BY <2>0
    <3>3. DOMAIN pos = DOMAIN lists /\ \A m \in DOMAIN lists : pos[m] \in 0..Len(buckets[lists[m]])
      BY <2>0, <3>1, <3>2
    <3>4. buckets[lists[l]] \in Seq(1..indexed) /\ Len(buckets[lists[l]]) \in Nat
      BY <2>0
    <3>5. pos[l] < Len(buckets[lists[l]]) /\ pos[l] \in Nat
      BY <3>1, <3>3, <3>4 DEF IsBest, Pending
    <3>6. Candidate(l) \in 1..indexed
      <4> DEFINE b == buckets[lists[l]]
                 p == pos[l]
      <4>1. b \in Seq(1..indexed) /\ p + 1 \in 1..Len(b)
        BY <3>4, <3>5
      <4> HIDE DEF b, p
      <4>2. b[p + 1] \in 1..indexed
        BY <4>1, ElementOfSeq
      <4> QED  BY <4>2 DEF Candidate, b, p
    <3>7. tested' \in Seq(1..indexed)
      BY <2>0, <3>1, <3>6, AppendProperties
    <3>8. /\ DOMAIN pos' = DOMAIN lists
          /\ \A m \in DOMAIN lists : pos'[m] \in 0..Len(buckets[lists[m]])
      BY <3>1, <3>3, <3>4, <3>5
    <3> QED  BY <2>0, <3>1, <3>7, <3>8 DEF TypeOK
  <2>7. CASE Leave
    BY <2>0, <2>7 DEF Leave, TypeOK
  <2>8. CASE NextNode
    BY <2>0, <2>8 DEF NextNode, TypeOK
  <2>9. CASE Done \/ UNCHANGED vars
    BY <2>0, <2>9 DEF Done, vars, TypeOK
  <2> QED  BY <2>1, <2>2, <2>3, <2>4, <2>5, <2>6, <2>7, <2>8, <2>9 DEF Next
<1> QED  BY <1>1, <1>2, PTL DEF Spec

-----------------------------------------------------------------------------
(* The merge *)

(* What newRuleSet establishes: every bucket is ascending, a rule is in the
   bucket of its own key and in no other, and every rule placed is found. *)
Indexed ==
    /\ \A ref \in Ref :
          /\ \A x, y \in DOMAIN buckets[ref] : x < y => buckets[ref][x] < buckets[ref][y]
          /\ \A x \in DOMAIN buckets[ref] : rightmostKey(sheet[buckets[ref][x]]) = ref
    /\ \A k \in 1..indexed : \E x \in DOMAIN buckets[rightmostKey(sheet[k])] :
          buckets[rightmostKey(sheet[k])][x] = k
    /\ phase # "index" => indexed = Len(sheet)

(* What gathering establishes: no bucket is queued twice, and of the buckets
   asked for so far those that hold rules are queued. *)
Queued ==
    /\ \A l, m \in DOMAIN lists : lists[l] = lists[m] => l = m
    /\ phase \in {"gather", "merge", "left"} =>
          /\ asked <= Len(reachable(page[node]))
          /\ \A x \in 1..asked :
                buckets[reachable(page[node])[x]] # <<>> =>
                    \E l \in DOMAIN lists : lists[l] = reachable(page[node])[x]
    /\ phase \in {"merge", "left"} => asked = Len(reachable(page[node]))

(* What the merge keeps: the candidates tested ascend, they are all that the
   lists have been advanced over, and every candidate to come is above them. *)
Merged ==
    /\ CandidatesAscend
    /\ phase = "gather" => tested = <<>>
    /\ phase \in {"merge", "left"} =>
          \A l \in DOMAIN lists :
             /\ \A x \in 1..pos[l] : \E i \in DOMAIN tested : tested[i] = buckets[lists[l]][x]
             /\ Pending(l) => \A i \in DOMAIN tested : tested[i] < Candidate(l)
    /\ phase = "left" => \A l \in DOMAIN lists : ~Pending(l)

(* The inductive invariant. *)
IInv == TypeOK /\ Indexed /\ Queued /\ Merged

(* newRuleSet appends the number of the next rule, which is above all that
   are there, to the bucket of its key. *)
LEMMA IndexRuleStep ==
    ASSUME TypeOK, TypeOK', Indexed, Queued, Merged, IndexRule
    PROVE  Indexed' /\ Queued' /\ Merged'
<1> DEFINE k == indexed + 1
           ref == rightmostKey(sheet[k])
<1>1. /\ phase = "index" /\ phase' = "index" /\ indexed' = k
      /\ buckets' = [buckets EXCEPT ![ref] = Append(@, k)]
      /\ sheet' = sheet /\ lists' = lists /\ tested' = tested
  BY DEF IndexRule
<1>2. /\ indexed \in Nat /\ buckets \in [Ref -> Seq(1..indexed)] /\ k \in DOMAIN sheet
      /\ sheet[k] \in Selectors
  BY DEF TypeOK, IndexRule
<1>3. ref \in Ref
  BY <1>2, KeyIsRef
<1> DEFINE b == buckets[ref]
           c == buckets'[ref]
<1>4. /\ b \in Seq(1..indexed) /\ c = Append(b, k)
      /\ \A r \in Ref : r # ref => buckets'[r] = buckets[r]
  BY <1>1, <1>2, <1>3
<1> HIDE DEF ref, b, c
<1>5. /\ Len(b) \in Nat /\ DOMAIN b = 1..Len(b) /\ DOMAIN c = 1..(Len(b) + 1)
      /\ \A x \in DOMAIN b : c[x] = b[x] /\ b[x] \in 1..indexed
      /\ c[Len(b) + 1] = k
  <2>1. Len(b) \in Nat /\ DOMAIN b = 1..Len(b)
    BY <1>4
  <2>2. \A x \in DOMAIN b : b[x] \in 1..indexed
    BY <1>4, <2>1, ElementOfSeq
  <2> QED  BY <1>4, <2>1, <2>2
<1>6. ASSUME NEW r \in Ref
      PROVE  /\ \A x, y \in DOMAIN buckets'[r] : x < y => buckets'[r][x] < buckets'[r][y]
             /\ \A x \in DOMAIN buckets'[r] : rightmostKey(sheet[buckets'[r][x]]) = r
  <2>1. CASE r = ref
    <3>1. /\ \A x, y \in DOMAIN b : x < y => b[x] < b[y]
          /\ \A x \in DOMAIN b : rightmostKey(sheet[b[x]]) = ref
      BY <1>3 DEF Indexed, b
    <3>2. ASSUME NEW x \in DOMAIN c, NEW y \in DOMAIN c, x < y PROVE c[x] < c[y]
      <4>1. x \in DOMAIN b /\ (y \in DOMAIN b \/ y = Len(b) + 1)
        BY <1>5, <3>2
      <4>2. c[x] = b[x] /\ b[x] \in 1..indexed
        BY <1>5, <4>1
      <4>3. CASE y \in DOMAIN b
        BY <1>5, <3>1, <3>2, <4>1, <4>3
      <4>4. CASE y = Len(b) + 1
        BY <1>2, <1>5, <4>2, <4>4
      <4> QED  BY <4>1, <4>3, <4>4
    <3>3. \A x \in DOMAIN c : rightmostKey(sheet[c[x]]) = ref
      <4>1. rightmostKey(sheet[k]) = ref
        BY DEF ref
      <4>2. \A x \in DOMAIN c : x \in DOMAIN b \/ x = Len(b) + 1
        BY <1>5
      <4> QED  BY <1>5, <3>1, <4>1, <4>2
    <3> QED  BY <2>1, <3>2, <3>3 DEF c
  <2>2. CASE r # ref
    BY <1>4, <2>2 DEF Indexed
  <2> QED  BY <2>1, <2>2
<1>7. ASSUME NEW j \in 1..k
      PROVE  \E x \in DOMAIN buckets'[rightmostKey(sheet[j])] :
                buckets'[rightmostKey(sheet[j])][x] = j
  <2>1. CASE j = k
    <3>1. Len(b) + 1 \in DOMAIN c /\ c[Len(b) + 1] = k
      BY <1>5
    <3> QED  BY <2>1, <3>1 DEF c, ref
  <2>2. CASE j # k
    <3>1. j \in 1..indexed
      BY <1>2, <2>2
    <3> DEFINE q == rightmostKey(sheet[j])
    <3>2. PICK x \in DOMAIN buckets[q] : buckets[q][x] = j
      BY <3>1 DEF Indexed
    <3>3. q \in Ref
      <4>1. sheet \in Seq(Selectors) /\ j \in 1..Len(sheet)
        BY <1>2, <3>1 DEF TypeOK
      <4>2. sheet[j] \in Selectors
        BY <4>1, ElementOfSeq
      <4> QED  BY <4>2, KeyIsRef
    <3>4. CASE q = ref
      <4>1. x \in DOMAIN b /\ b[x] = j
        BY <3>2, <3>4 DEF b
      <4>2. x \in DOMAIN c /\ c[x] = j
        BY <1>5, <4>1
      <4> QED  BY <3>4, <4>2 DEF c
    <3>5. CASE q # ref
      BY <1>4, <3>2, <3>3, <3>5
    <3> QED  BY <3>4, <3>5
  <2> QED  BY <2>1, <2>2
<1>8. Indexed'
  BY <1>1, <1>6, <1>7 DEF Indexed
<1>9. Queued' /\ Merged'
  BY <1>1 DEF Queued, Merged, CandidatesAscend
<1> QED  BY <1>8, <1>9

(* add is called on one more of the buckets the element leads to. *)
LEMMA AddStep ==
    ASSUME TypeOK, Indexed, Queued, Merged, Add
    PROVE  Indexed' /\ Queued' /\ Merged'
<1> DEFINE all == reachable(page[node])
<1>1. /\ phase = "gather" /\ phase' = "gather" /\ asked' = asked + 1 /\ asked < Len(all)
      /\ lists' = IF buckets[Asked] = <<>> \/ \E l \in DOMAIN lists : lists[l] = Asked
                  THEN lists ELSE Append(lists, Asked)
      /\ Asked = all[asked + 1]
      /\ UNCHANGED <<sheet, page, indexed, buckets, node, pos, tested>>
  BY DEF Add, Asking, Asked
<1>2. asked \in Nat /\ lists \in Seq(Ref) /\ page[node] \in Elements
  BY <1>1 DEF TypeOK
<1>3. all \in Seq(Ref) /\ Len(all) \in Nat
  BY <1>2, ReachableIs
<1> DEFINE a == Asked
           Holds(s, r) == \E l \in DOMAIN s : s[l] = r
           Once(s) == \A l, m \in DOMAIN s : s[l] = s[m] => l = m
<1> HIDE DEF all, a
<1>4. Once(lists) /\ \A x \in 1..asked : buckets[all[x]] # <<>> => Holds(lists, all[x])
  BY <1>1 DEF Queued, all
<1>5. /\ Once(lists')
      /\ \A r : Holds(lists, r) => Holds(lists', r)
      /\ buckets[a] # <<>> => Holds(lists', a)
  <2>1. CASE lists' = lists
    BY <1>1, <1>4, <2>1 DEF a
  <2>2. CASE lists' # lists
    <3>1. lists' = Append(lists, a) /\ ~Holds(lists, a) /\ a \in Ref
      <4>1. a = all[asked + 1] /\ asked + 1 \in 1..Len(all)
        BY <1>1, <1>2, <1>3 DEF a
      <4>2. a \in Ref
        BY <1>3, <4>1, ElementOfSeq
      <4> QED  BY <1>1, <2>2, <4>2 DEF a
    <3>2. /\ Len(lists) \in Nat /\ DOMAIN lists = 1..Len(lists)
          /\ DOMAIN lists' = 1..(Len(lists) + 1)
          /\ lists'[Len(lists) + 1] = a
          /\ \A l \in DOMAIN lists : lists'[l] = lists[l]
      BY <1>2, <3>1, AppendProperties
    <3>3. \A l \in DOMAIN lists' : l \in DOMAIN lists \/ l = Len(lists) + 1
      BY <3>2
    <3>4. Once(lists')
      BY <1>4, <3>1, <3>2, <3>3
    <3> QED  BY <3>2, <3>4
  <2> QED  BY <2>1, <2>2
<1>6. ASSUME NEW x \in 1..(asked + 1), buckets[all[x]] # <<>>
      PROVE  Holds(lists', all[x])
  <2>1. CASE x \in 1..asked
    BY <1>4, <1>5, <1>6, <2>1
  <2>2. CASE x = asked + 1
    <3>1. all[x] = a
      BY <1>1, <2>2 DEF a
    <3> QED  BY <1>5, <1>6, <3>1
  <2> QED  BY <1>2, <2>1, <2>2
<1>7. asked + 1 <= Len(all)
  BY <1>1, <1>2, <1>3
<1>8. Queued'
  BY <1>1, <1>5, <1>6, <1>7 DEF Queued, all
<1>9. Indexed' /\ Merged'
  BY <1>1 DEF Indexed, Merged, CandidatesAscend
<1> QED  BY <1>8, <1>9

(* Two lists never offer the same candidate: they are different buckets, and
   a rule is in the bucket of its key only. *)
LEMMA ListsDisjoint ==
    ASSUME TypeOK, Indexed, Queued,
           NEW l \in DOMAIN lists, NEW m \in DOMAIN lists,
           NEW x \in DOMAIN buckets[lists[l]], NEW y \in DOMAIN buckets[lists[m]],
           buckets[lists[l]][x] = buckets[lists[m]][y]
    PROVE  l = m
<1>1. lists[l] \in Ref /\ lists[m] \in Ref
  BY DEF TypeOK
<1>2. lists[l] = lists[m]
  BY <1>1 DEF Indexed
<1> QED  BY <1>2 DEF Queued

(* The smallest candidate leaves its list and joins the tested ones: it is
   above all of them, and below all that are to come. *)
LEMMA TakeStep ==
    ASSUME TypeOK, Indexed, Queued, Merged, NEW l \in DOMAIN lists, Take(l)
    PROVE  Indexed' /\ Queued' /\ Merged'
<1> DEFINE b(m) == buckets[lists[m]]
           c == Candidate(l)
<1>1. /\ phase = "merge" /\ phase' = "merge" /\ Pending(l)
      /\ \A m \in DOMAIN lists : Pending(m) =>
            Candidate(l) < Candidate(m) \/ (Candidate(l) = Candidate(m) /\ l <= m)
      /\ pos' = [pos EXCEPT ![l] = @ + 1]
      /\ tested' = Append(tested, c)
      /\ UNCHANGED <<sheet, page, indexed, buckets, node, asked, lists>>
  BY DEF Take, IsBest
<1>2. /\ indexed \in Nat /\ lists \in Seq(Ref) /\ buckets \in [Ref -> Seq(1..indexed)]
      /\ tested \in Seq(1..indexed) /\ lists # <<>>
      /\ DOMAIN pos = DOMAIN lists
      /\ \A m \in DOMAIN lists : pos[m] \in 0..Len(b(m))
  <2>1. lists # <<>> /\ indexed \in Nat
    BY DEF TypeOK
  <2> QED  BY <1>1, <2>1 DEF TypeOK
<1>3. \A m \in DOMAIN lists : /\ b(m) \in Seq(1..indexed) /\ Len(b(m)) \in Nat
                               /\ DOMAIN b(m) = 1..Len(b(m)) /\ pos[m] \in Nat
                               /\ \A x \in DOMAIN b(m) : b(m)[x] \in 1..indexed
  <2>1. \A m \in DOMAIN lists : b(m) \in Seq(1..indexed)
    BY <1>2
  <2> HIDE DEF b
  <2> QED  BY <1>2, <2>1, ElementOfSeq, SMTT(30)
<1>4. \A m \in DOMAIN lists : Pending(m) => /\ pos[m] + 1 \in DOMAIN b(m)
                                           /\ Candidate(m) = b(m)[pos[m] + 1]
  BY <1>3 DEF Pending, Candidate
<1>5. \A m \in DOMAIN lists : Pending(m) /\ m # l => c < Candidate(m)
  <2> SUFFICES ASSUME NEW m \in DOMAIN lists, Pending(m), m # l, c = Candidate(m) PROVE FALSE
    BY <1>1
  <2> QED  BY <1>1, <1>4, ListsDisjoint
<1>6. /\ Len(tested) \in Nat /\ DOMAIN tested = 1..Len(tested)
      /\ DOMAIN tested' = 1..(Len(tested) + 1)
      /\ tested'[Len(tested) + 1] = c
      /\ \A i \in DOMAIN tested : tested'[i] = tested[i] /\ tested[i] \in 1..indexed
      /\ c \in 1..indexed
  <2>1. c \in 1..indexed
    BY <1>1, <1>3, <1>4
  <2>2. Len(tested) \in Nat /\ DOMAIN tested = 1..Len(tested)
    BY <1>2
  <2>3. \A i \in DOMAIN tested : tested[i] \in 1..indexed
    BY <1>2, <2>2, ElementOfSeq
  <2> HIDE DEF c
  <2> QED  BY <1>1, <1>2, <2>1, <2>2, <2>3, AppendProperties
<1>7. \A i \in DOMAIN tested : tested[i] < c
  BY <1>1 DEF Merged
<1>8. \A i \in DOMAIN tested' : i \in DOMAIN tested \/ i = Len(tested) + 1
  BY <1>6
<1>9. \A i \in DOMAIN tested' : tested'[i] <= c /\ tested'[i] \in 1..indexed
  <2> HIDE DEF c
  <2>1. c \in Nat
    BY <1>2, <1>6
  <2> QED  BY <1>6, <1>7, <1>8, <2>1
<1>10. CandidatesAscend'
  <2> SUFFICES ASSUME NEW i \in DOMAIN tested', NEW j \in DOMAIN tested', i < j
               PROVE  tested'[i] < tested'[j]
    BY DEF CandidatesAscend
  <2>1. i \in DOMAIN tested
    BY <1>6
  <2>2. CASE j \in DOMAIN tested
    BY <1>6, <2>1, <2>2 DEF Merged, CandidatesAscend
  <2>3. CASE j = Len(tested) + 1
    BY <1>6, <1>7, <2>1, <2>3
  <2> QED  BY <1>8, <2>2, <2>3
<1>11. ASSUME NEW m \in DOMAIN lists, NEW x \in 1..pos'[m]
       PROVE  \E i \in DOMAIN tested' : tested'[i] = b(m)[x]
  <2>1. CASE x \in 1..pos[m]
    <3>1. PICK i \in DOMAIN tested : tested[i] = b(m)[x]
      BY <1>1, <2>1 DEF Merged
    <3> QED  BY <1>6, <3>1
  <2>2. CASE x \notin 1..pos[m]
    <3>1. m = l /\ x = pos[l] + 1
      <4>1. pos'[m] = IF m = l THEN pos[l] + 1 ELSE pos[m]
        BY <1>1, <1>2
      <4>2. pos[m] \in Nat /\ pos[l] \in Nat
        BY <1>3
      <4>3. m = l
        BY <2>2, <4>1
      <4> QED  BY <2>2, <4>1, <4>2, <4>3
    <3>2. c = b(l)[x]
      BY <1>1, <1>4, <3>1
    <3> QED  BY <1>6, <3>1, <3>2
  <2> QED  BY <2>1, <2>2
<1>12. ASSUME NEW m \in DOMAIN lists, Pending(m)', NEW i \in DOMAIN tested'
       PROVE  tested'[i] < Candidate(m)'
  <2>1. CASE m # l
    <3>1. Pending(m) /\ Candidate(m)' = Candidate(m)
      BY <1>1, <1>2, <1>12, <2>1 DEF Pending, Candidate
    <3>2. c < Candidate(m) /\ Candidate(m) \in 1..indexed
      BY <1>3, <1>4, <1>5, <2>1, <3>1
    <3> HIDE DEF c
    <3> QED  BY <1>2, <1>6, <1>9, <3>1, <3>2
  <2>2. CASE m = l
    <3>1. /\ pos[l] + 2 \in DOMAIN b(l) /\ Candidate(l)' = b(l)[pos[l] + 2]
          /\ pos[l] + 1 \in DOMAIN b(l) /\ c = b(l)[pos[l] + 1]
      <4>1. pos'[l] = pos[l] + 1
        BY <1>1, <1>2
      <4>2. pos[l] + 1 < Len(b(l))
        BY <1>1, <1>12, <2>2, <4>1 DEF Pending
      <4>3. Candidate(l)' = b(l)[(pos[l] + 1) + 1]
        BY <1>1, <4>1 DEF Candidate
      <4>4. /\ pos[l] \in Nat /\ Len(b(l)) \in Nat /\ DOMAIN b(l) = 1..Len(b(l))
            /\ pos[l] + 1 \in DOMAIN b(l) /\ c = b(l)[pos[l] + 1]
        BY <1>1, <1>3, <1>4
      <4>5. (pos[l] + 1) + 1 = pos[l] + 2 /\ pos[l] + 2 \in 1..Len(b(l))
        BY <4>2, <4>4
      <4> QED  BY <4>3, <4>4, <4>5
    <3>2. lists[l] \in Ref
      BY <1>2
    <3>3. pos[l] + 1 < pos[l] + 2
      BY <1>3
    <3>4. c < Candidate(l)' /\ Candidate(l)' \in 1..indexed
      BY <1>3, <3>1, <3>2, <3>3 DEF Indexed
    <3> HIDE DEF c
    <3> QED  BY <1>2, <1>6, <1>9, <2>2, <3>4
  <2> QED  BY <2>1, <2>2
<1>13. Merged'
  BY <1>1, <1>10, <1>11, <1>12 DEF Merged
<1>14. Indexed' /\ Queued'
  BY <1>1 DEF Indexed, Queued
<1> QED  BY <1>13, <1>14

(* The remaining steps move from one phase to the next. *)
LEMMA ControlStep ==
    ASSUME TypeOK, TypeOK', Indexed, Queued, Merged,
           IndexDone \/ Visit \/ Gathered \/ Leave \/ NextNode \/ Done \/ UNCHANGED vars
    PROVE  Indexed' /\ Queued' /\ Merged'
<1>1. CASE IndexDone
  BY <1>1 DEF IndexDone, Indexed, Queued, Merged, CandidatesAscend
<1>2. CASE Visit
  <2>1. /\ phase = "visit" /\ phase' = "gather" /\ asked' = 0 /\ lists' = <<>> /\ tested' = <<>>
        /\ UNCHANGED <<sheet, page, indexed, buckets, node>>
    BY <1>2 DEF Visit
  <2>2. page[node] \in Elements
    BY <1>2 DEF Visit, TypeOK
  <2>3. Len(reachable(page[node])) \in Nat
    BY <2>2, ReachableIs
  <2>4. DOMAIN lists' = {} /\ DOMAIN tested' = {} /\ 1..asked' = {}
    BY <2>1
  <2>5. Queued'
    BY <2>1, <2>3, <2>4 DEF Queued
  <2>6. Merged'
    BY <2>1, <2>4 DEF Merged, CandidatesAscend
  <2> QED  BY <2>1, <2>5, <2>6 DEF Indexed
<1>3. CASE Gathered
  <2>1. /\ phase = "gather" /\ phase' = "merge" /\ ~(asked < Len(reachable(page[node])))
        /\ pos' = IF lists = <<>> THEN pos ELSE [l \in DOMAIN lists |-> 0]
        /\ UNCHANGED <<sheet, page, indexed, buckets, node, asked, lists, tested>>
    BY <1>3 DEF Gathered, Asking
  <2>2. page[node] \in Elements /\ asked \in Nat /\ lists \in Seq(Ref)
    BY <2>1 DEF TypeOK
  <2>3. Len(reachable(page[node])) \in Nat
    BY <2>2, ReachableIs
  <2>4. asked = Len(reachable(page[node]))
    BY <2>1, <2>2, <2>3 DEF Queued
  <2>5. Queued'
    BY <2>1, <2>4 DEF Queued
  <2>6. tested = <<>> /\ DOMAIN tested = {}
    BY <2>1 DEF Merged
  <2>7. \A l \in DOMAIN lists : 1..pos'[l] = {}
    BY <2>1, <2>2
  <2>8. Merged'
    BY <2>1, <2>6, <2>7 DEF Merged, CandidatesAscend
  <2> QED  BY <2>1, <2>5, <2>8 DEF Indexed
<1>4. CASE Leave
  <2>1. /\ phase = "merge" /\ phase' = "left" /\ \A l \in DOMAIN lists : ~Pending(l)
        /\ UNCHANGED <<sheet, page, indexed, buckets, node, asked, lists, pos, tested>>
    BY <1>4 DEF Leave
  <2> QED  BY <2>1 DEF Indexed, Queued, Merged, CandidatesAscend, Pending, Candidate
<1>5. CASE NextNode
  BY <1>5 DEF NextNode, Indexed, Queued, Merged, CandidatesAscend
<1>6. CASE Done \/ UNCHANGED vars
  BY <1>6 DEF Done, vars, Indexed, Queued, Merged, CandidatesAscend, Pending, Candidate
<1> QED  BY <1>1, <1>2, <1>3, <1>4, <1>5, <1>6

(* The inductive invariant holds throughout. *)
THEOREM InductiveInvariant == Spec => []IInv
<1>1. ASSUME Init PROVE Indexed /\ Queued /\ Merged
  <2>1. /\ DOMAIN lists = {} /\ DOMAIN tested = {} /\ 1..indexed = {} /\ phase = "index"
        /\ \A ref \in Ref : DOMAIN buckets[ref] = {}
    BY <1>1 DEF Init
  <2> QED  BY <2>1 DEF Indexed, Queued, Merged, CandidatesAscend
<1>2. ASSUME TypeOK, TypeOK', Indexed, Queued, Merged, [Next]_vars
      PROVE  Indexed' /\ Queued' /\ Merged'
  <2>1. CASE IndexRule
    BY <1>2, <2>1, IndexRuleStep
  <2>2. CASE Add
    BY <1>2, <2>2, AddStep
  <2>3. CASE \E l \in DOMAIN lists : Take(l)
    BY <1>2, <2>3, TakeStep
  <2>4. CASE IndexDone \/ Visit \/ Gathered \/ Leave \/ NextNode \/ Done \/ UNCHANGED vars
    BY <1>2, <2>4, ControlStep
  <2> QED  BY <1>2, <2>1, <2>2, <2>3, <2>4 DEF Next
<1> QED  BY <1>1, <1>2, TypeCorrect, PTL DEF Spec, IInv

(***************************************************************************)
(* A visit tests its candidates in strictly ascending rule number: no rule *)
(* is applied twice to an element, and none after one that follows it in   *)
(* the stylesheet.                                                         *)
(***************************************************************************)
THEOREM MergeAscends == Spec => []CandidatesAscend
<1>1. IInv => CandidatesAscend
  BY DEF IInv, Merged
<1> QED  BY <1>1, InductiveInvariant, PTL

(* What forEach has called fn on when it returns are rules that match, and
   every match filed under a name without an escape is among them. *)
LEMMA CalledWhenLeft ==
    ASSUME IInv, phase = "left"
    PROVE  /\ Called \subseteq {k \in DOMAIN sheet : Match(sheet[k], page[node])}
           /\ \A k \in DOMAIN sheet :
                 KeyDenotesItself(sheet[k]) /\ Match(sheet[k], page[node]) => k \in Called
<1>1. /\ sheet \in Seq(Selectors) /\ Len(sheet) \in Nat /\ DOMAIN sheet = 1..Len(sheet)
      /\ indexed = Len(sheet) /\ tested \in Seq(1..indexed)
      /\ page[node] \in Elements /\ lists \in Seq(Ref)
  BY DEF IInv, TypeOK, Indexed
<1>2. ToSet(tested) = {tested[i] : i \in DOMAIN tested}
  BY DEF ToSet
<1>3. \A i \in DOMAIN tested : tested[i] \in DOMAIN sheet
  BY <1>1, ElementOfSeq
<1>4. ASSUME NEW k \in DOMAIN sheet, KeyDenotesItself(sheet[k]), Match(sheet[k], page[node])
      PROVE  \E i \in DOMAIN tested : tested[i] = k
  <2> DEFINE ref == rightmostKey(sheet[k])
             all == reachable(page[node])
  <2>1. sheet[k] \in Selectors
    BY <1>1, ElementOfSeq
  <2>2. PICK x \in DOMAIN all : all[x] = ref
    BY <1>1, <1>4, <2>1, MatchReaches
  <2>3. all \in Seq(Ref) /\ ref \in Ref
    BY <1>1, <2>1, ReachableIs, KeyIsRef
  <2>4. PICK y \in DOMAIN buckets[ref] : buckets[ref][y] = k
    BY <1>1 DEF IInv, Indexed
  <2> HIDE DEF ref, all
  <2>5. buckets[ref] \in Seq(1..indexed) /\ buckets[ref] # <<>>
    BY <2>3, <2>4 DEF IInv, TypeOK
  <2>6. x \in 1..asked
    BY <2>2, <2>3 DEF IInv, Queued, all
  <2>7. PICK l \in DOMAIN lists : lists[l] = ref
    BY <2>2, <2>5, <2>6 DEF IInv, Queued, all
  <2>8. pos[l] \in 0..Len(buckets[ref]) /\ ~(pos[l] < Len(buckets[ref]))
    <3>1. lists # <<>>
      BY <1>1
    <3>2. pos[l] \in 0..Len(buckets[lists[l]])
      BY <3>1 DEF IInv, TypeOK
    <3>3. ~Pending(l)
      BY DEF IInv, Merged
    <3> QED  BY <2>7, <3>2, <3>3 DEF Pending
  <2>9. y \in 1..pos[l]
    BY <2>4, <2>5, <2>8
  <2> QED  BY <2>4, <2>7, <2>9 DEF IInv, Merged
<1> QED  BY <1>2, <1>3, <1>4 DEF Called

(***************************************************************************)
(* The index loses no match: when forEach returns it has called fn on just *)
(* the rules that match the element. This holds for stylesheets in which   *)
(* no rule is filed under a name written with an escape; the run           *)
(* rule_index_escapes shows that it fails for others.                      *)
(***************************************************************************)
THEOREM IndexLosesNoMatch ==
    ASSUME KeysDenoteThemselves
    PROVE  Spec => []EveryMatchCalled
<1>1. ASSUME IInv PROVE EveryMatchCalled
  <2> SUFFICES ASSUME phase = "left"
               PROVE  Called = {k \in DOMAIN sheet : Match(sheet[k], page[node])}
    BY DEF EveryMatchCalled
  <2>1. \A k \in DOMAIN sheet : sheet[k] \in Selectors
    BY <1>1, ElementOfSeq DEF IInv, TypeOK
  <2> QED  BY <1>1, <2>1, CalledWhenLeft DEF KeysDenoteThemselves
<1> QED  BY <1>1, InductiveInvariant, PTL

(***************************************************************************)
(* In any stylesheet, an escape costs only the rule that is filed under    *)
(* it: every other match is called, and nothing that does not match.       *)
(***************************************************************************)
THEOREM EscapeCostsOnlyItsRule ==
    Spec => [](phase = "left" =>
                  /\ \A k \in DOMAIN sheet :
                        KeyDenotesItself(sheet[k]) /\ Match(sheet[k], page[node]) => k \in Called
                  /\ Called \subseteq {k \in DOMAIN sheet : Match(sheet[k], page[node])})
<1> DEFINE P == phase = "left" =>
                  /\ \A k \in DOMAIN sheet :
                        KeyDenotesItself(sheet[k]) /\ Match(sheet[k], page[node]) => k \in Called
                  /\ Called \subseteq {k \in DOMAIN sheet : Match(sheet[k], page[node])}
<1>1. IInv => P
  BY CalledWhenLeft
<1> QED  BY <1>1, InductiveInvariant, PTL

=============================================================================
