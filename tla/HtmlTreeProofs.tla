--------------------------- MODULE HtmlTreeProofs ---------------------------
(***************************************************************************)
(* Proofs about module HtmlTree, for documents of any length and names of  *)
(* any kind: the calls of the parser stay nested and their counts right,   *)
(* an element is namespaced exactly in foreign content, and the tree says  *)
(* all the document says, in its order.                                    *)
(***************************************************************************)
EXTENDS HtmlTree, InductionLemmas, FiniteSetTheorems

NodeSet == [kind : {"element"}, name : STRING, parent : Nat, ns : BOOLEAN,
            text : {<<>>}, made : {"tag", "orphan"}]
           \union {LeafNode(p) : p \in Nat}
           \union {TextNode(p, text) : p \in Nat, text \in Seq(Token)}

NoneOrRaw == {""} \union RawElements

FrameSet == [root : Nat, cur : Nat, foreign : Nat, input : Seq(Token), raw : NoneOrRaw]

(* A tree in document order, in which only elements have children. *)
Tree(t) == /\ t \in Seq(NodeSet)
           /\ \A n \in DOMAIN t : /\ t[n].parent \in 0 .. n - 1
                                  /\ t[n].parent # 0 => t[t[n].parent].kind = "element"

(* What a call from root on that appends to c holds open in t. *)
Open(t, root, c) == {k \in Above(t, c) : k > root}

ForeignIn(t, set) == {k \in set : t[k].name \in Foreign}

(* What comes next in call f is the text of an element of this name, its end
   tag, or nothing. *)
Awaits(f, name) == \/ f.raw = name
                   \/ f.raw = "" /\ (f.input = <<>> \/ Head(f.input) = End(name))

(* Call f appends inside t, below the element it was made for. The elements to
   parse again are never among those it holds open, but for the one whose text
   it is about to read. *)
Call(t, f) == /\ f.cur \in 0 .. Len(t)
              /\ \A k \in Above(t, f.cur) : t[k].kind = "element"
              /\ f.root = 0 \/ (f.root \in Above(t, f.cur) /\ t[f.root].name \in Reparse)
              /\ f.foreign = Cardinality(ForeignIn(t, Open(t, f.root, f.cur)))
              /\ \A k \in Open(t, f.root, f.cur) :
                    t[k].name \in Reparse => k = f.cur /\ Awaits(f, t[k].name)

(* Each call was made inside what its caller holds open. *)
Stacked(t, fs) == \A i, j \in DOMAIN fs : i < j =>
                     /\ fs[i].cur < fs[j].root
                     /\ Above(t, fs[i].cur) \subseteq Above(t, fs[j].root)

(* What follows an element that is still open, at c or around it, is inside it. *)
Encloses(t, c) == \A k \in Above(t, c) : \A m \in k + 1 .. Len(t) : k \in Above(t, m)

Parsing(t, fs) == /\ Tree(t)
                  /\ fs \in Seq(FrameSet) /\ fs # <<>>
                  /\ \A i \in DOMAIN fs : Call(t, fs[i])
                  /\ Stacked(t, fs)
                  /\ Encloses(t, Last(fs).cur)

(* What is left to be said: the inputs of the calls, the innermost first. *)
Left(fs) == FlattenSeq([i \in DOMAIN fs |-> Said(fs[Len(fs) + 1 - i].input)])

Accounted == IF phase = "source" THEN Said(doc) = SaidIn(nodes) \o Left(frames)
             ELSE Said(doc) = SaidIn(first)

Typed == /\ phase \in {"source", "rendered", "done"}
         /\ Parsing(nodes, frames)

-----------------------------------------------------------------------------
(* Ancestors *)

(* What the recursive function in Above is, up to node m. *)
AboveUpTo(t, m, f) == f = [k \in 0 .. m |-> IF k = 0 THEN {} ELSE {k} \union f[t[k].parent]]

(* The recursive function inside Above exists for every tree. *)
LEMMA AboveExists ==
    ASSUME NEW t, Tree(t)
    PROVE  \E f : AboveUpTo(t, Len(t), f)
<1> DEFINE G == {m \in Nat : m <= Len(t) => \E f : AboveUpTo(t, m, f)}
<1>0. Len(t) \in Nat /\ \A k \in 1 .. Len(t) : t[k].parent \in 0 .. k - 1
  BY DEF Tree
<1>1. 0 \in G
  <2>1. AboveUpTo(t, 0, [k \in 0 .. 0 |-> {}])
    BY DEF AboveUpTo
  <2> QED  BY <2>1
<1>2. ASSUME NEW m \in Nat, m \in G
      PROVE  m + 1 \in G
  <2> SUFFICES ASSUME m + 1 <= Len(t) PROVE \E f : AboveUpTo(t, m + 1, f)
    OBVIOUS
  <2>1. m <= Len(t)
    BY <1>0
  <2>2. PICK f : AboveUpTo(t, m, f)
    BY <1>2, <2>1
  <2> DEFINE g == [k \in 0 .. m + 1 |->
                     IF k = m + 1 THEN {k} \union f[t[k].parent] ELSE f[k]]
  <2>3. \A k \in 0 .. m : f[k] = IF k = 0 THEN {} ELSE {k} \union f[t[k].parent]
    BY <2>2 DEF AboveUpTo
  <2>4. \A k \in 1 .. m + 1 : t[k].parent \in 0 .. m /\ t[k].parent # m + 1
    BY <1>0
  <2>5. \A k \in 1 .. m + 1 : g[t[k].parent] = f[t[k].parent]
    BY <2>4
  <2>8. /\ g[m + 1] = {m + 1} \union f[t[m + 1].parent]
        /\ \A k \in 0 .. m : g[k] = f[k]
    OBVIOUS
  <2>9. g = [k \in 0 .. m + 1 |-> g[k]]
    OBVIOUS
  <2> HIDE DEF g
  <2>6. \A k \in 0 .. m + 1 : g[k] = IF k = 0 THEN {} ELSE {k} \union g[t[k].parent]
    <3> TAKE k \in 0 .. m + 1
    <3>1. CASE k = 0
      <4>1. k \in 0 .. m
        BY <3>1
      <4> QED  BY <2>3, <2>8, <3>1, <4>1
    <3>2. CASE k = m + 1
      <4>1. k # 0 /\ k \in 1 .. m + 1
        BY <3>2
      <4>2. g[k] = {k} \union f[t[k].parent]
        BY <2>8, <3>2
      <4> QED  BY <2>5, <4>1, <4>2
    <3>3. CASE k # 0 /\ k # m + 1
      <4>1. k \in 0 .. m /\ k \in 1 .. m + 1
        BY <3>3
      <4>2. g[k] = {k} \union f[t[k].parent]
        BY <2>3, <2>8, <3>3, <4>1
      <4> QED  BY <2>5, <3>3, <4>1, <4>2
    <3> QED  BY <3>1, <3>2, <3>3
  <2>7. AboveUpTo(t, m + 1, g)
    BY <2>6, <2>9 DEF AboveUpTo
  <2> QED  BY <2>7
<1> HIDE DEF G
<1>3. Len(t) \in G
  BY <1>0, <1>1, <1>2, SetInduction
<1> QED  BY <1>0, <1>3 DEF G

(* Above satisfies its recursion. *)
LEMMA AboveIs ==
    ASSUME NEW t, Tree(t)
    PROVE  /\ Above(t, 0) = {}
           /\ \A n \in 1 .. Len(t) : Above(t, n) = {n} \union Above(t, t[n].parent)
<1> DEFINE F == CHOOSE f : AboveUpTo(t, Len(t), f)
<1>1. AboveUpTo(t, Len(t), F)
  BY AboveExists, Zenon
<1>2. \A n : Above(t, n) = F[n]
  BY Zenon DEF Above, AboveUpTo
<1> HIDE DEF F
<1>3. Len(t) \in Nat /\ \A k \in 1 .. Len(t) : t[k].parent \in 0 .. k - 1
  BY DEF Tree
<1>4. \A k \in 0 .. Len(t) : F[k] = IF k = 0 THEN {} ELSE {k} \union F[t[k].parent]
  BY <1>1 DEF AboveUpTo
<1>5. Above(t, 0) = {}
  <2>1. 0 \in 0 .. Len(t)
    BY <1>3
  <2>2. F[0] = {}
    BY <1>4, <2>1
  <2> QED  BY <1>2, <2>2
<1>6. ASSUME NEW n \in 1 .. Len(t)
      PROVE  Above(t, n) = {n} \union Above(t, t[n].parent)
  <2>1. n \in 0 .. Len(t) /\ n # 0
    BY <1>3
  <2>2. F[n] = {n} \union F[t[n].parent]
    BY <1>4, <2>1
  <2> QED  BY <1>2, <2>2
<1> QED  BY <1>5, <1>6

(* The ancestors of a node come before it, and those of an ancestor are those
   that come before the ancestor. *)
LEMMA AboveChain ==
    ASSUME NEW t, Tree(t), NEW n \in 0 .. Len(t)
    PROVE  /\ Above(t, n) \subseteq 1 .. n
           /\ n # 0 => n \in Above(t, n)
           /\ \A k \in Above(t, n) : Above(t, k) = {m \in Above(t, n) : m <= k}
<1> DEFINE P(i) == /\ Above(t, i) \subseteq 1 .. i
                   /\ i # 0 => i \in Above(t, i)
                   /\ \A k \in Above(t, i) : Above(t, k) = {m \in Above(t, i) : m <= k}
           G == {m \in Nat : \A i \in 0 .. m : i <= Len(t) => P(i)}
<1>0. Len(t) \in Nat /\ \A k \in 1 .. Len(t) : t[k].parent \in 0 .. k - 1
  BY DEF Tree
<1>1. 0 \in G
  <2>1. P(0)
    BY AboveIs
  <2> HIDE DEF P
  <2> QED  BY <2>1
<1>2. ASSUME NEW m \in Nat, m \in G
      PROVE  m + 1 \in G
  <2> DEFINE x == m + 1
             p == t[x].parent
  <2>1. ASSUME x <= Len(t) PROVE P(x)
    <3>1. x \in 1 .. Len(t) /\ p \in 0 .. m /\ p <= Len(t) /\ p \in 0 .. Len(t)
      BY <1>0, <2>1
    <3>2. P(p)
      <4> HIDE DEF P, p
      <4> QED  BY <1>2, <3>1
    <3>3. Above(t, x) = {x} \union Above(t, p)
      BY <3>1, AboveIs
    <3>4. Above(t, p) \subseteq 1 .. m
      BY <3>1, <3>2
    <3>5. Above(t, x) \subseteq 1 .. x /\ x \in Above(t, x)
      BY <3>3, <3>4
    <3>6. ASSUME NEW k \in Above(t, x)
          PROVE  Above(t, k) = {j \in Above(t, x) : j <= k}
      <4>1. CASE k = x
        BY <3>5, <4>1
      <4>2. CASE k # x
        <5>1. k \in Above(t, p) /\ k \in 1 .. m
          BY <3>3, <3>4, <4>2
        <5>2. Above(t, k) = {j \in Above(t, p) : j <= k}
          BY <3>2, <5>1
        <5>3. ~(x <= k)
          BY <5>1
        <5> QED  BY <3>3, <5>2, <5>3
      <4> QED  BY <4>1, <4>2
    <3> QED  BY <3>5, <3>6
  <2> HIDE DEF P
  <2>2. \A i \in 0 .. m + 1 : i \in 0 .. m \/ i = m + 1
    OBVIOUS
  <2> QED  BY <1>2, <2>1, <2>2
<1> HIDE DEF G
<1>3. n \in G
  BY <1>1, <1>2, SetInduction
<1> QED  BY <1>3 DEF G

(* Two trees that agree on the nodes up to m agree on their ancestors. *)
LEMMA AboveLocal ==
    ASSUME NEW t, Tree(t), NEW u, Tree(u), NEW m \in Nat, m <= Len(t), m <= Len(u),
           \A k \in 1 .. m : t[k].parent = u[k].parent
    PROVE  \A n \in 0 .. m : Above(t, n) = Above(u, n)
<1> DEFINE G == {j \in Nat : \A i \in 0 .. j : i <= m => Above(t, i) = Above(u, i)}
<1>0. /\ Len(t) \in Nat /\ \A k \in 1 .. Len(t) : t[k].parent \in 0 .. k - 1
      /\ Len(u) \in Nat
  BY DEF Tree
<1>1. 0 \in G
  BY AboveIs
<1>2. ASSUME NEW j \in Nat, j \in G
      PROVE  j + 1 \in G
  <2> DEFINE x == j + 1
  <2>1. ASSUME x <= m PROVE Above(t, x) = Above(u, x)
    <3>1. /\ x \in 1 .. Len(t) /\ x \in 1 .. Len(u) /\ x \in 1 .. m
          /\ t[x].parent = u[x].parent /\ t[x].parent \in 0 .. j /\ t[x].parent <= m
      BY <1>0, <2>1
    <3> DEFINE p == t[x].parent
    <3>2. p \in 0 .. j /\ p <= m
      BY <3>1
    <3>3. Above(t, x) = {x} \union Above(t, p) /\ Above(u, x) = {x} \union Above(u, p)
      BY <3>1, AboveIs
    <3> HIDE DEF p
    <3>4. Above(t, p) = Above(u, p)
      BY <1>2, <3>2
    <3> QED  BY <3>3, <3>4
  <2>2. \A i \in 0 .. j + 1 : i \in 0 .. j \/ i = j + 1
    OBVIOUS
  <2> QED  BY <1>2, <2>1, <2>2
<1> HIDE DEF G
<1>3. m \in G
  BY <1>1, <1>2, SetInduction
<1> QED  BY <1>3 DEF G

(* Between a node and an ancestor of it there is a child of the ancestor. *)
LEMMA ChildToward ==
    ASSUME NEW t, Tree(t), NEW n \in 0 .. Len(t), NEW a \in Above(t, n), a # n
    PROVE  \E c \in Above(t, n) : t[c].parent = a
<1> DEFINE G == {j \in Nat : \A i \in 0 .. j : i <= Len(t) =>
                    (a \in Above(t, i) /\ a # i => \E c \in Above(t, i) : t[c].parent = a)}
<1>0. Len(t) \in Nat /\ \A k \in 1 .. Len(t) : t[k].parent \in 0 .. k - 1
  BY DEF Tree
<1>1. 0 \in G
  BY AboveIs
<1>2. ASSUME NEW j \in Nat, j \in G
      PROVE  j + 1 \in G
  <2> DEFINE x == j + 1
  <2>1. ASSUME x <= Len(t), a \in Above(t, x), a # x
        PROVE  \E c \in Above(t, x) : t[c].parent = a
    <3>1. x \in 1 .. Len(t) /\ t[x].parent \in 0 .. j /\ t[x].parent <= Len(t)
      BY <1>0, <2>1
    <3>2. Above(t, x) = {x} \union Above(t, t[x].parent)
      BY <3>1, AboveIs
    <3>3. a \in Above(t, t[x].parent)
      BY <2>1, <3>2
    <3>4. CASE t[x].parent = a
      BY <3>2, <3>4
    <3>5. CASE t[x].parent # a
      <4>1. \E c \in Above(t, t[x].parent) : t[c].parent = a
        BY <1>2, <3>1, <3>3, <3>5
      <4> QED  BY <3>2, <4>1
    <3> QED  BY <3>4, <3>5
  <2>2. \A i \in 0 .. j + 1 : i \in 0 .. j \/ i = j + 1
    OBVIOUS
  <2> QED  BY <1>2, <2>1, <2>2
<1> HIDE DEF G
<1>3. n \in G
  BY <1>1, <1>2, SetInduction
<1> QED  BY <1>3 DEF G

(* A non-empty set of numbers up to n has a greatest element. *)
LEMMA MaxIs ==
    ASSUME NEW n \in Nat, NEW S \in SUBSET (0 .. n), S # {}
    PROVE  Max(S) \in S /\ \A y \in S : Max(S) >= y
<1> DEFINE T == {n - x : x \in S}
<1>1. T \in SUBSET Nat /\ T # {} /\ \A x \in S : n - x \in T
  <2>1. \A x \in S : n - x \in Nat
    OBVIOUS
  <2> QED  BY <2>1
<1> HIDE DEF T
<1>2. PICK y \in T : \A z \in T : y <= z
  BY <1>1, Least
<1>3. PICK x \in S : y = n - x
  BY DEF T
<1>4. \A z \in S : x >= z
  <2> TAKE z \in S
  <2>1. n - x <= n - z
    BY <1>1, <1>2, <1>3
  <2> QED  BY <2>1
<1>5. \E x_1 \in S : \A z \in S : x_1 >= z
  BY <1>4
<1> QED  BY <1>5, Zenon DEF Max

(* What is open within a call is a part of what is above the node it appends
   to, and its element lies at or above that node. *)
LEMMA CallBounds ==
    ASSUME NEW t, Tree(t), NEW f \in FrameSet, Call(t, f)
    PROVE  /\ Len(t) \in Nat
           /\ f.root \in Nat /\ f.cur \in Nat /\ f.root <= f.cur /\ f.cur <= Len(t)
           /\ Above(t, f.cur) \subseteq 1 .. f.cur
           /\ Above(t, f.root) \subseteq Above(t, f.cur)
           /\ Open(t, f.root, f.cur) \subseteq Above(t, f.cur)
<1>1. f.root \in Nat /\ f.cur \in 0 .. Len(t) /\ Len(t) \in Nat
  BY DEF FrameSet, Call, Tree
<1>2. Above(t, f.cur) \subseteq 1 .. f.cur
  BY <1>1, AboveChain
<1>3. CASE f.root = 0
  <2>1. Above(t, f.root) = {}
    BY <1>3, AboveIs
  <2> QED  BY <1>1, <1>2, <1>3, <2>1 DEF Open
<1>4. CASE f.root \in Above(t, f.cur)
  <2>1. Above(t, f.root) = {m \in Above(t, f.cur) : m <= f.root}
    BY <1>1, <1>4, AboveChain
  <2> QED  BY <1>1, <1>2, <1>4, <2>1 DEF Open
<1> QED  BY <1>3, <1>4 DEF Call

(* A call in a tree is one in any other that agrees on the nodes it is about. *)
LEMMA CallLocal ==
    ASSUME NEW t, Tree(t), NEW u, Tree(u), NEW m \in Nat, m <= Len(t), m <= Len(u),
           \A k \in 1 .. m : t[k] = u[k],
           NEW f \in FrameSet, Call(t, f), f.cur <= m
    PROVE  Call(u, f) /\ Above(t, f.cur) = Above(u, f.cur) /\ Above(t, f.root) = Above(u, f.root)
<1>1. /\ Len(u) \in Nat /\ f.cur \in 0 .. m /\ f.root \in 0 .. m
      /\ Above(t, f.cur) \subseteq 1 .. m
  <2>1. Len(u) \in Nat
    BY DEF Tree
  <2> QED  BY <2>1, CallBounds
<1>2. \A n \in 0 .. m : Above(t, n) = Above(u, n)
  <2>1. \A k \in 1 .. m : t[k].parent = u[k].parent
    OBVIOUS
  <2> QED  BY <2>1, AboveLocal
<1>3. Above(t, f.cur) = Above(u, f.cur) /\ Above(t, f.root) = Above(u, f.root)
  BY <1>1, <1>2
<1>4. Open(t, f.root, f.cur) = Open(u, f.root, f.cur) /\ Open(t, f.root, f.cur) \subseteq 1 .. m
  BY <1>1, <1>3 DEF Open
<1>5. ForeignIn(t, Open(t, f.root, f.cur)) = ForeignIn(u, Open(u, f.root, f.cur))
  BY <1>4 DEF ForeignIn
<1>6. f.cur \in 0 .. Len(u)
  BY <1>1
<1>7. \A k \in Above(u, f.cur) : u[k].kind = "element"
  BY <1>1, <1>3 DEF Call
<1>8. f.root = 0 \/ (f.root \in Above(u, f.cur) /\ u[f.root].name \in Reparse)
  BY <1>1, <1>3 DEF Call
<1>9. f.foreign = Cardinality(ForeignIn(u, Open(u, f.root, f.cur)))
  BY <1>5 DEF Call
<1>10. \A k \in Open(u, f.root, f.cur) : u[k].name \in Reparse => k = f.cur /\ Awaits(f, u[k].name)
  BY <1>4 DEF Call
<1> QED  BY <1>3, <1>6, <1>7, <1>8, <1>9, <1>10 DEF Call

(* The order of the calls: the callers append above the element a call is for. *)
LEMMA CallersAbove ==
    ASSUME NEW t, NEW fs, Parsing(t, fs)
    PROVE  /\ Len(fs) \in Nat \ {0} /\ DOMAIN fs = 1 .. Len(fs) /\ Last(fs) = fs[Len(fs)]
           /\ \A i \in 1 .. Len(fs) : fs[i] \in FrameSet /\ Call(t, fs[i])
           /\ \A i \in 1 .. Len(fs) : i < Len(fs) =>
                 /\ fs[i].cur < Last(fs).root
                 /\ Above(t, fs[i].cur) \subseteq Above(t, Last(fs).root)
                 /\ Above(t, fs[i].cur) \subseteq Above(t, Last(fs).cur)
<1>1. fs \in Seq(FrameSet) /\ fs # <<>> /\ Tree(t) /\ \A i \in DOMAIN fs : Call(t, fs[i])
  BY DEF Parsing
<1>2. Len(fs) \in Nat \ {0} /\ DOMAIN fs = 1 .. Len(fs) /\ Last(fs) = fs[Len(fs)]
  BY <1>1 DEF Last
<1>3. \A i \in 1 .. Len(fs) : fs[i] \in FrameSet /\ Call(t, fs[i])
  BY <1>1, <1>2
<1>4. ASSUME NEW i \in 1 .. Len(fs), i < Len(fs)
      PROVE  /\ fs[i].cur < Last(fs).root
             /\ Above(t, fs[i].cur) \subseteq Above(t, Last(fs).root)
             /\ Above(t, fs[i].cur) \subseteq Above(t, Last(fs).cur)
  <2>1. i \in DOMAIN fs /\ Len(fs) \in DOMAIN fs
    BY <1>2
  <2>2. /\ fs[i].cur < Last(fs).root
        /\ Above(t, fs[i].cur) \subseteq Above(t, Last(fs).root)
    BY <1>2, <1>4, <2>1 DEF Parsing, Stacked
  <2>3. Above(t, Last(fs).root) \subseteq Above(t, Last(fs).cur)
    BY <1>1, <1>2, <1>3, CallBounds
  <2> QED  BY <2>2, <2>3
<1> QED  BY <1>2, <1>3, <1>4

(* A node inside another is inside all that encloses the other. *)
LEMMA EnclosesWithin ==
    ASSUME NEW t, NEW b, NEW c, Encloses(t, c), Above(t, b) \subseteq Above(t, c)
    PROVE  Encloses(t, b)
  BY DEF Encloses

(* The running call may go on, and the tree change below the element it was
   made for: that concerns no other call. *)
LEMMA Goes ==
    ASSUME NEW t, NEW fs, Parsing(t, fs), NEW u, Tree(u),
           NEW m \in Nat, m <= Len(t), m <= Len(u), \A k \in 1 .. m : t[k] = u[k],
           NEW g \in FrameSet, g.root = Last(fs).root, g.root <= m,
           Call(u, g), Encloses(u, g.cur)
    PROVE  Parsing(u, [fs EXCEPT ![Len(fs)] = g])
<1> DEFINE n == Len(fs)
           gs == [fs EXCEPT ![Len(fs)] = g]
<1>1. n \in Nat \ {0} /\ DOMAIN fs = 1 .. n /\ Last(fs) = fs[n] /\ Tree(t) /\ fs \in Seq(FrameSet)
  BY CallersAbove DEF Parsing
<1>2. /\ gs \in Seq(FrameSet) /\ DOMAIN gs = 1 .. n /\ Len(gs) = n /\ gs # <<>>
      /\ gs[n] = g /\ Last(gs) = g
      /\ \A i \in 1 .. n : i < n => gs[i] = fs[i]
  <2>1. gs \in Seq(FrameSet) /\ Len(gs) = n
    BY <1>1
  <2>2. gs[n] = g /\ \A i \in 1 .. n : i < n => gs[i] = fs[i]
    BY <1>1
  <2>3. DOMAIN gs = 1 .. n
    BY <1>1
  <2> HIDE DEF gs
  <2>4. gs # <<>> /\ Last(gs) = gs[n]
    BY <1>1, <2>1 DEF Last
  <2> QED  BY <2>1, <2>2, <2>3, <2>4
<1> HIDE DEF gs, n
<1>3. ASSUME NEW i \in 1 .. n, i < n
      PROVE  /\ Call(t, fs[i]) /\ fs[i] \in FrameSet
             /\ fs[i].cur < g.root /\ fs[i].cur <= m /\ fs[i].cur \in Nat
             /\ Above(t, fs[i].cur) \subseteq Above(t, g.root)
  <2>1. /\ Call(t, fs[i]) /\ fs[i] \in FrameSet
        /\ fs[i].cur < g.root
        /\ Above(t, fs[i].cur) \subseteq Above(t, g.root)
    BY SMTT(20), <1>1, <1>3, CallersAbove
  <2>2. fs[i].cur \in Nat /\ g.root \in Nat
    BY <2>1 DEF FrameSet
  <2> QED  BY <2>1, <2>2
<1>4. ASSUME NEW i \in 1 .. n, i < n
      PROVE  /\ Call(u, fs[i])
             /\ Above(t, fs[i].cur) = Above(u, fs[i].cur)
             /\ Above(t, fs[i].root) = Above(u, fs[i].root)
  BY <1>1, <1>3, <1>4, CallLocal
<1>5. \A i \in DOMAIN gs : Call(u, gs[i])
  <2> TAKE i \in DOMAIN gs
  <2>1. i \in 1 .. n /\ (i < n \/ i = n)
    BY <1>1, <1>2
  <2> QED  BY <1>2, <1>4, <2>1
<1>6. Above(t, g.root) = Above(u, g.root)
  <2>1. \A k \in 1 .. m : t[k].parent = u[k].parent
    OBVIOUS
  <2>2. g.root \in 0 .. m
    BY DEF FrameSet
  <2> QED  BY <1>1, <2>1, <2>2, AboveLocal
<1>7. Stacked(u, gs)
  <2> SUFFICES ASSUME NEW i \in 1 .. n, NEW j \in 1 .. n, i < j
               PROVE  /\ gs[i].cur < gs[j].root
                      /\ Above(u, gs[i].cur) \subseteq Above(u, gs[j].root)
    BY <1>2 DEF Stacked
  <2>1. i < n /\ gs[i] = fs[i]
    BY <1>1, <1>2
  <2>2. CASE j = n
    BY <1>2, <1>3, <1>4, <1>6, <2>1, <2>2
  <2>3. CASE j # n
    <3>1. j < n /\ gs[j] = fs[j] /\ i \in DOMAIN fs /\ j \in DOMAIN fs
      BY <1>1, <1>2, <2>3
    <3>2. fs[i].cur < fs[j].root /\ Above(t, fs[i].cur) \subseteq Above(t, fs[j].root)
      BY <3>1 DEF Parsing, Stacked
    <3> QED  BY <1>4, <2>1, <3>1, <3>2
  <2> QED  BY <2>2, <2>3
<1>8. Parsing(u, gs)
  BY <1>2, <1>5, <1>7 DEF Parsing
<1> QED  BY <1>8 DEF gs

(* A call is made for an element inside what its caller holds open. *)
LEMMA Calls ==
    ASSUME NEW t, NEW fs, Parsing(t, fs), NEW g \in FrameSet, Call(t, g),
           Last(fs).cur < g.root, Above(t, Last(fs).cur) \subseteq Above(t, g.root),
           Encloses(t, g.cur)
    PROVE  Parsing(t, Append(fs, g))
<1> DEFINE n == Len(fs)
           gs == Append(fs, g)
<1>1. n \in Nat \ {0} /\ DOMAIN fs = 1 .. n /\ Last(fs) = fs[n] /\ Tree(t) /\ fs \in Seq(FrameSet)
  BY CallersAbove DEF Parsing
<1>2. /\ gs \in Seq(FrameSet) /\ DOMAIN gs = 1 .. n + 1 /\ Len(gs) = n + 1 /\ gs # <<>>
      /\ gs[n + 1] = g /\ Last(gs) = g
      /\ \A i \in 1 .. n : gs[i] = fs[i]
  BY <1>1 DEF Last
<1> HIDE DEF gs, n
<1>3. \A i \in DOMAIN gs : Call(t, gs[i])
  <2> TAKE i \in DOMAIN gs
  <2>1. i \in 1 .. n \/ i = n + 1
    BY <1>1, <1>2
  <2>2. \A k \in 1 .. n : Call(t, fs[k])
    BY CallersAbove DEF n
  <2> QED  BY <1>2, <2>1, <2>2
<1>4. ASSUME NEW i \in 1 .. n
      PROVE  fs[i].cur < g.root /\ Above(t, fs[i].cur) \subseteq Above(t, g.root)
  <2>1. CASE i = n
    BY <1>1, <2>1
  <2>2. CASE i # n
    <3>1. i < n
      BY <1>1, <2>2
    <3>2. /\ fs[i].cur < Last(fs).root
          /\ Above(t, fs[i].cur) \subseteq Above(t, Last(fs).cur)
          /\ Last(fs) \in FrameSet /\ Call(t, Last(fs)) /\ fs[i] \in FrameSet
      BY <1>1, <3>1, CallersAbove
    <3>3. Last(fs).root <= Last(fs).cur
      BY <1>1, <3>2, CallBounds
    <3>4. /\ fs[i].cur \in Nat /\ Last(fs).root \in Nat /\ Last(fs).cur \in Nat /\ g.root \in Nat
      BY <3>2 DEF FrameSet
    <3> QED  BY <3>2, <3>3, <3>4
  <2> QED  BY <2>1, <2>2
<1>5. Stacked(t, gs)
  <2> SUFFICES ASSUME NEW i \in 1 .. n + 1, NEW j \in 1 .. n + 1, i < j
               PROVE  /\ gs[i].cur < gs[j].root
                      /\ Above(t, gs[i].cur) \subseteq Above(t, gs[j].root)
    BY <1>2 DEF Stacked
  <2>1. i \in 1 .. n /\ gs[i] = fs[i]
    BY <1>1, <1>2
  <2>2. CASE j = n + 1
    BY <1>2, <1>4, <2>1, <2>2
  <2>3. CASE j # n + 1
    <3>1. j \in 1 .. n /\ gs[j] = fs[j]
      BY <1>1, <1>2, <2>3
    <3> QED  BY <1>1, <2>1, <3>1 DEF Parsing, Stacked
  <2> QED  BY <2>2, <2>3
<1>6. Parsing(t, gs)
  BY <1>1, <1>2, <1>3, <1>5 DEF Parsing
<1> QED  BY <1>6 DEF gs

(* A call that returns leaves its caller as it was. *)
LEMMA Returns ==
    ASSUME NEW t, NEW fs, Parsing(t, fs), Len(fs) > 1
    PROVE  Parsing(t, Front(fs))
<1> DEFINE n == Len(fs)
           gs == Front(fs)
<1>1. n \in Nat \ {0} /\ DOMAIN fs = 1 .. n /\ Last(fs) = fs[n] /\ Tree(t) /\ fs \in Seq(FrameSet)
  BY CallersAbove DEF Parsing
<1>2. /\ gs \in Seq(FrameSet) /\ Len(gs) = n - 1 /\ DOMAIN gs = 1 .. n - 1 /\ gs # <<>>
      /\ Last(gs) = fs[n - 1]
      /\ \A i \in 1 .. n - 1 : gs[i] = fs[i]
  <2>1. /\ gs \in Seq(FrameSet) /\ Len(gs) = n - 1
        /\ \A i \in 1 .. n - 1 : gs[i] = fs[i]
    BY <1>1 DEF Front
  <2> HIDE DEF gs
  <2>2. n - 1 \in Nat \ {0} /\ n - 1 \in 1 .. n - 1
    BY <1>1
  <2>3. gs # <<>> /\ Last(gs) = gs[n - 1] /\ DOMAIN gs = 1 .. n - 1
    BY <2>1, <2>2 DEF Last
  <2> QED  BY <2>1, <2>2, <2>3
<1>3. n - 1 \in 1 .. n /\ n - 1 < n /\ \A i \in 1 .. n - 1 : i \in DOMAIN fs
  BY <1>1
<1> HIDE DEF gs, n
<1>4. \A i \in DOMAIN gs : Call(t, gs[i])
  BY <1>2, <1>3 DEF Parsing
<1>5. Stacked(t, gs)
  BY <1>2, <1>3 DEF Parsing, Stacked
<1>6. Encloses(t, fs[n - 1].cur)
  <2>1. Above(t, fs[n - 1].cur) \subseteq Above(t, Last(fs).cur)
    BY <1>3, CallersAbove
  <2> QED  BY <2>1, EnclosesWithin DEF Parsing
<1>7. Parsing(t, gs)
  BY <1>1, <1>2, <1>4, <1>5, <1>6 DEF Parsing
<1> QED  BY <1>7 DEF gs

-----------------------------------------------------------------------------
(* The tree grows and shrinks at its end *)

(* A node may be appended below any element. *)
LEMMA GrowTree ==
    ASSUME NEW t, Tree(t), NEW node \in NodeSet, node.parent \in 0 .. Len(t),
           node.parent # 0 => t[node.parent].kind = "element"
    PROVE  /\ Tree(Append(t, node))
           /\ Len(Append(t, node)) = Len(t) + 1
           /\ DOMAIN Append(t, node) = 1 .. Len(t) + 1
           /\ \A k \in 1 .. Len(t) : Append(t, node)[k] = t[k]
           /\ Append(t, node)[Len(t) + 1] = node
           /\ \A k \in 0 .. Len(t) : Above(Append(t, node), k) = Above(t, k)
           /\ Above(Append(t, node), Len(t) + 1) = {Len(t) + 1} \union Above(t, node.parent)
<1> DEFINE u == Append(t, node)
           n == Len(t)
<1>1. t \in Seq(NodeSet) /\ n \in Nat /\ DOMAIN t = 1 .. n
  BY DEF Tree
<1>2. /\ u \in Seq(NodeSet) /\ Len(u) = n + 1 /\ DOMAIN u = 1 .. n + 1
      /\ u[n + 1] = node /\ \A k \in 1 .. n : u[k] = t[k]
  BY <1>1
<1> HIDE DEF u
<1>3. ASSUME NEW k \in 1 .. n + 1
      PROVE  /\ u[k].parent \in 0 .. k - 1
             /\ u[k].parent # 0 => u[u[k].parent].kind = "element"
  <2>1. CASE k = n + 1
    <3>1. u[k] = node /\ u[k].parent \in 0 .. n
      BY <1>2, <2>1
    <3>2. u[k].parent # 0 => u[u[k].parent] = t[node.parent]
      BY <1>1, <1>2, <3>1
    <3> QED  BY <1>1, <2>1, <3>1, <3>2
  <2>2. CASE k # n + 1
    <3>1. k \in 1 .. n /\ u[k] = t[k]
      BY <1>1, <1>2, <2>2
    <3>2. t[k].parent \in 0 .. k - 1 /\ (t[k].parent # 0 => t[t[k].parent].kind = "element")
      BY <1>1, <3>1 DEF Tree
    <3>3. t[k].parent # 0 => t[k].parent \in 1 .. n
      BY <1>1, <3>1, <3>2
    <3>4. t[k].parent # 0 => u[t[k].parent] = t[t[k].parent]
      BY <1>2, <3>3
    <3> QED  BY <3>1, <3>2, <3>4
  <2> QED  BY <2>1, <2>2
<1>4. Tree(u)
  BY <1>2, <1>3 DEF Tree
<1>5. \A k \in 0 .. n : Above(u, k) = Above(t, k)
  <2>1. \A k \in 1 .. n : t[k].parent = u[k].parent
    BY <1>2
  <2> QED  BY <1>1, <1>2, <1>4, <2>1, AboveLocal
<1>6. Above(u, n + 1) = {n + 1} \union Above(t, node.parent)
  <2>1. n + 1 \in 1 .. Len(u)
    BY <1>1, <1>2
  <2>2. Above(u, n + 1) = {n + 1} \union Above(u, node.parent)
    BY <1>2, <1>4, <2>1, AboveIs
  <2> QED  BY <1>5, <2>2
<1> QED  BY <1>2, <1>4, <1>5, <1>6 DEF u

(* What is open stays around what is appended inside it. *)
LEMMA GrowEncloses ==
    ASSUME NEW t, Tree(t), NEW node \in NodeSet, node.parent \in 0 .. Len(t),
           node.parent # 0 => t[node.parent].kind = "element",
           Encloses(t, node.parent)
    PROVE  /\ Encloses(Append(t, node), node.parent)
           /\ Encloses(Append(t, node), Len(t) + 1)
<1> DEFINE u == Append(t, node)
           n == Len(t)
           p == node.parent
<1>1. n \in Nat /\ Above(t, p) \subseteq 1 .. p
  BY AboveChain DEF Tree
<1>2. /\ Len(u) = n + 1
      /\ \A k \in 0 .. n : Above(u, k) = Above(t, k)
      /\ Above(u, n + 1) = {n + 1} \union Above(t, p)
  BY GrowTree
<1> HIDE DEF u, n
<1>3. p \in 0 .. n
  BY DEF n
<1>4. ASSUME NEW k \in Above(t, p), NEW m \in k + 1 .. n + 1
      PROVE  k \in Above(u, m)
  <2>1. k \in 1 .. n
    BY <1>1, <1>3
  <2>2. CASE m = n + 1
    BY <1>2, <2>2
  <2>3. CASE m # n + 1
    <3>1. m \in k + 1 .. n /\ m \in 0 .. n
      BY <1>1, <2>1, <2>3
    <3>2. k \in Above(t, m)
      BY <3>1 DEF Encloses, n
    <3> QED  BY <1>2, <3>1, <3>2
  <2> QED  BY <2>2, <2>3
<1>5. Encloses(u, p)
  BY <1>2, <1>3, <1>4 DEF Encloses
<1>6. Encloses(u, n + 1)
  <2> SUFFICES ASSUME NEW k \in Above(u, n + 1), NEW m \in k + 1 .. n + 1
               PROVE  k \in Above(u, m)
    BY <1>2 DEF Encloses
  <2>1. k # n + 1
    BY <1>1
  <2> QED  BY <1>2, <1>4, <2>1
<1> QED  BY <1>5, <1>6 DEF u, n

(* The last node may be taken off. *)
LEMMA ShrinkTree ==
    ASSUME NEW t, Tree(t), NEW m \in Nat, m <= Len(t)
    PROVE  /\ Tree(SubSeq(t, 1, m))
           /\ Len(SubSeq(t, 1, m)) = m
           /\ DOMAIN SubSeq(t, 1, m) = 1 .. m
           /\ \A k \in 1 .. m : SubSeq(t, 1, m)[k] = t[k]
           /\ \A k \in 0 .. m : Above(SubSeq(t, 1, m), k) = Above(t, k)
<1> DEFINE u == SubSeq(t, 1, m)
<1>1. t \in Seq(NodeSet) /\ Len(t) \in Nat /\ DOMAIN t = 1 .. Len(t)
  BY DEF Tree
<1>2. u \in Seq(NodeSet) /\ Len(u) = m /\ DOMAIN u = 1 .. m /\ \A k \in 1 .. m : u[k] = t[k]
  BY <1>1
<1> HIDE DEF u
<1>3. ASSUME NEW k \in 1 .. m
      PROVE  /\ u[k].parent \in 0 .. k - 1
             /\ u[k].parent # 0 => u[u[k].parent].kind = "element"
  <2>1. k \in DOMAIN t /\ u[k] = t[k]
    BY <1>1, <1>2
  <2>2. t[k].parent \in 0 .. k - 1 /\ (t[k].parent # 0 => t[t[k].parent].kind = "element")
    BY <2>1 DEF Tree
  <2>3. t[k].parent # 0 => t[k].parent \in 1 .. m
    BY <2>2
  <2>4. t[k].parent # 0 => u[t[k].parent] = t[t[k].parent]
    BY <1>2, <2>3
  <2> QED  BY <2>1, <2>2, <2>4
<1>4. Tree(u)
  BY <1>2, <1>3 DEF Tree
<1>5. \A k \in 0 .. m : Above(u, k) = Above(t, k)
  <2>1. \A k \in 1 .. m : t[k].parent = u[k].parent
    BY <1>2
  <2> QED  BY <1>1, <1>2, <1>4, <2>1, AboveLocal
<1> QED  BY <1>2, <1>4, <1>5 DEF u

(* What is around a node stays so when nodes behind it are taken off. *)
LEMMA ShrinkEncloses ==
    ASSUME NEW t, Tree(t), NEW m \in Nat, m <= Len(t), NEW c \in 0 .. m, Encloses(t, c)
    PROVE  Encloses(SubSeq(t, 1, m), c)
<1> DEFINE u == SubSeq(t, 1, m)
<1>1. Len(u) = m /\ (\A k \in 0 .. m : Above(u, k) = Above(t, k)) /\ Len(t) \in Nat
  BY ShrinkTree DEF Tree
<1> HIDE DEF u
<1>2. Above(t, c) \subseteq 1 .. c
  <2>1. c \in 0 .. Len(t)
    BY <1>1
  <2> QED  BY <2>1, AboveChain
<1>3. ASSUME NEW k \in Above(t, c), NEW j \in k + 1 .. m
      PROVE  k \in Above(u, j)
  <2>1. k \in 1 .. m /\ j \in k + 1 .. Len(t) /\ j \in 0 .. m
    BY <1>1, <1>2
  <2>2. k \in Above(t, j)
    BY <2>1 DEF Encloses
  <2> QED  BY <1>1, <2>1, <2>2
<1>4. Encloses(u, c)
  BY <1>1, <1>3 DEF Encloses
<1> QED  BY <1>4 DEF u

-----------------------------------------------------------------------------
(* Foreign content *)

(* No tag closes a foreign element by implication. *)
LEMMA ClosesNoForeign ==
    ASSUME NEW name
    PROVE  Closes(name) \cap Foreign = {}
<1>1. /\ "svg" \notin FormTags /\ "math" \notin FormTags
  BY DEF FormTags
<1>2. \/ Closes(name) = {"tr", "th", "td"} \/ Closes(name) = {"th"}
      \/ Closes(name) = {"thead", "th", "td"} \/ Closes(name) = {"head", "link", "script"}
      \/ Closes(name) = {"li"} \/ Closes(name) = {"option"}
      \/ Closes(name) = {"optgroup", "option"} \/ Closes(name) = {"dt", "dd"}
      \/ Closes(name) = FormTags \/ Closes(name) = {"p"} \/ Closes(name) = {}
  BY DEF Closes
<1> QED  BY <1>1, <1>2 DEF Foreign

(* The nodes open below c, or a part of them, are a finite set. *)
LEMMA OpenFinite ==
    ASSUME NEW t, Tree(t), NEW c \in 0 .. Len(t), NEW root, NEW S \in SUBSET Open(t, root, c)
    PROVE  /\ IsFiniteSet(S)
           /\ IsFiniteSet(ForeignIn(t, S))
           /\ Cardinality(ForeignIn(t, S)) \in Nat
<1>1. c \in Nat /\ Len(t) \in Nat
  BY DEF Tree
<1>2. S \in SUBSET (1 .. c) /\ ForeignIn(t, S) \in SUBSET (1 .. c)
  BY AboveChain DEF Open, ForeignIn
<1>3. IsFiniteSet(1 .. c)
  BY <1>1, FS_Interval
<1> QED  BY <1>2, <1>3, FS_Subset, FS_CardinalityType

(* The element that a start tag of this name is appended to. *)
Under(t, f, name) ==
    Max({f.root} \union {k \in Open(t, f.root, f.cur) : t[k].name \notin Closes(name)})

(* It is the call's own element or one it holds open, and what is popped to get
   there is not foreign. *)
LEMMA UnderIs ==
    ASSUME NEW t, Tree(t), NEW f \in FrameSet, Call(t, f), NEW name
    PROVE  /\ Under(t, f, name) \in 0 .. f.cur
           /\ Under(t, f, name) # 0 => t[Under(t, f, name)].kind = "element"
           /\ Above(t, Under(t, f, name)) \subseteq Above(t, f.cur)
           /\ f.root = 0 \/ f.root \in Above(t, Under(t, f, name))
           /\ Open(t, f.root, Under(t, f, name)) \subseteq Open(t, f.root, f.cur)
           /\ ForeignIn(t, Open(t, f.root, Under(t, f, name))) = ForeignIn(t, Open(t, f.root, f.cur))
<1> DEFINE S == {f.root} \union {k \in Open(t, f.root, f.cur) : t[k].name \notin Closes(name)}
           P == Under(t, f, name)
<1>1. /\ f.root \in Nat /\ f.cur \in Nat /\ f.root <= f.cur /\ f.cur \in 0 .. Len(t)
      /\ Above(t, f.cur) \subseteq 1 .. f.cur
      /\ Above(t, f.root) \subseteq Above(t, f.cur)
      /\ Open(t, f.root, f.cur) \subseteq Above(t, f.cur)
  BY CallBounds DEF Call
<1>2. S \in SUBSET (0 .. f.cur) /\ S # {} /\ f.root \in S
  BY <1>1
<1> HIDE DEF S
<1>3. P \in S /\ \A y \in S : P >= y
  BY <1>1, <1>2, MaxIs DEF Under, S
<1> HIDE DEF P
<1>4. P \in 0 .. f.cur /\ P >= f.root
  BY <1>2, <1>3
<1>5. P = f.root \/ P \in Above(t, f.cur)
  BY <1>1, <1>3 DEF S
<1>6. P # 0 => t[P].kind = "element"
  BY <1>5 DEF Call
<1>7. Above(t, P) = {m \in Above(t, f.cur) : m <= P}
  <2>1. CASE P \in Above(t, f.cur)
    BY <1>1, <2>1, AboveChain
  <2>2. CASE P = f.root /\ f.root = 0
    <3>1. Above(t, P) = {}
      BY <2>2, AboveIs
    <3> QED  BY <1>1, <2>2, <3>1
  <2>3. CASE P = f.root /\ f.root \in Above(t, f.cur)
    BY <1>1, <2>3, AboveChain
  <2> QED  BY <1>5, <2>1, <2>2, <2>3 DEF Call
<1>8. f.root = 0 \/ f.root \in Above(t, P)
  BY <1>4, <1>7, <1>1 DEF Call
<1>9. Open(t, f.root, P) \subseteq Open(t, f.root, f.cur)
  BY <1>7 DEF Open
<1>10. ASSUME NEW k \in Open(t, f.root, f.cur), t[k].name \in Foreign
       PROVE  k \in Open(t, f.root, P)
  <2>1. t[k].name \notin Closes(name)
    BY <1>10, ClosesNoForeign
  <2>2. k \in S
    BY <2>1 DEF S
  <2>3. k <= P
    BY <1>2, <1>3, <1>4, <2>2
  <2> QED  BY <1>7, <2>3 DEF Open
<1>11. ForeignIn(t, Open(t, f.root, P)) = ForeignIn(t, Open(t, f.root, f.cur))
  BY <1>9, <1>10 DEF ForeignIn
<1> QED  BY <1>4, <1>6, <1>7, <1>8, <1>9, <1>11 DEF P

(* NamespaceFromContext, of any tree. *)
Ns(t) == \A n \in DOMAIN t :
            t[n].kind = "element" /\ t[n].made = "tag" =>
                (t[n].ns <=> t[n].name \in Foreign \/ InForeign(t, n))

(* Something foreign is at p or around it in the same text. *)
ForeignAround(t, p) ==
    \E k \in Above(t, p) : /\ t[k].name \in Foreign
                           /\ \A r \in Above(t, p) : t[r].name \in Reparse => k > r

(* The context of a node is the same in trees that agree on what precedes it. *)
LEMMA ContextLocal ==
    ASSUME NEW t, Tree(t), NEW u, Tree(u), NEW m \in Nat, m <= Len(t), m <= Len(u),
           \A k \in 1 .. m : t[k] = u[k],
           NEW n \in 1 .. m
    PROVE  InForeign(u, n) <=> ForeignAround(t, t[n].parent)
<1> DEFINE p == t[n].parent
<1>1. /\ p \in 0 .. m /\ p \in 0 .. Len(t) /\ u[n].parent = p
      /\ DOMAIN t = 1 .. Len(t) /\ Len(t) \in Nat
  BY DEF Tree
<1> HIDE DEF p
<1>2. Above(t, p) = Above(u, p)
  <2>1. \A k \in 1 .. m : t[k].parent = u[k].parent
    OBVIOUS
  <2> QED  BY <1>1, <2>1, AboveLocal
<1>3. \A k \in Above(t, p) : t[k] = u[k]
  <2>1. Above(t, p) \subseteq 1 .. p
    BY <1>1, AboveChain
  <2>2. p <= m /\ p \in Nat
    BY <1>1
  <2> QED  BY <2>1, <2>2
<1>4. InForeign(u, n) <=> ForeignAround(t, p)
  BY <1>1, <1>2, <1>3 DEF InForeign, Context, ForeignAround
<1> QED  BY <1>4 DEF p

(* A node that has its namespace from its context may be appended. *)
LEMMA NsGrows ==
    ASSUME NEW t, Tree(t), Ns(t),
           NEW node \in NodeSet, node.parent \in 0 .. Len(t),
           node.parent # 0 => t[node.parent].kind = "element",
           node.kind = "element" /\ node.made = "tag" =>
               (node.ns <=> node.name \in Foreign \/ ForeignAround(t, node.parent))
    PROVE  Ns(Append(t, node))
<1> DEFINE u == Append(t, node)
<1>1. /\ Tree(u) /\ Len(u) = Len(t) + 1 /\ DOMAIN u = 1 .. Len(t) + 1
      /\ u[Len(t) + 1] = node
      /\ \A k \in 1 .. Len(t) : t[k] = u[k]
      /\ \A k \in 0 .. Len(t) : Above(u, k) = Above(t, k)
  BY GrowTree
<1>2. Len(t) \in Nat /\ DOMAIN t = 1 .. Len(t)
  BY DEF Tree
<1> HIDE DEF u
<1>3. ASSUME NEW n \in 1 .. Len(t), u[n].kind = "element", u[n].made = "tag"
      PROVE  u[n].ns <=> u[n].name \in Foreign \/ InForeign(u, n)
  <2>1. u[n] = t[n] /\ (t[n].ns <=> t[n].name \in Foreign \/ InForeign(t, n))
    BY <1>1, <1>2, <1>3 DEF Ns
  <2>2. InForeign(t, n) <=> ForeignAround(t, t[n].parent)
    BY <1>2, ContextLocal
  <2>3. InForeign(u, n) <=> ForeignAround(t, t[n].parent)
    <3>1. Len(t) \in Nat /\ Len(t) <= Len(t) /\ Len(t) <= Len(u)
      BY <1>1, <1>2
    <3> QED  BY <1>1, <3>1, ContextLocal
  <2> QED  BY <2>1, <2>2, <2>3
<1>4. ASSUME node.kind = "element", node.made = "tag"
      PROVE  node.ns <=> node.name \in Foreign \/ InForeign(u, Len(t) + 1)
  <2>1. Len(t) + 1 \in 1 .. Len(t) + 1 /\ Len(t) + 1 \in Nat
    BY <1>2
  <2>2. InForeign(u, Len(t) + 1) <=> ForeignAround(u, node.parent)
    BY <1>1, <2>1, ContextLocal
  <2>3. ForeignAround(u, node.parent) <=> ForeignAround(t, node.parent)
    <3>1. Above(t, node.parent) \subseteq 1 .. Len(t)
      BY <1>2, AboveChain
    <3>2. Above(u, node.parent) = Above(t, node.parent)
      BY <1>1
    <3> QED  BY <1>1, <3>1, <3>2 DEF ForeignAround
  <2> QED  BY <1>4, <2>2, <2>3
<1>5. Ns(u)
  <2> SUFFICES ASSUME NEW n \in 1 .. Len(t) + 1, u[n].kind = "element", u[n].made = "tag"
               PROVE  u[n].ns <=> u[n].name \in Foreign \/ InForeign(u, n)
    BY <1>1 DEF Ns
  <2>1. n \in 1 .. Len(t) \/ n = Len(t) + 1
    BY <1>2
  <2> QED  BY <1>1, <1>3, <1>4, <2>1
<1> QED  BY <1>5 DEF u

(* The last nodes may be taken off. *)
LEMMA NsShrinks ==
    ASSUME NEW t, Tree(t), Ns(t), NEW m \in Nat, m <= Len(t)
    PROVE  Ns(SubSeq(t, 1, m))
<1> DEFINE u == SubSeq(t, 1, m)
<1>1. /\ Tree(u) /\ Len(u) = m /\ DOMAIN u = 1 .. m /\ \A k \in 1 .. m : t[k] = u[k]
      /\ Len(t) \in Nat /\ DOMAIN t = 1 .. Len(t)
  <2>1. /\ Tree(u) /\ Len(u) = m /\ DOMAIN u = 1 .. m /\ \A k \in 1 .. m : t[k] = u[k]
    BY ShrinkTree
  <2>2. Len(t) \in Nat /\ DOMAIN t = 1 .. Len(t)
    BY DEF Tree
  <2> QED  BY <2>1, <2>2
<1> HIDE DEF u
<1>2. ASSUME NEW n \in 1 .. m, u[n].kind = "element", u[n].made = "tag"
      PROVE  u[n].ns <=> u[n].name \in Foreign \/ InForeign(u, n)
  <2>1. n \in 1 .. Len(t)
    BY <1>1
  <2>2. u[n] = t[n] /\ (t[n].ns <=> t[n].name \in Foreign \/ InForeign(t, n))
    BY <1>1, <1>2, <2>1 DEF Ns
  <2>3. InForeign(t, n) <=> ForeignAround(t, t[n].parent)
    BY <1>1, <2>1, ContextLocal
  <2>4. InForeign(u, n) <=> ForeignAround(t, t[n].parent)
    BY <1>1, ContextLocal
  <2> QED  BY <2>2, <2>3, <2>4
<1>3. Ns(u)
  BY <1>1, <1>2 DEF Ns
<1> QED  BY <1>3 DEF u

(* The call holds open no element that is to be parsed again. *)
NothingRaw(t, f) == \A k \in Open(t, f.root, f.cur) : t[k].name \notin Reparse

(* The count of a call tells whether what a start tag appends is in foreign
   content. *)
LEMMA CountTells ==
    ASSUME NEW t, Tree(t), NEW f \in FrameSet, Call(t, f), NothingRaw(t, f), NEW name
    PROVE  f.foreign > 0 <=> ForeignAround(t, Under(t, f, name))
<1> DEFINE P == Under(t, f, name)
           F == ForeignIn(t, Open(t, f.root, P))
<1>1. /\ P \in 0 .. f.cur
      /\ f.root = 0 \/ f.root \in Above(t, P)
      /\ Open(t, f.root, P) \subseteq Open(t, f.root, f.cur)
      /\ F = ForeignIn(t, Open(t, f.root, f.cur))
  BY UnderIs
<1> HIDE DEF P
<1>2. /\ Len(t) \in Nat /\ f.cur \in 0 .. Len(t) /\ f.root \in Nat
      /\ P \in 0 .. Len(t) /\ Above(t, P) \subseteq 1 .. P
  <2>1. Len(t) \in Nat /\ f.cur \in 0 .. Len(t) /\ f.root \in Nat
    BY DEF Tree, Call, FrameSet
  <2>2. P \in 0 .. Len(t)
    BY <1>1, <2>1
  <2> QED  BY <2>1, <2>2, AboveChain
<1>3. f.foreign = Cardinality(F)
  BY <1>1 DEF Call
<1>4. IsFiniteSet(F) /\ Cardinality(F) \in Nat
  BY <1>2, OpenFinite
<1>5. f.foreign > 0 <=> F # {}
  BY <1>3, <1>4, FS_EmptySet
<1>6. ASSUME F # {}
      PROVE  ForeignAround(t, P)
  <2>1. PICK k \in Above(t, P) : k > f.root /\ t[k].name \in Foreign
    BY <1>6 DEF ForeignIn, Open
  <2>2. \A r \in Above(t, P) : t[r].name \in Reparse => k > r
    <3> SUFFICES ASSUME NEW r \in Above(t, P), t[r].name \in Reparse, ~(k > r) PROVE FALSE
      OBVIOUS
    <3>1. r > f.root
      BY <1>2, <2>1
    <3>2. r \in Open(t, f.root, f.cur)
      BY <1>1, <3>1 DEF Open
    <3> QED  BY <3>2 DEF NothingRaw
  <2> QED  BY <2>1, <2>2 DEF ForeignAround
<1>7. ASSUME ForeignAround(t, P)
      PROVE  F # {}
  <2>1. PICK k \in Above(t, P) : /\ t[k].name \in Foreign
                                 /\ \A r \in Above(t, P) : t[r].name \in Reparse => k > r
    BY <1>7 DEF ForeignAround
  <2>2. k > f.root
    <3>1. CASE f.root = 0
      BY <1>2, <3>1
    <3>2. CASE f.root # 0
      <4>1. f.root \in Above(t, P) /\ t[f.root].name \in Reparse
        BY <1>1, <3>2 DEF Call
      <4> QED  BY <2>1, <4>1
    <3> QED  BY <3>1, <3>2
  <2>3. k \in F
    BY <2>1, <2>2 DEF ForeignIn, Open
  <2> QED  BY <2>3
<1> QED  BY <1>5, <1>6, <1>7 DEF P

-----------------------------------------------------------------------------
(* The steps of the running call *)

(* A call that goes on at the same place, waiting for no other text. *)
LEMMA Stays ==
    ASSUME NEW t, NEW f, Call(t, f),
           NEW g, g.root = f.root, g.cur = f.cur, g.foreign = f.foreign,
           \A k \in Open(t, f.root, f.cur) :
              t[k].name \in Reparse => k = f.cur /\ Awaits(g, t[k].name)
    PROVE  Call(t, g)
  BY DEF Call

(* The running call goes on and the tree stays. *)
LEMMA StepInPlace ==
    ASSUME NEW t, NEW fs, Parsing(t, fs),
           NEW g \in FrameSet, g.root = Last(fs).root, g.cur = Last(fs).cur,
           g.foreign = Last(fs).foreign,
           \A k \in Open(t, g.root, g.cur) :
              t[k].name \in Reparse => k = g.cur /\ Awaits(g, t[k].name)
    PROVE  Parsing(t, [fs EXCEPT ![Len(fs)] = g])
<1>1. Call(t, Last(fs)) /\ Last(fs) \in FrameSet /\ Tree(t) /\ Encloses(t, g.cur)
  BY CallersAbove DEF Parsing
<1>2. Call(t, g)
  BY <1>1, Stays
<1>3. Len(t) \in Nat /\ g.root <= Len(t)
  BY <1>1, <1>2, CallBounds
<1>4. Len(t) <= Len(t) /\ \A k \in 1 .. Len(t) : t[k] = t[k]
  BY <1>3
<1> QED  BY <1>1, <1>2, <1>3, <1>4, Goes

(* The running call goes on and appends what is no element of a tag. *)
LEMMA StepAppends ==
    ASSUME NEW t, NEW fs, Parsing(t, fs), Ns(t),
           NEW g \in FrameSet, g.root = Last(fs).root, g.cur = Last(fs).cur,
           g.foreign = Last(fs).foreign,
           \A k \in Open(t, g.root, g.cur) :
              t[k].name \in Reparse => k = g.cur /\ Awaits(g, t[k].name),
           NEW node \in NodeSet, node.parent = g.cur,
           ~(node.kind = "element" /\ node.made = "tag")
    PROVE  /\ Parsing(Append(t, node), [fs EXCEPT ![Len(fs)] = g])
           /\ Ns(Append(t, node))
<1> DEFINE u == Append(t, node)
<1>1. Call(t, Last(fs)) /\ Last(fs) \in FrameSet /\ Tree(t) /\ Encloses(t, g.cur)
  BY CallersAbove DEF Parsing
<1>2. Call(t, g)
  BY <1>1, Stays
<1>3. /\ Len(t) \in Nat /\ g.root <= Len(t) /\ g.cur <= Len(t) /\ g.cur \in 0 .. Len(t)
      /\ g.cur # 0 => t[g.cur].kind = "element"
  <2>1. /\ Len(t) \in Nat /\ g.root \in Nat /\ g.cur \in Nat
        /\ g.root <= g.cur /\ g.cur <= Len(t)
    BY <1>1, <1>2, CallBounds
  <2>2. g.cur # 0 => g.cur \in Above(t, g.cur)
    BY <1>1, <2>1, AboveChain
  <2> QED  BY <1>2, <2>1, <2>2 DEF Call
<1>4. /\ Tree(u) /\ Len(u) = Len(t) + 1 /\ \A k \in 1 .. Len(t) : t[k] = u[k]
      /\ Encloses(u, g.cur)
  BY <1>1, <1>3, GrowTree, GrowEncloses
<1>5. Len(t) <= Len(t) /\ Len(t) <= Len(u)
  BY <1>3, <1>4
<1>6. Ns(u)
  BY <1>1, <1>3, NsGrows
<1> HIDE DEF u
<1>7. Call(u, g)
  BY <1>1, <1>2, <1>3, <1>4, <1>5, CallLocal
<1>8. Parsing(u, [fs EXCEPT ![Len(fs)] = g])
  BY <1>3, <1>4, <1>5, <1>7, Goes
<1> QED  BY <1>6, <1>8 DEF u

(* A call about to read a token that is no end tag, or the end tag of nothing
   it holds open, holds open nothing that is to be parsed again. *)
LEMMA NothingAwaited ==
    ASSUME NEW t, NEW f, Call(t, f), f.raw = "", f.input # <<>>,
           \/ Head(f.input).kind # "end"
           \/ \A k \in Open(t, f.root, f.cur) : t[k].name # Head(f.input).name
    PROVE  NothingRaw(t, f)
<1> SUFFICES ASSUME NEW k \in Open(t, f.root, f.cur), t[k].name \in Reparse PROVE FALSE
  BY DEF NothingRaw
<1>1. Awaits(f, t[k].name)
  BY DEF Call
<1>2. t[k].name # ""
  BY DEF Reparse
<1>3. Head(f.input) = End(t[k].name)
  BY <1>1, <1>2 DEF Awaits
<1>4. End(t[k].name).kind = "end" /\ End(t[k].name).name = t[k].name
  BY DEF End
<1> QED  BY <1>3, <1>4

(* The nodes the parser makes are well formed. *)
LEMMA NodesMade ==
    ASSUME NEW p \in Nat
    PROVE  /\ LeafNode(p) \in NodeSet /\ LeafNode(p).kind = "leaf" /\ LeafNode(p).parent = p
           /\ \A text \in Seq(Token) : /\ TextNode(p, text) \in NodeSet
                                       /\ TextNode(p, text).kind = "text"
                                       /\ TextNode(p, text).parent = p
           /\ \A name \in STRING : /\ OrphanElement(name, p) \in NodeSet
                                   /\ OrphanElement(name, p).kind = "element"
                                   /\ OrphanElement(name, p).parent = p
                                   /\ OrphanElement(name, p).made = "orphan"
           /\ \A name \in STRING, ns \in BOOLEAN :
                 /\ Element(name, p, ns) \in NodeSet
                 /\ Element(name, p, ns).kind = "element" /\ Element(name, p, ns).name = name
                 /\ Element(name, p, ns).parent = p /\ Element(name, p, ns).ns = ns
                 /\ Element(name, p, ns).made = "tag"
<1>1. LeafNode(p) \in NodeSet /\ LeafNode(p).kind = "leaf" /\ LeafNode(p).parent = p
  <2>1. LeafNode(p) \in NodeSet
    BY DEF NodeSet
  <2> QED  BY <2>1 DEF LeafNode, Node
<1>2. ASSUME NEW text \in Seq(Token)
      PROVE  /\ TextNode(p, text) \in NodeSet /\ TextNode(p, text).kind = "text"
             /\ TextNode(p, text).parent = p
  <2>1. TextNode(p, text) \in NodeSet
    <3>1. TextNode(p, text) \in {TextNode(q, s) : q \in Nat, s \in Seq(Token)}
      BY <1>2
    <3> QED  BY <3>1 DEF NodeSet
  <2> QED  BY <2>1 DEF TextNode, Node
<1>3. ASSUME NEW name \in STRING
      PROVE  /\ OrphanElement(name, p) \in NodeSet /\ OrphanElement(name, p).kind = "element"
             /\ OrphanElement(name, p).parent = p /\ OrphanElement(name, p).made = "orphan"
  BY DEF OrphanElement, Node, NodeSet
<1>4. ASSUME NEW name \in STRING, NEW ns \in BOOLEAN
      PROVE  /\ Element(name, p, ns) \in NodeSet
             /\ Element(name, p, ns).kind = "element" /\ Element(name, p, ns).name = name
             /\ Element(name, p, ns).parent = p /\ Element(name, p, ns).ns = ns
             /\ Element(name, p, ns).made = "tag"
  BY DEF Element, Node, NodeSet
<1> QED  BY <1>1, <1>2, <1>3, <1>4

(* What is known of the running call. *)
LEMMA TopIs ==
    ASSUME Typed
    PROVE  /\ Tree(nodes) /\ nodes \in Seq(NodeSet) /\ Len(nodes) \in Nat /\ DOMAIN nodes = 1 .. Len(nodes)
           /\ top = Last(frames) /\ top \in FrameSet /\ Call(nodes, top)
           /\ Parsing(nodes, frames)
           /\ top.root \in Nat /\ top.cur \in Nat /\ top.foreign \in Nat
           /\ top.input \in Seq(Token)
           /\ top = [root |-> top.root, cur |-> top.cur, foreign |-> top.foreign,
                     input |-> top.input, raw |-> top.raw]
<1>1. Parsing(nodes, frames) /\ Tree(nodes)
  BY DEF Typed, Parsing
<1>2. Last(frames) \in FrameSet /\ Call(nodes, Last(frames))
  BY <1>1, CallersAbove
<1> QED  BY <1>1, <1>2 DEF top, FrameSet, Tree

(* How long the text of the raw element is that comes next. *)
RawLen(f) == LET ends == {i \in DOMAIN f.input : f.input[i] = End(f.raw)}
             IN IF ends = {} THEN Len(f.input) ELSE Min(ends) - 1

(* It is all that is left, or what is left then starts with the end tag. *)
LEMMA RawLenIs ==
    ASSUME NEW f \in FrameSet
    PROVE  /\ RawLen(f) \in 0 .. Len(f.input)
           /\ \/ RawLen(f) = Len(f.input)
              \/ /\ RawLen(f) + 1 \in 1 .. Len(f.input)
                 /\ f.input[RawLen(f) + 1] = End(f.raw)
<1> DEFINE ends == {i \in DOMAIN f.input : f.input[i] = End(f.raw)}
<1>1. f.input \in Seq(Token) /\ Len(f.input) \in Nat /\ DOMAIN f.input = 1 .. Len(f.input)
  BY DEF FrameSet
<1>2. CASE ends = {}
  <2>1. RawLen(f) = Len(f.input)
    BY <1>2 DEF RawLen
  <2> QED  BY <1>1, <2>1
<1>3. CASE ends # {}
  <2>1. ends \in SUBSET Nat
    BY <1>1
  <2>2. PICK m \in ends : m = Min(ends)
    <3> HIDE DEF ends
    <3> QED  BY <1>3, <2>1, MinIs
  <2>3. RawLen(f) = m - 1
    BY <1>3, <2>2 DEF RawLen
  <2>4. m \in 1 .. Len(f.input) /\ f.input[m] = End(f.raw)
    BY <1>1
  <2>5. RawLen(f) + 1 = m /\ RawLen(f) \in 0 .. Len(f.input)
    BY <1>1, <2>3, <2>4
  <2> QED  BY <2>4, <2>5
<1> QED  BY <1>2, <1>3

(* RawText keeps the invariant: what is left of the text then is its end tag,
   or nothing. *)
LEMMA RawTextTyped ==
    ASSUME Typed, Ns(nodes), RawText
    PROVE  Typed' /\ Ns(nodes')
<1> DEFINE len == RawLen(top)
           g == [top EXCEPT !.raw = "", !.input = SubSeq(@, len + 1, Len(@))]
           node == TextNode(top.cur, SubSeq(top.input, 1, len))
<1>1. /\ top.raw # ""
      /\ nodes' = IF len = 0 THEN nodes ELSE Append(nodes, node)
      /\ frames' = [frames EXCEPT ![Len(frames)] = g]
      /\ phase' = phase
  BY Zenon DEF RawText, Becomes, RawLen
<1>2. top.input \in Seq(Token) /\ Len(top.input) \in Nat /\ DOMAIN top.input = 1 .. Len(top.input)
  BY TopIs
<1>4. /\ len \in 0 .. Len(top.input)
      /\ len # Len(top.input) =>
            top.input[len + 1] = End(top.raw) /\ len + 1 \in 1 .. Len(top.input)
  BY TopIs, RawLenIs
<1> HIDE DEF len
<1>6. /\ SubSeq(top.input, 1, len) \in Seq(Token)
      /\ SubSeq(top.input, len + 1, Len(top.input)) \in Seq(Token)
      /\ \/ SubSeq(top.input, len + 1, Len(top.input)) = <<>>
         \/ Head(SubSeq(top.input, len + 1, Len(top.input))) = End(top.raw)
  <2>1. SubSeq(top.input, 1, len) \in Seq(Token)
    BY <1>2, <1>4
  <2>2. SubSeq(top.input, len + 1, Len(top.input)) \in Seq(Token)
    BY <1>2, <1>4
  <2>3. CASE len = Len(top.input)
    BY <1>2, <2>1, <2>2, <2>3
  <2>4. CASE len # Len(top.input)
    BY <1>2, <1>4, <2>1, <2>2, <2>4
  <2> QED  BY <2>1, <2>2, <2>3, <2>4
<1>7. /\ g \in FrameSet /\ g.root = top.root /\ g.cur = top.cur /\ g.foreign = top.foreign
      /\ g.raw = "" /\ g.input = SubSeq(top.input, len + 1, Len(top.input))
  <2> DEFINE rest == SubSeq(top.input, len + 1, Len(top.input))
  <2>1. g = [top EXCEPT !.raw = "", !.input = rest]
    OBVIOUS
  <2>2. rest \in Seq(Token)
    BY <1>6
  <2> HIDE DEF rest, g
  <2>3. top \in FrameSet
    BY TopIs
  <2>4. "" \in NoneOrRaw
    BY DEF NoneOrRaw
  <2>5. /\ g \in FrameSet /\ g.root = top.root /\ g.cur = top.cur /\ g.foreign = top.foreign
        /\ g.raw = "" /\ g.input = rest
    BY <2>1, <2>2, <2>3, <2>4 DEF FrameSet
  <2> QED  BY <2>5 DEF rest
<1>8. node \in NodeSet /\ node.parent = top.cur /\ node.kind = "text"
  <2> DEFINE said == SubSeq(top.input, 1, len)
  <2>1. said \in Seq(Token) /\ top.cur \in Nat
    BY <1>6, TopIs
  <2> HIDE DEF said
  <2>2. TextNode(top.cur, said) \in NodeSet /\ TextNode(top.cur, said).parent = top.cur
        /\ TextNode(top.cur, said).kind = "text"
    BY <2>1, NodesMade
  <2> QED  BY <2>2 DEF said
<1> HIDE DEF g, node
<1>9. \A k \in Open(nodes, g.root, g.cur) :
         nodes[k].name \in Reparse => k = g.cur /\ Awaits(g, nodes[k].name)
  <2> TAKE k \in Open(nodes, g.root, g.cur)
  <2> HAVE nodes[k].name \in Reparse
  <2>1. k = top.cur /\ Awaits(top, nodes[k].name)
    BY <1>7, TopIs DEF Call
  <2>2. top.raw = nodes[k].name
    BY <1>1, <2>1 DEF Awaits
  <2> QED  BY <1>6, <1>7, <2>1, <2>2 DEF Awaits
<1>10. Parsing(nodes', frames') /\ Ns(nodes')
  <2>1. CASE len = 0
    BY <1>1, <1>7, <1>9, <2>1, TopIs, StepInPlace
  <2>2. CASE len # 0
    BY <1>1, <1>7, <1>8, <1>9, <2>2, TopIs, StepAppends
  <2> QED  BY <2>1, <2>2
<1> QED  BY <1>1, <1>10 DEF Typed

(* The running call, its token consumed. *)
Past(f) == [f EXCEPT !.input = Tail(@)]

(* A token has been read: what is left is a text of tokens again. *)
LEMMA PastIs ==
    ASSUME Typed, top.input # <<>>
    PROVE  /\ Past(top) \in FrameSet /\ Past(top).root = top.root /\ Past(top).cur = top.cur
           /\ Past(top).foreign = top.foreign /\ Past(top).raw = top.raw
           /\ Past(top).input = Tail(top.input)
           /\ Tail(top.input) \in Seq(Token)
           /\ token \in Token /\ token = Head(top.input)
<1>1. top.input \in Seq(Token) /\ top \in FrameSet
  BY TopIs
<1>2. Tail(top.input) \in Seq(Token) /\ Head(top.input) \in Token
  BY <1>1
<1> QED  BY <1>1, <1>2 DEF Past, FrameSet, token

(* LeafToken keeps the invariant. *)
LEMMA LeafTokenTyped ==
    ASSUME Typed, Ns(nodes), LeafToken
    PROVE  Typed' /\ Ns(nodes')
<1>1. /\ nodes' = Append(nodes, LeafNode(top.cur))
      /\ frames' = [frames EXCEPT ![Len(frames)] = Past(top)]
      /\ phase' = phase /\ top.input # <<>> /\ top.raw = "" /\ token.kind = "leaf"
  BY DEF LeafToken, Reading, Continue, Becomes, Past
<1>2. NothingRaw(nodes, top)
  BY <1>1, TopIs, NothingAwaited DEF token
<1>3. LeafNode(top.cur) \in NodeSet /\ LeafNode(top.cur).parent = top.cur /\ LeafNode(top.cur).kind = "leaf"
  BY TopIs, NodesMade
<1>4. Parsing(nodes', frames') /\ Ns(nodes')
  BY <1>1, <1>2, <1>3, TopIs, PastIs, StepAppends DEF NothingRaw
<1> QED  BY <1>1, <1>4 DEF Typed

(* UnmatchedEndTag keeps the invariant. *)
LEMMA UnmatchedEndTagTyped ==
    ASSUME Typed, Ns(nodes), UnmatchedEndTag
    PROVE  Typed' /\ Ns(nodes')
<1>1. /\ nodes' = IF token.name \in {"br", "p"}
                  THEN Append(nodes, OrphanElement(token.name, top.cur)) ELSE nodes
      /\ frames' = [frames EXCEPT ![Len(frames)] = Past(top)]
      /\ phase' = phase /\ top.input # <<>> /\ top.raw = "" /\ token.kind = "end"
      /\ Closed(top, token.name) = {}
  BY DEF UnmatchedEndTag, Reading, Continue, Becomes, Past
<1>2. NothingRaw(nodes, top)
  <2>1. Named(top, token.name) = {}
    <3> SUFFICES ASSUME Named(top, token.name) # {} PROVE FALSE
      OBVIOUS
    <3>1. Named(top, token.name) \in SUBSET (0 .. top.cur) /\ top.cur \in Nat
      BY TopIs, CallBounds DEF Named, OpenIn, Open
    <3>2. Max(Named(top, token.name)) \in Named(top, token.name)
      BY <3>1, MaxIs
    <3>3. PICK m \in Named(top, token.name) : m = Max(Named(top, token.name))
      BY <3>2
    <3>4. m \in OpenIn(top) /\ m >= m
      BY <3>1, <3>3 DEF Named
    <3>5. m \in Closed(top, token.name)
      BY <3>3, <3>4 DEF Closed
    <3> QED  BY <1>1, <3>5
  <2>2. \A k \in Open(nodes, top.root, top.cur) : nodes[k].name # Head(top.input).name
    BY <2>1 DEF Named, OpenIn, Open, token
  <2> QED  BY <1>1, <2>2, TopIs, NothingAwaited
<1> DEFINE node == OrphanElement(token.name, top.cur)
<1>3. node \in NodeSet /\ node.parent = top.cur /\ node.made = "orphan"
  <2>1. token.name \in STRING
    <3>1. token \in Token /\ token.kind = "end"
      BY <1>1, PastIs
    <3>2. token # Leaf
      BY <3>1 DEF Leaf
    <3> QED  BY <3>1, <3>2 DEF Token
  <2> QED  BY <2>1, TopIs, NodesMade
<1> HIDE DEF node
<1>4. Parsing(nodes', frames') /\ Ns(nodes')
  <2>1. CASE token.name \in {"br", "p"}
    BY <1>1, <1>2, <1>3, <2>1, TopIs, PastIs, StepAppends DEF NothingRaw, node
  <2>2. CASE token.name \notin {"br", "p"}
    BY <1>1, <1>2, <2>2, TopIs, PastIs, StepInPlace DEF NothingRaw
  <2> QED  BY <2>1, <2>2
<1> QED  BY <1>1, <1>4 DEF Typed

(* ReturnFromReparse keeps the invariant. *)
LEMMA ReturnTyped ==
    ASSUME Typed, Ns(nodes), ReturnFromReparse
    PROVE  Typed' /\ Ns(nodes')
  BY TopIs, Returns DEF Typed, ReturnFromReparse

(* What makes a call one of a tree. *)
LEMMA CallFrom ==
    ASSUME NEW t, NEW f, f.cur \in 0 .. Len(t),
           \A k \in Above(t, f.cur) : t[k].kind = "element",
           f.root = 0 \/ (f.root \in Above(t, f.cur) /\ t[f.root].name \in Reparse),
           f.foreign = Cardinality(ForeignIn(t, Open(t, f.root, f.cur))),
           \A k \in Open(t, f.root, f.cur) :
              t[k].name \in Reparse => k = f.cur /\ Awaits(f, t[k].name)
    PROVE  Call(t, f)
  BY DEF Call
(* The call goes on inside the element appended, or beside it. *)
LEMMA CallInto ==
    ASSUME NEW t, Tree(t), NEW f \in FrameSet, Call(t, f), NothingRaw(t, f),
           NEW name, NEW node \in NodeSet, node.kind = "element", node.name = name,
           node.parent = Under(t, f, name),
           NEW g \in FrameSet, g.root = f.root,
           \/ /\ g.cur = node.parent /\ g.foreign = f.foreign
           \/ /\ g.cur = Len(t) + 1
              /\ g.foreign = IF name \in Foreign THEN f.foreign + 1 ELSE f.foreign
              /\ name \in Reparse => g.raw = name
    PROVE  Call(Append(t, node), g)
<1> DEFINE P == Under(t, f, name)
           n == Len(t)
           u == Append(t, node)
           F == ForeignIn(t, Open(t, f.root, P))
<1>1. /\ P \in 0 .. f.cur
      /\ P # 0 => t[P].kind = "element"
      /\ Above(t, P) \subseteq Above(t, f.cur)
      /\ f.root = 0 \/ f.root \in Above(t, P)
      /\ Open(t, f.root, P) \subseteq Open(t, f.root, f.cur)
      /\ F = ForeignIn(t, Open(t, f.root, f.cur))
  BY UnderIs
<1> HIDE DEF P
<1>2. /\ n \in Nat /\ f.root \in Nat /\ f.cur \in Nat /\ f.root <= f.cur /\ f.cur <= n
      /\ P \in 0 .. n
  <2>1. /\ n \in Nat /\ f.root \in Nat /\ f.cur \in Nat /\ f.root <= f.cur /\ f.cur <= n
    BY CallBounds
  <2> QED  BY <1>1, <2>1
<1>3. /\ Tree(u) /\ Len(u) = n + 1 /\ u[n + 1] = node
      /\ \A k \in 1 .. n : u[k] = t[k]
      /\ \A k \in 0 .. n : Above(u, k) = Above(t, k)
      /\ Above(u, n + 1) = {n + 1} \union Above(t, P)
  <2>1. node.parent = P
    BY DEF P
  <2> QED  BY <1>1, <1>2, <2>1, GrowTree
<1>4. Above(t, P) \subseteq 1 .. n
  <2>1. Above(t, P) \subseteq 1 .. P
    BY <1>2, AboveChain
  <2> QED  BY <1>2, <2>1
<1>5. /\ \A k \in Above(t, P) : u[k] = t[k] /\ u[k].kind = "element"
      /\ \A k \in Open(t, f.root, P) : u[k].name \notin Reparse
      /\ f.root = 0 \/ (f.root \in Above(t, P) /\ u[f.root].name \in Reparse)
      /\ f.foreign = Cardinality(F)
  <2> HIDE DEF u, F
  <2>1. \A k \in Above(t, P) : u[k] = t[k] /\ t[k].kind = "element"
    BY <1>1, <1>3, <1>4 DEF Call
  <2>2. \A k \in Open(t, f.root, P) : k \in Above(t, P) /\ t[k].name \notin Reparse
    BY <1>1 DEF NothingRaw, Open
  <2>3. f.root = 0 \/ (f.root \in Above(t, P) /\ t[f.root].name \in Reparse)
    BY <1>1 DEF Call
  <2> QED  BY <1>1, <2>1, <2>2, <2>3 DEF Call
<1> HIDE DEF u, n
<1>6. ASSUME g.cur = P /\ g.foreign = f.foreign
     PROVE  Call(u, g)
  <2>1. Above(u, g.cur) = Above(t, P) /\ g.cur \in 0 .. Len(u)
    BY <1>2, <1>3, <1>6
  <2>2. Open(u, g.root, g.cur) = Open(t, f.root, P)
    BY <2>1 DEF Open
  <2>3. ForeignIn(u, Open(t, f.root, P)) = F
    BY <1>5 DEF ForeignIn, Open
  <2> HIDE DEF F
  <2>4. g.foreign = Cardinality(ForeignIn(u, Open(u, g.root, g.cur)))
    BY <1>5, <1>6, <2>2, <2>3
  <2>5. \A k \in Above(u, g.cur) : u[k].kind = "element"
    BY <1>5, <2>1
  <2>6. g.root = 0 \/ (g.root \in Above(u, g.cur) /\ u[g.root].name \in Reparse)
    BY <1>5, <2>1
  <2>7. \A k \in Open(u, g.root, g.cur) : u[k].name \in Reparse => k = g.cur /\ Awaits(g, u[k].name)
    BY <1>5, <2>2
  <2> QED  BY <2>1, <2>4, <2>5, <2>6, <2>7, CallFrom, Zenon
<1>7. ASSUME g.cur = n + 1,
             g.foreign = IF name \in Foreign THEN f.foreign + 1 ELSE f.foreign,
             name \in Reparse => g.raw = name
      PROVE  Call(u, g)
  <2>1. Above(u, g.cur) = {n + 1} \union Above(t, P) /\ g.cur \in 0 .. Len(u)
    BY <1>2, <1>3, <1>7
  <2>2. Open(u, g.root, g.cur) = {n + 1} \union Open(t, f.root, P)
    <3>1. n + 1 > f.root
      BY <1>2
    <3> QED  BY <2>1, <3>1 DEF Open
  <2>3. n + 1 \notin F
    <3>1. n + 1 \notin 1 .. n
      BY <1>2
    <3> QED  BY <1>4, <3>1 DEF ForeignIn, Open
  <2>4. ForeignIn(u, Open(u, g.root, g.cur)) = IF name \in Foreign THEN F \union {n + 1} ELSE F
    <3>1. \A k \in Open(t, f.root, P) : u[k] = t[k]
      BY <1>5 DEF Open
    <3> QED  BY <1>3, <2>2, <3>1 DEF ForeignIn
  <2>5. IsFiniteSet(F)
    BY <1>2, OpenFinite DEF n
  <2> HIDE DEF F
  <2>6. Cardinality(F \union {n + 1}) = Cardinality(F) + 1
    BY <2>3, <2>5, FS_AddElement
  <2>7. g.foreign = Cardinality(ForeignIn(u, Open(u, g.root, g.cur)))
    BY <1>5, <1>7, <2>4, <2>6
  <2>8. \A k \in Above(u, g.cur) : u[k].kind = "element"
    BY <1>3, <1>5, <2>1
  <2>9. g.root = 0 \/ (g.root \in Above(u, g.cur) /\ u[g.root].name \in Reparse)
    BY <1>5, <2>1
  <2>10. \A k \in Open(u, g.root, g.cur) : u[k].name \in Reparse => k = g.cur /\ Awaits(g, u[k].name)
    BY <1>3, <1>5, <1>7, <2>2 DEF Awaits
  <2> QED  BY <2>1, <2>7, <2>8, <2>9, <2>10, CallFrom, Zenon
<1>8. Call(u, g)
  <2>1. \/ g.cur = P /\ g.foreign = f.foreign
        \/ /\ g.cur = n + 1
           /\ g.foreign = IF name \in Foreign THEN f.foreign + 1 ELSE f.foreign
           /\ name \in Reparse => g.raw = name
    BY Zenon DEF P, n
  <2> QED  BY <1>6, <1>7, <2>1, Zenon
<1> QED  BY <1>8 DEF u

(* StartTag keeps the invariant. *)
LEMMA StartTagTyped ==
    ASSUME Typed, Ns(nodes), StartTag
    PROVE  Typed' /\ Ns(nodes')
<1> DEFINE name == token.name
           P == Under(nodes, top, name)
           ns == Namespaced(top, name)
           closed == name \in Void \/ (token.kind = "self" /\ ns)
           node == Element(name, P, ns)
           raw == IF name \in RawElements THEN name ELSE ""
           cur == IF closed THEN P ELSE Len(nodes) + 1
           foreign == IF ~closed /\ name \in Foreign THEN top.foreign + 1 ELSE top.foreign
           g == Past([top EXCEPT !.raw = raw, !.cur = cur, !.foreign = foreign])
<1>1. /\ top.input # <<>> /\ top.raw = "" /\ token.kind \in {"start", "self"}
      /\ phase' = phase
  BY DEF StartTag, Reading
<1>2. ParentFor(top, name) = P
  BY DEF ParentFor, Under, OpenIn, Open
<1>3. nodes' = Append(nodes, node) /\ frames' = [frames EXCEPT ![Len(frames)] = g]
  BY <1>2 DEF StartTag, Continue, Becomes, Past
<1>4. /\ Tree(nodes) /\ Len(nodes) \in Nat /\ top = Last(frames) /\ top \in FrameSet
      /\ Call(nodes, top) /\ Parsing(nodes, frames) /\ top.foreign \in Nat
      /\ top.input \in Seq(Token) /\ Encloses(nodes, top.cur)
  <2>1. Encloses(nodes, Last(frames).cur)
    BY DEF Typed, Parsing
  <2> QED  BY <2>1, TopIs
<1>5. name \in STRING
  <2>1. token \in Token
    BY <1>1, PastIs
  <2>2. Leaf.kind = "leaf"
    BY DEF Leaf
  <2>3. token # Leaf
    BY <1>1, <2>2
  <2> QED  BY <2>1, <2>3 DEF Token
<1>6. NothingRaw(nodes, top)
  <2>1. Head(top.input).kind # "end"
    BY <1>1 DEF token
  <2> QED  BY <1>1, <1>4, <2>1, NothingAwaited
<1>7. /\ P \in 0 .. top.cur /\ P \in 0 .. Len(nodes) /\ P \in Nat
      /\ P # 0 => nodes[P].kind = "element"
      /\ Above(nodes, P) \subseteq Above(nodes, top.cur)
  <2>1. /\ P \in 0 .. top.cur
        /\ P # 0 => nodes[P].kind = "element"
        /\ Above(nodes, P) \subseteq Above(nodes, top.cur)
    BY <1>4, UnderIs
  <2>2. top.cur \in 0 .. Len(nodes)
    BY <1>4 DEF Call
  <2> HIDE DEF P
  <2> QED  BY <1>4, <2>1, <2>2
<1>8. Encloses(nodes, P)
  BY <1>4, <1>7, EnclosesWithin
<1>9. ns \in BOOLEAN /\ (ns <=> name \in Foreign \/ ForeignAround(nodes, P))
  <2>1. top.foreign > 0 <=> ForeignAround(nodes, P)
    BY <1>4, <1>6, CountTells
  <2>2. ns \in BOOLEAN
    BY DEF Namespaced
  <2> QED  BY <2>1, <2>2 DEF Namespaced
<1> HIDE DEF P, ns
<1>10. /\ node \in NodeSet /\ node.kind = "element" /\ node.name = name /\ node.parent = P
       /\ node.ns = ns /\ node.made = "tag"
  BY <1>5, <1>7, <1>9, NodesMade
<1> HIDE DEF closed, node
<1>11. /\ g \in FrameSet /\ g.root = top.root /\ g.raw = raw /\ g.cur = cur /\ g.foreign = foreign
  <2>1. raw \in NoneOrRaw
    BY DEF NoneOrRaw
  <2>2. cur \in Nat /\ foreign \in Nat
    BY <1>4, <1>7
  <2>3. Tail(top.input) \in Seq(Token)
    BY <1>1, PastIs
  <2> HIDE DEF name, raw, cur, foreign
  <2> QED  BY <1>4, <2>1, <2>2, <2>3 DEF FrameSet, Past
<1>12. /\ Tree(Append(nodes, node)) /\ Len(Append(nodes, node)) = Len(nodes) + 1
       /\ \A k \in 1 .. Len(nodes) : nodes[k] = Append(nodes, node)[k]
       /\ Encloses(Append(nodes, node), P)
       /\ Encloses(Append(nodes, node), Len(nodes) + 1)
       /\ Ns(Append(nodes, node))
  <2>1. node.parent \in 0 .. Len(nodes) /\ (node.parent # 0 => nodes[node.parent].kind = "element")
    BY <1>7, <1>10
  <2>2. /\ Tree(Append(nodes, node)) /\ Len(Append(nodes, node)) = Len(nodes) + 1
        /\ \A k \in 1 .. Len(nodes) : nodes[k] = Append(nodes, node)[k]
    BY <1>4, <1>10, <2>1, GrowTree
  <2>3. Encloses(Append(nodes, node), P) /\ Encloses(Append(nodes, node), Len(nodes) + 1)
    BY <1>4, <1>8, <1>10, <2>1, GrowEncloses
  <2>4. Ns(Append(nodes, node))
    BY <1>4, <1>9, <1>10, <2>1, NsGrows
  <2> QED  BY <2>2, <2>3, <2>4
<1>13. Call(Append(nodes, node), g)
  <2>1. node.parent = Under(nodes, top, name)
    BY <1>10 DEF P
  <2>2. Reparse \subseteq RawElements
    BY DEF RawElements
  <2>3. \/ /\ g.cur = node.parent /\ g.foreign = top.foreign
        \/ /\ g.cur = Len(nodes) + 1
           /\ g.foreign = IF name \in Foreign THEN top.foreign + 1 ELSE top.foreign
           /\ name \in Reparse => g.raw = name
    BY <1>10, <1>11, <2>2
  <2>4. node.kind = "element" /\ node.name = name /\ node \in NodeSet
    BY <1>10
  <2>5. g \in FrameSet /\ g.root = top.root
    BY <1>11
  <2> HIDE DEF g, name
  <2> QED  BY <1>4, <1>6, <2>1, <2>3, <2>4, <2>5, CallInto
<1>14. Encloses(Append(nodes, node), g.cur)
  BY <1>11, <1>12
<1>15. top.root <= Len(nodes)
  BY <1>4, CallBounds
<1> HIDE DEF g
<1>16. Parsing(Append(nodes, node), [frames EXCEPT ![Len(frames)] = g])
  <2>1. Len(nodes) <= Len(nodes) /\ Len(nodes) <= Len(Append(nodes, node))
    BY <1>4, <1>12
  <2> QED  BY <1>4, <1>11, <1>12, <1>13, <1>14, <1>15, <2>1, Goes
<1> QED  BY <1>1, <1>3, <1>12, <1>16 DEF Typed

-----------------------------------------------------------------------------
(* End tags. *)

Shut(t, f, n) == {k \in Open(t, f.root, f.cur) : k >= n}

(* Out of an open element and all that is open inside it. *)
LEMMA OutOf ==
    ASSUME NEW t, Tree(t), NEW f \in FrameSet, Call(t, f),
           NEW n \in Open(t, f.root, f.cur)
    PROVE  /\ n \in 1 .. f.cur /\ n > f.root /\ n \in Above(t, f.cur)
           /\ t[n].kind = "element" /\ t[n].parent \in 0 .. n - 1
           /\ Min(Shut(t, f, n)) = n
           /\ Above(t, n) = {k \in Above(t, f.cur) : k <= n}
           /\ Above(t, t[n].parent) = {k \in Above(t, f.cur) : k < n}
           /\ f.root = 0 \/ f.root \in Above(t, t[n].parent)
           /\ Open(t, f.root, t[n].parent) = Open(t, f.root, f.cur) \ Shut(t, f, n)
<1>1. /\ Len(t) \in Nat /\ f.root \in Nat /\ f.cur \in Nat /\ f.cur <= Len(t)
      /\ Above(t, f.cur) \subseteq 1 .. f.cur
  BY CallBounds
<1>2. n \in Above(t, f.cur) /\ n > f.root /\ n \in 1 .. f.cur /\ n \in 1 .. Len(t)
  BY <1>1 DEF Open
<1>3. t[n].kind = "element" /\ t[n].parent \in 0 .. n - 1
  BY <1>1, <1>2 DEF Call, Tree
<1>4. Shut(t, f, n) \in SUBSET Nat /\ n \in Shut(t, f, n) /\ \A k \in Shut(t, f, n) : k >= n
  BY <1>1, <1>2 DEF Shut, Open
<1>5. Min(Shut(t, f, n)) = n
  <2>1. Min(Shut(t, f, n)) \in Shut(t, f, n) /\ Min(Shut(t, f, n)) <= n
    BY <1>4, MinIs
  <2>2. Min(Shut(t, f, n)) \in Nat /\ Min(Shut(t, f, n)) >= n
    BY <1>4, <2>1
  <2> QED  BY <1>2, <2>1, <2>2
<1>6. Above(t, n) = {k \in Above(t, f.cur) : k <= n}
  <2>1. f.cur \in 0 .. Len(t)
    BY <1>1
  <2> QED  BY <1>2, <2>1, AboveChain
<1>7. Above(t, t[n].parent) = {k \in Above(t, f.cur) : k < n}
  <2>1. Above(t, n) = {n} \union Above(t, t[n].parent)
    BY <1>2, AboveIs
  <2>2. Above(t, t[n].parent) \subseteq 1 .. t[n].parent
    <3>1. t[n].parent \in 0 .. Len(t)
      BY <1>1, <1>2, <1>3
    <3> QED  BY <3>1, AboveChain
  <2>3. n \notin Above(t, t[n].parent)
    BY <1>2, <1>3, <2>2
  <2>4. \A k \in Above(t, f.cur) : k < n <=> k <= n /\ k # n
    BY <1>1, <1>2
  <2> QED  BY <1>6, <2>1, <2>3, <2>4
<1>8. f.root = 0 \/ f.root \in Above(t, t[n].parent)
  BY <1>1, <1>2, <1>7 DEF Call
<1>9. Open(t, f.root, t[n].parent) = Open(t, f.root, f.cur) \ Shut(t, f, n)
  <2>1. \A k \in Above(t, f.cur) : k < n <=> ~(k >= n)
    BY <1>1, <1>2
  <2> QED  BY <1>7, <2>1 DEF Open, Shut
<1> QED  BY <1>2, <1>3, <1>5, <1>6, <1>7, <1>8, <1>9

(* The count after an end tag, whatever was open inside the element it closes. *)
LEMMA CountedOut ==
    ASSUME NEW t, Tree(t), NEW f \in FrameSet, Call(t, f),
           NEW n \in Open(t, f.root, f.cur)
    PROVE  /\ f.foreign - Cardinality(ForeignIn(t, Shut(t, f, n))) \in Nat
           /\ f.foreign - Cardinality(ForeignIn(t, Shut(t, f, n)))
                = Cardinality(ForeignIn(t, Open(t, f.root, t[n].parent)))
<1> DEFINE A == ForeignIn(t, Open(t, f.root, f.cur))
           B == ForeignIn(t, Shut(t, f, n))
           C == ForeignIn(t, Open(t, f.root, t[n].parent))
<1>1. f.cur \in 0 .. Len(t) /\ f.foreign = Cardinality(A)
  BY DEF Call
<1>2. Shut(t, f, n) \subseteq Open(t, f.root, f.cur)
  BY DEF Shut
<1>3. IsFiniteSet(A) /\ IsFiniteSet(B) /\ Cardinality(A) \in Nat /\ Cardinality(B) \in Nat
  BY <1>1, <1>2, OpenFinite
<1>4. B \subseteq A /\ C = A \ B
  <2>1. Open(t, f.root, t[n].parent) = Open(t, f.root, f.cur) \ Shut(t, f, n)
    BY OutOf
  <2> QED  BY <1>2, <2>1 DEF ForeignIn
<1> HIDE DEF A, B, C
<1>5. IsFiniteSet(C) /\ Cardinality(C) \in Nat /\ Cardinality(C) = Cardinality(A) - Cardinality(B)
  <2>1. IsFiniteSet(C) /\ Cardinality(C) = Cardinality(A) - Cardinality(A \cap B)
    BY <1>3, <1>4, FS_Difference
  <2>2. A \cap B = B
    BY <1>4
  <2>3. Cardinality(C) \in Nat
    BY <2>1, FS_CardinalityType
  <2> QED  BY <2>1, <2>2, <2>3
<1>6. f.foreign - Cardinality(B) \in Nat /\ f.foreign - Cardinality(B) = Cardinality(C)
  BY <1>1, <1>3, <1>5
<1> QED  BY <1>6 DEF B, C

(* The call goes on outside the element, with nothing to parse again open. *)
LEMMA CallOut ==
    ASSUME NEW t, Tree(t), NEW f \in FrameSet, Call(t, f),
           NEW n \in Open(t, f.root, f.cur),
           NEW g, g.root = f.root, g.cur = t[n].parent,
           g.foreign = f.foreign - Cardinality(ForeignIn(t, Shut(t, f, n)))
    PROVE  Call(t, g)
<1> DEFINE p == t[n].parent
<1>1. /\ n \in 1 .. f.cur /\ p \in 0 .. n - 1
      /\ Above(t, p) = {k \in Above(t, f.cur) : k < n}
      /\ f.root = 0 \/ f.root \in Above(t, p)
      /\ Open(t, f.root, p) = Open(t, f.root, f.cur) \ Shut(t, f, n)
  BY OutOf
<1>2. g.foreign = Cardinality(ForeignIn(t, Open(t, f.root, p)))
  BY CountedOut
<1> HIDE DEF p
<1>3. g.root = f.root /\ g.cur = p
  BY DEF p
<1>4. /\ Len(t) \in Nat /\ f.cur \in Nat /\ f.cur <= Len(t)
      /\ Above(t, f.cur) \subseteq 1 .. f.cur
  BY CallBounds
<1>5. g.cur \in 0 .. Len(t)
  BY <1>1, <1>3, <1>4
<1>6. \A k \in Above(t, g.cur) : t[k].kind = "element"
  BY <1>1, <1>3 DEF Call
<1>7. g.root = 0 \/ (g.root \in Above(t, g.cur) /\ t[g.root].name \in Reparse)
  BY <1>1, <1>3 DEF Call
<1>8. \A k \in Open(t, g.root, g.cur) : t[k].name \notin Reparse
  <2>1. \A k \in Open(t, f.root, p) : k \in Open(t, f.root, f.cur) /\ k # f.cur
    BY <1>1, <1>4 DEF Shut, Open
  <2>2. \A k \in Open(t, f.root, f.cur) : t[k].name \in Reparse => k = f.cur
    BY DEF Call
  <2> QED  BY <1>3, <2>1, <2>2
<1>9. g.foreign = Cardinality(ForeignIn(t, Open(t, g.root, g.cur)))
  BY <1>2, <1>3
<1> QED  BY <1>5, <1>6, <1>7, <1>8, <1>9, CallFrom

(* What the end tag closes: the innermost open element of its name, and inward. *)
LEMMA ClosedIs ==
    ASSUME Typed, NEW name, Closed(top, name) # {}
    PROVE  /\ Min(Closed(top, name)) \in Open(nodes, top.root, top.cur)
           /\ nodes[Min(Closed(top, name))].name = name
           /\ Closed(top, name) = Shut(nodes, top, Min(Closed(top, name)))
<1> DEFINE N == Named(top, name)
           M == Max(N)
<1>1. N # {} /\ Closed(top, name) = {k \in OpenIn(top) : k >= M}
  BY DEF Closed
<1>2. OpenIn(top) = Open(nodes, top.root, top.cur)
  BY DEF OpenIn, Open
<1>3. /\ Tree(nodes) /\ top \in FrameSet /\ Call(nodes, top) /\ top.cur \in Nat
  BY TopIs
<1>4. OpenIn(top) \subseteq 0 .. top.cur
  <2>1. Above(nodes, top.cur) \subseteq 1 .. top.cur
    BY <1>3, CallBounds
  <2> QED  BY <1>2, <2>1 DEF Open
<1>5. N \in SUBSET (0 .. top.cur)
  BY <1>4 DEF Named
<1> HIDE DEF N
<1>6. M \in N
  BY <1>1, <1>3, <1>5, MaxIs
<1>7. M \in Open(nodes, top.root, top.cur) /\ nodes[M].name = name
  BY <1>2, <1>6 DEF Named, N
<1> HIDE DEF M
<1>8. Closed(top, name) = Shut(nodes, top, M)
  BY <1>1, <1>2 DEF Shut
<1>9. Min(Shut(nodes, top, M)) = M
  BY <1>3, <1>7, OutOf
<1> QED  BY <1>7, <1>8, <1>9

(* A single text that is all of an open element is the last node there is. *)
LEMMA OnlyTextIsLast ==
    ASSUME NEW t, Tree(t), NEW c \in 0 .. Len(t), Encloses(t, c),
           NEW n \in Above(t, c), NEW k \in DOMAIN t, Children(t, n) = {k}, t[k].kind = "text"
    PROVE  k = Len(t) /\ n < k
<1>1. Len(t) \in Nat /\ DOMAIN t = 1 .. Len(t)
  BY DEF Tree
<1>2. n \in 1 .. Len(t)
  <2>1. Above(t, c) \subseteq 1 .. c
    BY AboveChain
  <2> QED  BY <1>1, <2>1
<1>3. k \in 1 .. Len(t) /\ t[k].parent = n /\ n < k
  <2>1. k \in 1 .. Len(t) /\ t[k].parent = n /\ t[k].parent \in 0 .. k - 1
    BY <1>1 DEF Children, Tree
  <2> QED  BY <2>1
<1>4. n \in Above(t, Len(t)) /\ Len(t) \in 0 .. Len(t) /\ n # Len(t)
  <2>1. Len(t) \in n + 1 .. Len(t)
    BY <1>1, <1>2, <1>3
  <2> QED  BY <1>1, <2>1 DEF Encloses
<1>5. PICK b \in Above(t, Len(t)) : t[b].parent = n
  BY <1>4, ChildToward
<1>6. b = k
  <2>1. Above(t, Len(t)) \subseteq 1 .. Len(t)
    BY <1>4, AboveChain
  <2>2. b \in Children(t, n)
    BY <1>1, <1>5, <2>1 DEF Children
  <2> QED  BY <2>2
<1>7. ASSUME k # Len(t) PROVE FALSE
  <2>1. PICK d \in Above(t, Len(t)) : t[d].parent = k
    BY <1>4, <1>5, <1>6, <1>7, ChildToward
  <2>2. d \in DOMAIN t
    <3>1. Above(t, Len(t)) \subseteq 1 .. Len(t)
      BY <1>4, AboveChain
    <3> QED  BY <1>1, <3>1
  <2>3. k # 0
    BY <1>3
  <2>4. t[k].kind = "element"
    BY <2>1, <2>2, <2>3 DEF Tree
  <2> QED  BY <2>4
<1> QED  BY <1>3, <1>7

(* The text of a node is tokens. *)
LEMMA TextTyped ==
    ASSUME NEW node \in NodeSet
    PROVE  node.text \in Seq(Token)
<1>1. CASE \E p \in Nat : node = LeafNode(p)
  BY <1>1 DEF LeafNode, Node
<1>2. CASE \E p \in Nat, text \in Seq(Token) : node = TextNode(p, text)
  BY <1>2 DEF TextNode, Node
<1>3. CASE node \in [kind : {"element"}, name : STRING, parent : Nat, ns : BOOLEAN,
                     text : {<<>>}, made : {"tag", "orphan"}]
  <2>1. node.text = <<>>
    BY <1>3
  <2> QED  BY <2>1
<1> QED  BY <1>1, <1>2, <1>3 DEF NodeSet

(* A call that parses the text of element n again, which was its last node. *)
LEMMA ReparseCall ==
    ASSUME NEW t, Tree(t), NEW n \in 1 .. Len(t), t[n].name \in Reparse,
           \A k \in Above(t, n) : t[k].kind = "element",
           NEW text \in Seq(Token)
    PROVE  /\ Frame(n, text) \in FrameSet
           /\ Frame(n, text).root = n /\ Frame(n, text).cur = n /\ Frame(n, text).input = text
           /\ Call(t, Frame(n, text))
<1> DEFINE f == Frame(n, text)
<1>1. n \in Nat /\ n \in 0 .. Len(t)
  OBVIOUS
<1>2. f \in FrameSet /\ f.root = n /\ f.cur = n /\ f.foreign = 0 /\ f.input = text
  BY <1>1 DEF Frame, FrameSet, NoneOrRaw
<1>3. Open(t, n, n) = {}
  <2>1. Above(t, n) \subseteq 1 .. n
    BY <1>1, AboveChain
  <2> QED  BY <1>1, <2>1 DEF Open
<1>4. f.foreign = Cardinality(ForeignIn(t, Open(t, f.root, f.cur)))
  <2>1. ForeignIn(t, Open(t, f.root, f.cur)) = {}
    BY <1>2, <1>3 DEF ForeignIn
  <2> QED  BY <1>2, <2>1, FS_EmptySet
<1>5. n \in Above(t, n)
  BY <1>1, AboveChain
<1> HIDE DEF f
<1>6. \A k \in Open(t, f.root, f.cur) :
         t[k].name \in Reparse => k = f.cur /\ Awaits(f, t[k].name)
  BY <1>2, <1>3
<1>7. f.cur \in 0 .. Len(t) /\ \A k \in Above(t, f.cur) : t[k].kind = "element"
  BY <1>1, <1>2
<1>8. f.root = 0 \/ (f.root \in Above(t, f.cur) /\ t[f.root].name \in Reparse)
  BY <1>2, <1>5
<1>9. Call(t, f)
  BY <1>4, <1>6, <1>7, <1>8, CallFrom
<1> QED  BY <1>2, <1>9 DEF f

(* EndTag keeps the invariant. *)
LEMMA EndTagTyped ==
    ASSUME Typed, Ns(nodes), EndTag
    PROVE  Typed' /\ Ns(nodes')
<1> DEFINE closed == Closed(top, token.name)
           n == Min(closed)
           p == nodes[n].parent
           out == top.foreign - Cardinality(ForeignOf(closed))
           g == [top EXCEPT !.cur = p, !.input = Tail(@), !.foreign = @ - Cardinality(ForeignOf(closed))]
           gs == [frames EXCEPT ![Len(frames)] = g]
           m == Len(nodes) - 1
           u == SubSeq(nodes, 1, m)
           f == Frame(n, Last(nodes).text)
<1>1. /\ closed # {} /\ top.input # <<>> /\ phase' = phase
      /\ IF Reparses(n) THEN nodes' = u /\ frames' = Append(gs, f)
         ELSE frames' = gs /\ nodes' = nodes
  BY DEF EndTag, Reading, Becomes
<1>2. /\ Tree(nodes) /\ Len(nodes) \in Nat /\ top = Last(frames) /\ top \in FrameSet
      /\ Call(nodes, top) /\ Parsing(nodes, frames) /\ Encloses(nodes, top.cur)
  <2>1. Encloses(nodes, Last(frames).cur)
    BY DEF Typed, Parsing
  <2> QED  BY <2>1, TopIs
<1>3. n \in Open(nodes, top.root, top.cur) /\ closed = Shut(nodes, top, n)
  BY <1>1, ClosedIs
<1> HIDE DEF n, closed
<1>4. /\ n \in 1 .. top.cur /\ n > top.root /\ n \in Above(nodes, top.cur)
      /\ nodes[n].kind = "element" /\ p \in 0 .. n - 1
      /\ Above(nodes, n) = {k \in Above(nodes, top.cur) : k <= n}
      /\ Above(nodes, p) = {k \in Above(nodes, top.cur) : k < n}
  BY <1>2, <1>3, OutOf
<1>5. out = top.foreign - Cardinality(ForeignIn(nodes, Shut(nodes, top, n))) /\ out \in Nat
  <2>1. ForeignOf(closed) = ForeignIn(nodes, Shut(nodes, top, n))
    BY <1>3 DEF ForeignOf, ForeignIn
  <2> QED  BY <1>2, <1>3, <2>1, CountedOut
<1>6. /\ top.root \in Nat /\ top.cur \in Nat /\ top.cur <= Len(nodes) /\ n \in Nat /\ p \in Nat
      /\ p < n /\ n <= Len(nodes) /\ top.root <= Len(nodes)
  <2>1. top.root \in Nat /\ top.cur \in Nat /\ top.root <= top.cur /\ top.cur <= Len(nodes)
    BY <1>2, CallBounds
  <2> QED  BY <1>2, <1>4, <2>1
<1>7. g \in FrameSet /\ g.root = top.root /\ g.cur = p /\ g.foreign = out
  <2>1. Tail(top.input) \in Seq(Token)
    BY <1>1, PastIs
  <2> HIDE DEF p
  <2> QED  BY <1>2, <1>5, <1>6, <2>1 DEF FrameSet
<1> HIDE DEF g, out
<1>8. Call(nodes, g)
  BY <1>2, <1>3, <1>5, <1>7, CallOut
<1>9. Above(nodes, p) \subseteq Above(nodes, top.cur) /\ Above(nodes, n) \subseteq Above(nodes, top.cur)
      /\ Above(nodes, p) \subseteq Above(nodes, n)
  <2>1. Above(nodes, top.cur) \subseteq 1 .. top.cur
    BY <1>2, CallBounds
  <2> HIDE DEF p
  <2> QED  BY <1>4, <1>6, <2>1
<1> HIDE DEF p
<1>10. Encloses(nodes, p) /\ Encloses(nodes, n)
  BY <1>2, <1>9, EnclosesWithin
<1>11. ASSUME ~Reparses(n) PROVE Typed' /\ Ns(nodes')
  <2>1. Encloses(nodes, g.cur)
    BY <1>7, <1>10
  <2>2. Len(nodes) <= Len(nodes) /\ \A k \in 1 .. Len(nodes) : nodes[k] = nodes[k]
    BY <1>2
  <2>3. g.root = Last(frames).root /\ g.root <= Len(nodes)
    BY <1>2, <1>6, <1>7
  <2>4. Parsing(nodes, gs)
    BY <1>2, <1>7, <1>8, <2>1, <2>2, <2>3, Goes
  <2> HIDE DEF gs
  <2> QED  BY <1>1, <1>11, <2>4 DEF Typed
<1>12. ASSUME Reparses(n) PROVE Typed' /\ Ns(nodes')
  <2>1. PICK k \in DOMAIN nodes : Children(nodes, n) = {k} /\ nodes[k].kind = "text"
    BY <1>12 DEF Reparses
  <2>2. k = Len(nodes) /\ n < k
    <3>1. top.cur \in 0 .. Len(nodes)
      BY <1>2 DEF Call
    <3> QED  BY <1>2, <1>4, <2>1, <3>1, OnlyTextIsLast
  <2>3. m \in Nat /\ m <= Len(nodes) /\ n <= m /\ n \in 1 .. m /\ p \in 0 .. m /\ p <= m
        /\ top.root <= m /\ n \in 0 .. m
    BY <1>2, <1>4, <1>6, <2>2
  <2>4. Last(nodes).text \in Seq(Token)
    <3>1. Last(nodes) = nodes[k] /\ nodes[k] \in NodeSet
      BY <1>2, <2>1, <2>2 DEF Last, Tree
    <3> QED  BY <3>1, TextTyped
  <2> HIDE DEF m
  <2>5. /\ Tree(u) /\ Len(u) = m /\ \A j \in 1 .. m : u[j] = nodes[j]
        /\ \A j \in 0 .. m : Above(u, j) = Above(nodes, j)
    BY <1>2, <2>3, ShrinkTree
  <2>6. Encloses(u, p) /\ Encloses(u, n)
    BY <1>2, <1>10, <2>3, ShrinkEncloses
  <2>7. Ns(u)
    BY <1>2, <2>3, NsShrinks
  <2> HIDE DEF u
  <2>8. m <= Len(u) /\ \A j \in 1 .. m : nodes[j] = u[j]
    BY <2>3, <2>5
  <2>9. Call(u, g)
    <3>1. g.cur <= m
      BY <1>7, <2>3
    <3> QED  BY <1>2, <1>7, <1>8, <2>3, <2>5, <2>8, <3>1, CallLocal
  <2>10. Parsing(u, gs)
    <3>1. Encloses(u, g.cur) /\ g.root = Last(frames).root /\ g.root <= m
      BY <1>2, <1>7, <2>3, <2>6
    <3> QED  BY <1>2, <1>7, <2>3, <2>5, <2>8, <2>9, <3>1, Goes
  <2>11. /\ f \in FrameSet /\ f.root = n /\ f.cur = n /\ Call(u, f)
    <3>1. u[n].name \in Reparse
      BY <1>12, <2>3, <2>5 DEF Reparses
    <3>2. \A j \in Above(u, n) : u[j].kind = "element"
      <4>1. Above(u, n) = Above(nodes, n) /\ Above(u, n) \subseteq 1 .. n
        BY <1>4, <2>3, <2>5, AboveChain
      <4>2. \A j \in Above(u, n) : u[j] = nodes[j]
        BY <2>3, <2>5, <4>1
      <4>3. \A j \in Above(nodes, top.cur) : nodes[j].kind = "element"
        BY <1>2 DEF Call
      <4> QED  BY <1>9, <4>1, <4>2, <4>3
    <3>3. n \in 1 .. Len(u)
      BY <2>3, <2>5
    <3> QED  BY <2>4, <2>5, <3>1, <3>2, <3>3, ReparseCall
  <2> HIDE DEF f
  <2>12. Last(gs) = g
    <3>1. frames \in Seq(FrameSet) /\ frames # <<>>
      BY DEF Typed, Parsing
    <3> QED  BY <1>7, <3>1 DEF Last
  <2> HIDE DEF gs
  <2>13. Parsing(u, Append(gs, f))
    <3>1. Last(gs).cur < f.root
      BY <1>6, <1>7, <2>11, <2>12
    <3>2. Above(u, Last(gs).cur) \subseteq Above(u, f.root)
      BY <1>7, <1>9, <2>3, <2>5, <2>11, <2>12
    <3>3. Encloses(u, f.cur)
      BY <2>6, <2>11
    <3> QED  BY <2>10, <2>11, <3>1, <3>2, <3>3, Calls
  <2> QED  BY <1>1, <1>12, <2>7, <2>13 DEF Typed
<1> QED  BY <1>11, <1>12

-----------------------------------------------------------------------------
(* Documents parsed to their end. *)

(* A node is a leaf, a text of tokens or an element with a name. *)
LEMMA NodeKinds ==
    ASSUME NEW node \in NodeSet
    PROVE  \/ node.kind = "leaf" /\ node.made = "tag" /\ node.name = Leaf.name
           \/ node.kind = "text" /\ node.made = "tag"
           \/ node.kind = "element" /\ node.name \in STRING /\ node.made \in {"tag", "orphan"}
<1>1. CASE \E p \in Nat : node = LeafNode(p)
  BY <1>1 DEF LeafNode, Node, Leaf
<1>2. CASE \E p \in Nat, text \in Seq(Token) : node = TextNode(p, text)
  BY <1>2 DEF TextNode, Node
<1>3. CASE node \in [kind : {"element"}, name : STRING, parent : Nat, ns : BOOLEAN,
                     text : {<<>>}, made : {"tag", "orphan"}]
  BY <1>3
<1> QED  BY <1>1, <1>2, <1>3 DEF NodeSet

(* A tag of a name is a token. *)
LEMMA TagsTyped ==
    ASSUME NEW name \in STRING
    PROVE  Start(name) \in Token /\ Self(name) \in Token /\ End(name) \in Token /\ Leaf \in Token
  BY DEF Start, Self, End, Token

(* The texts of the children of n, and those of its children only. *)
ChildTexts(t, n, text) == [k \in DOMAIN t |-> IF t[k].parent = n THEN text[k] ELSE <<>>]

(* What is written inside a node are tokens, if what is written of its children are. *)
LEMMA InsideTyped ==
    ASSUME NEW t, Tree(t), NEW n, NEW text, \A k \in DOMAIN t : t[k].parent = n => text[k] \in Seq(Token)
    PROVE  Inside(t, n, text) \in Seq(Token)
<1>1. DOMAIN t = 1 .. Len(t) /\ Len(t) \in Nat
  BY DEF Tree
<1>2. \A k \in 1 .. Len(t) : (IF t[k].parent = n THEN text[k] ELSE <<>>) \in Seq(Token)
  BY <1>1
<1>3. ChildTexts(t, n, text) \in Seq(Seq(Token))
  BY <1>1, <1>2 DEF ChildTexts
<1>4. FlattenSeq(ChildTexts(t, n, text)) \in Seq(Token)
  BY <1>3, FlattenIs
<1>5. Inside(t, n, text) = FlattenSeq(ChildTexts(t, n, text))
  BY Zenon DEF Inside, ChildTexts
<1> QED  BY <1>4, <1>5

(* What is written of a node are tokens, when what is written of its children
   are. *)
LEMMA WriteTyped ==
    ASSUME NEW t, Tree(t), NEW n \in DOMAIN t, NEW text,
           \A k \in DOMAIN t : t[k].parent = n => text[k] \in Seq(Token)
    PROVE  Write(t, n, text) \in Seq(Token)
<1> DEFINE I == Inside(t, n, text)
           W == Write(t, n, text)
           e == t[n]
<1>1. I \in Seq(Token)
  BY InsideTyped
<1>2. e \in NodeSet
  BY DEF Tree
<1> HIDE DEF e
<1>3. CASE e.kind = "leaf"
  <2>1. W = <<Leaf>>
    BY <1>3 DEF Write, e
  <2>2. Leaf \in Token
    BY DEF Token
  <2> QED  BY <2>1, <2>2
<1>4. CASE e.kind = "text"
  <2>1. W = e.text
    BY <1>4 DEF Write, e
  <2> QED  BY <1>2, <2>1, TextTyped
<1>5. CASE e.kind = "element" /\ e.name \in STRING
  <2>1. \/ W = <<Self(e.name)>>
        \/ W = <<Start(e.name)>>
        \/ W = <<Start(e.name)>> \o I \o <<End(e.name)>>
    BY <1>5 DEF Write, e
  <2>2. Start(e.name) \in Token /\ Self(e.name) \in Token /\ End(e.name) \in Token
    BY <1>5, TagsTyped
  <2> HIDE DEF I, W
  <2>3. <<Start(e.name)>> \o I \in Seq(Token) /\ <<End(e.name)>> \in Seq(Token)
    BY <1>1, <2>2
  <2>4. <<Start(e.name)>> \o I \o <<End(e.name)>> \in Seq(Token)
    BY <2>3
  <2>5. <<Start(e.name)>> \in Seq(Token) /\ <<Self(e.name)>> \in Seq(Token)
    BY <2>2
  <2>6. W \in Seq(Token)
    BY <2>1, <2>4, <2>5, Zenon
  <2> QED  BY <2>6 DEF W
<1> QED  BY <1>2, <1>3, <1>4, <1>5, NodeKinds

(* Only what is written of the children of a node matters to it. *)
LEMMA WriteLocal ==
    ASSUME NEW t, NEW n, NEW v, NEW w, \A k \in DOMAIN t : t[k].parent = n => v[k] = w[k]
    PROVE  Write(t, n, v) = Write(t, n, w)
<1>1. ChildTexts(t, n, v) = ChildTexts(t, n, w)
  BY DEF ChildTexts
<1>2. Inside(t, n, v) = Inside(t, n, w)
  BY <1>1, Zenon DEF Inside, ChildTexts
<1> QED  BY <1>2, Zenon DEF Write

(* w says what is written of the last m nodes. *)
WrittenLast(t, m, w) == /\ w \in [DOMAIN t -> Seq(Token)]
                        /\ \A n \in DOMAIN t : n + m > Len(t) => w[n] = Write(t, n, w)

(* The recursive function inside Render exists. *)
LEMMA WrittenExists ==
    ASSUME NEW t, Tree(t)
    PROVE  \E w : w = [n \in DOMAIN t |-> Write(t, n, w)]
<1>1. /\ Len(t) \in Nat /\ DOMAIN t = 1 .. Len(t)
      /\ \A k \in DOMAIN t : t[k].parent \in 0 .. k - 1
  BY DEF Tree
<1> DEFINE G == {m \in Nat : m <= Len(t) => \E w : WrittenLast(t, m, w)}
<1>2. 0 \in G
  <2>1. [n \in DOMAIN t |-> <<>>] \in [DOMAIN t -> Seq(Token)]
    OBVIOUS
  <2>2. \A n \in DOMAIN t : ~(n + 0 > Len(t))
    BY <1>1
  <2>3. WrittenLast(t, 0, [n \in DOMAIN t |-> <<>>])
    BY <2>1, <2>2, Zenon DEF WrittenLast
  <2> QED  BY <2>3
<1>3. ASSUME NEW m \in Nat, m \in G
      PROVE  m + 1 \in G
  <2> SUFFICES ASSUME m + 1 <= Len(t) PROVE \E w : WrittenLast(t, m + 1, w)
    OBVIOUS
  <2>1. m <= Len(t)
    BY <1>1
  <2>2. PICK w : WrittenLast(t, m, w)
    BY <1>3, <2>1
  <2>3. w \in [DOMAIN t -> Seq(Token)]
    BY <2>2 DEF WrittenLast
  <2> DEFINE x == Len(t) - m
             text == Write(t, x, w)
             v == [w EXCEPT ![x] = text]
  <2>4. x \in DOMAIN t /\ x \in Nat
    BY <1>1
  <2>5. text \in Seq(Token)
    <3>1. \A k \in DOMAIN t : t[k].parent = x => w[k] \in Seq(Token)
      BY <2>3
    <3> HIDE DEF x
    <3> QED  BY <2>4, <3>1, WriteTyped
  <2> HIDE DEF text
  <2>6. v \in [DOMAIN t -> Seq(Token)] /\ v[x] = text /\ \A k \in DOMAIN t : k # x => v[k] = w[k]
    BY <2>3, <2>4, <2>5
  <2> HIDE DEF v
  <2>7. ASSUME NEW n \in DOMAIN t, n + (m + 1) > Len(t)
        PROVE  v[n] = Write(t, n, v)
    <3>1. n >= x /\ n \in Nat
      BY <1>1, <2>7
    <3>2. \A k \in DOMAIN t : t[k].parent = n => v[k] = w[k]
      <4>1. \A k \in DOMAIN t : t[k].parent = n => k # x
        BY <1>1, <2>4, <3>1
      <4> QED  BY <2>6, <4>1
    <3>3. Write(t, n, v) = Write(t, n, w)
      BY <3>2, WriteLocal
    <3>4. CASE n = x
      BY <2>6, <3>3, <3>4 DEF text
    <3>5. CASE n # x
      <4>1. n + m > Len(t)
        BY <1>1, <2>4, <3>1, <3>5
      <4>2. w[n] = Write(t, n, w)
        BY <2>2, <4>1 DEF WrittenLast
      <4> QED  BY <2>6, <3>3, <3>5, <4>2
    <3> QED  BY <3>4, <3>5
  <2>8. WrittenLast(t, m + 1, v)
    BY <2>6, <2>7 DEF WrittenLast
  <2> QED  BY <2>8
<1> HIDE DEF G
<1>4. \A m \in Nat : m \in G
  BY <1>2, <1>3, SetInduction
<1>5. PICK w : WrittenLast(t, Len(t), w)
  BY <1>1, <1>4 DEF G
<1>6. \A n \in DOMAIN t : n + Len(t) > Len(t)
  BY <1>1
<1>7. w = [n \in DOMAIN t |-> Write(t, n, w)]
  <2>1. \A n \in DOMAIN t : w[n] = Write(t, n, w)
    BY <1>5, <1>6 DEF WrittenLast
  <2>2. w = [n \in DOMAIN t |-> w[n]]
    BY <1>5 DEF WrittenLast
  <2> QED  BY <2>1, <2>2, Zenon
<1> QED  BY <1>7

(* What is written of every node are tokens. *)
LEMMA WrittenTyped ==
    ASSUME NEW t, Tree(t), NEW w, w = [n \in DOMAIN t |-> Write(t, n, w)]
    PROVE  \A n \in DOMAIN t : w[n] \in Seq(Token)
<1>1. /\ Len(t) \in Nat /\ DOMAIN t = 1 .. Len(t)
      /\ \A k \in DOMAIN t : t[k].parent \in 0 .. k - 1
  BY DEF Tree
<1>2. \A n \in DOMAIN t : w[n] = Write(t, n, w)
  <2> DEFINE W(n) == Write(t, n, w)
  <2>1. w = [n \in DOMAIN t |-> W(n)]
    BY Zenon
  <2> HIDE DEF W
  <2>2. \A n \in DOMAIN t : w[n] = W(n)
    BY <2>1
  <2> QED  BY <2>2 DEF W
<1> DEFINE G == {m \in Nat : \A n \in DOMAIN t : n + m > Len(t) => w[n] \in Seq(Token)}
<1>3. 0 \in G
  BY <1>1
<1>4. ASSUME NEW m \in Nat, m \in G
      PROVE  m + 1 \in G
  <2> SUFFICES ASSUME NEW n \in DOMAIN t, n + (m + 1) > Len(t) PROVE w[n] \in Seq(Token)
    OBVIOUS
  <2>1. \A k \in DOMAIN t : t[k].parent = n => k + m > Len(t)
    BY <1>1
  <2>2. \A k \in DOMAIN t : t[k].parent = n => w[k] \in Seq(Token)
    BY <1>4, <2>1
  <2>3. Write(t, n, w) \in Seq(Token)
    BY <2>2, WriteTyped
  <2> QED  BY <1>2, <2>3
<1> HIDE DEF G
<1>5. \A m \in Nat : m \in G
  BY <1>3, <1>4, SetInduction
<1>6. Len(t) \in G /\ \A n \in DOMAIN t : n + Len(t) > Len(t)
  BY <1>1, <1>5
<1> QED  BY <1>6 DEF G

(* What a tree is written as can be parsed. *)
LEMMA RenderTyped ==
    ASSUME NEW t, Tree(t)
    PROVE  Render(t) \in Seq(Token)
<1>1. PICK w : /\ w = [n \in DOMAIN t |-> Write(t, n, w)]
               /\ Render(t) = Inside(t, 0, w)
  BY WrittenExists, Zenon DEF Render
<1>2. \A n \in DOMAIN t : w[n] \in Seq(Token)
  BY <1>1, WrittenTyped
<1> QED  BY <1>1, <1>2, InsideTyped

(* The parse of a document, or of what was written, starts with one call. *)
LEMMA StartsTyped ==
    ASSUME NEW text \in Seq(Token)
    PROVE  Parsing(<<>>, <<Frame(0, text)>>) /\ Ns(<<>>)
<1> DEFINE f == Frame(0, text)
<1>1. Tree(<<>>) /\ Ns(<<>>)
  BY DEF Tree, Ns
<1>2. f \in FrameSet /\ f.root = 0 /\ f.cur = 0 /\ f.foreign = 0
  BY DEF Frame, FrameSet, NoneOrRaw
<1>3. Above(<<>>, 0) = {}
  BY <1>1, AboveIs
<1> HIDE DEF f
<1>4. Open(<<>>, f.root, f.cur) = {} /\ ForeignIn(<<>>, {}) = {}
  BY <1>2, <1>3 DEF Open, ForeignIn
<1>5. f.foreign = Cardinality(ForeignIn(<<>>, Open(<<>>, f.root, f.cur)))
  BY <1>2, <1>4, FS_EmptySet
<1>6. Call(<<>>, f)
  BY <1>2, <1>3, <1>4, <1>5 DEF Call
<1>7. /\ <<f>> \in Seq(FrameSet) /\ <<f>> # <<>> /\ DOMAIN <<f>> = {1} /\ Last(<<f>>) = f /\ <<f>>[1] = f
  BY <1>2 DEF Last
<1>8. Stacked(<<>>, <<f>>) /\ \A i \in DOMAIN <<f>> : Call(<<>>, <<f>>[i])
  BY <1>6, <1>7 DEF Stacked
<1>9. Encloses(<<>>, Last(<<f>>).cur)
  BY <1>2, <1>3, <1>7 DEF Encloses
<1> QED  BY <1>1, <1>7, <1>8, <1>9 DEF Parsing, f

(* The source is parsed: what was written is parsed from the start. *)
LEMMA SourceParsedTyped ==
    ASSUME Typed, Ns(nodes), SourceParsed
    PROVE  Typed' /\ Ns(nodes')
<1>1. phase' = "rendered" /\ nodes' = <<>> /\ frames' = <<Frame(0, Render(nodes))>>
  BY DEF SourceParsed
<1>2. Render(nodes) \in Seq(Token)
  BY TopIs, RenderTyped
<1> QED  BY <1>1, <1>2, StartsTyped DEF Typed

(* The second parse ends with the state as it is. *)
LEMMA RenderedParsedTyped ==
    ASSUME Typed, Ns(nodes), RenderedParsed
    PROVE  Typed' /\ Ns(nodes')
<1>1. phase' = "done" /\ nodes' = nodes /\ frames' = frames
  BY DEF RenderedParsed
<1> QED  BY <1>1 DEF Typed

(* Init establishes the invariant. *)
LEMMA InitTyped == Init => Typed /\ Ns(nodes)
<1> SUFFICES ASSUME Init PROVE Typed /\ Ns(nodes)
  OBVIOUS
<1>1. doc \in Seq(Token)
  BY DocumentsAssumption DEF Init
<1>2. phase = "source" /\ nodes = <<>> /\ frames = <<Frame(0, doc)>>
  BY DEF Init
<1> QED  BY <1>1, <1>2, StartsTyped DEF Typed

(* Every step keeps the invariant. *)
LEMMA NextTyped == Typed /\ Ns(nodes) /\ [Next]_vars => (Typed /\ Ns(nodes))'
<1> SUFFICES ASSUME Typed, Ns(nodes), [Next]_vars
             PROVE  Typed' /\ Ns(nodes')
  BY DEF Ns
<1>1. CASE RawText
  BY <1>1, RawTextTyped
<1>2. CASE LeafToken
  BY <1>2, LeafTokenTyped
<1>3. CASE StartTag
  BY <1>3, StartTagTyped
<1>4. CASE EndTag
  BY <1>4, EndTagTyped
<1>5. CASE UnmatchedEndTag
  BY <1>5, UnmatchedEndTagTyped
<1>6. CASE ReturnFromReparse
  BY <1>6, ReturnTyped
<1>7. CASE SourceParsed
  BY <1>7, SourceParsedTyped
<1>8. CASE RenderedParsed
  BY <1>8, RenderedParsedTyped
<1>9. CASE UNCHANGED vars
  BY <1>9 DEF vars, Typed
<1> QED  BY <1>1, <1>2, <1>3, <1>4, <1>5, <1>6, <1>7, <1>8, <1>9 DEF Next

(* So it holds always. *)
LEMMA AlwaysTyped == Spec => [](Typed /\ Ns(nodes))
  BY InitTyped, NextTyped, PTL DEF Spec

(* The invariant says of every call what TypeOK says. *)
LEMMA TypedIsTypeOK == Typed => TypeOK
<1> SUFFICES ASSUME Typed PROVE TypeOK
  OBVIOUS
<1>1. /\ phase \in {"source", "rendered", "done"}
      /\ Parsing(nodes, frames) /\ Tree(nodes)
  BY DEF Typed, Parsing
<1>2. ASSUME NEW n \in DOMAIN nodes
      PROVE  /\ nodes[n].kind \in {"leaf", "text", "element"}
             /\ nodes[n].parent \in 0 .. n - 1
             /\ nodes[n].parent # 0 => nodes[nodes[n].parent].kind = "element"
  <2>1. nodes[n] \in NodeSet
    BY <1>1 DEF Tree
  <2> QED  BY <1>1, <2>1, NodeKinds DEF Tree
<1>3. /\ Len(frames) \in Nat \ {0} /\ DOMAIN frames = 1 .. Len(frames)
      /\ \A i \in 1 .. Len(frames) : frames[i] \in FrameSet /\ Call(nodes, frames[i])
  BY <1>1, CallersAbove
<1>4. ASSUME NEW i \in DOMAIN frames
      PROVE  /\ frames[i].root \in 0 .. Len(nodes) /\ frames[i].cur \in 0 .. Len(nodes)
             /\ \A k \in DOMAIN frames[i].input : frames[i].input[k] \in Token
             /\ i > 1 => frames[i].root > frames[i - 1].root
             /\ ForeignCounted(frames[i])
  <2> DEFINE f == frames[i]
  <2>1. f \in FrameSet /\ Call(nodes, f) /\ i \in 1 .. Len(frames)
    BY <1>3
  <2>2. /\ Len(nodes) \in Nat /\ f.root \in Nat /\ f.cur \in Nat
        /\ f.root <= f.cur /\ f.cur <= Len(nodes)
    BY <1>1, <2>1, CallBounds
  <2>3. f.input \in Seq(Token)
    BY <2>1 DEF FrameSet
  <2>4. ASSUME i > 1 PROVE f.root > frames[i - 1].root
    <3>1. i - 1 \in 1 .. Len(frames) /\ i - 1 < i
      BY <1>3, <2>1, <2>4
    <3>2. frames[i - 1].cur < f.root
      BY <1>1, <1>3, <2>1, <3>1 DEF Parsing, Stacked
    <3>3. frames[i - 1] \in FrameSet /\ Call(nodes, frames[i - 1])
      BY <1>3, <3>1
    <3>4. /\ frames[i - 1].root \in Nat /\ frames[i - 1].cur \in Nat
          /\ frames[i - 1].root <= frames[i - 1].cur
      BY <1>1, <3>3, CallBounds
    <3> HIDE DEF f
    <3> QED  BY <2>2, <3>2, <3>4
  <2>5. ForeignCounted(f)
    <3>1. ForeignOf(OpenIn(f)) = ForeignIn(nodes, Open(nodes, f.root, f.cur))
      BY DEF ForeignOf, OpenIn, ForeignIn, Open
    <3> QED  BY <2>1, <3>1 DEF ForeignCounted, Call
  <2>6. f.root \in 0 .. Len(nodes) /\ f.cur \in 0 .. Len(nodes)
    BY <2>2
  <2> QED  BY <2>3, <2>4, <2>5, <2>6
<1> QED  BY <1>1, <1>2, <1>4 DEF TypeOK

(***************************************************************************)
(* The tree is a tree in document order, the calls of parseDocument are    *)
(* nested and append inside it, and each knows how many foreign elements   *)
(* it holds open, in documents of any length.                              *)
(***************************************************************************)
THEOREM TypeCorrect == Spec => []TypeOK
  BY AlwaysTyped, TypedIsTypeOK, PTL

(***************************************************************************)
(* An element of a start tag is namespaced exactly when it is foreign      *)
(* itself or stands in foreign content, however deep its call of           *)
(* parseDocument and whatever was popped before it.                        *)
(***************************************************************************)
THEOREM NamespaceRight == Spec => []NamespaceFromContext
<1>1. Ns(nodes) => NamespaceFromContext
  BY DEF Ns, NamespaceFromContext
<1> QED  BY <1>1, AlwaysTyped, PTL

-----------------------------------------------------------------------------
(* What a document says and what its tree says. *)

(* What is said is a sequence of names. *)
Words == STRING \union {Leaf.name}

SaidToken(tok) == IF tok.kind = "end" THEN <<>> ELSE <<tok.name>>

SaidList(tokens) == [i \in DOMAIN tokens |-> SaidToken(tokens[i])]

(* A token says one name or nothing. *)
LEMMA SaidTokenTyped ==
    ASSUME NEW tok \in Token
    PROVE  SaidToken(tok) \in Seq(Words)
<1>1. tok.name \in Words
  BY DEF Token, Words
<1> HIDE DEF Words
<1> QED  BY <1>1 DEF SaidToken

(* What a text says, token by token. *)
LEMMA SaidIs ==
    ASSUME NEW s \in Seq(Token)
    PROVE  /\ Said(s) = FlattenSeq(SaidList(s))
           /\ SaidList(s) \in Seq(Seq(Words)) /\ Len(SaidList(s)) = Len(s)
           /\ DOMAIN SaidList(s) = DOMAIN s
           /\ \A i \in DOMAIN s : SaidList(s)[i] = SaidToken(s[i])
           /\ Said(s) \in Seq(Words)
<1>1. Said(s) = FlattenSeq(SaidList(s))
  BY Zenon DEF Said, SaidList, SaidToken
<1>2. Len(s) \in Nat /\ DOMAIN s = 1 .. Len(s)
  OBVIOUS
<1>3. \A i \in 1 .. Len(s) : SaidToken(s[i]) \in Seq(Words)
  BY SaidTokenTyped
<1>4. SaidList(s) = [i \in 1 .. Len(s) |-> SaidToken(s[i])]
  BY <1>2 DEF SaidList
<1>5. SaidList(s) \in Seq(Seq(Words)) /\ Len(SaidList(s)) = Len(s)
  BY <1>2, <1>3, <1>4
<1>6. DOMAIN SaidList(s) = DOMAIN s /\ \A i \in DOMAIN s : SaidList(s)[i] = SaidToken(s[i])
  BY DEF SaidList
<1>7. FlattenSeq(SaidList(s)) \in Seq(Words)
  BY <1>5, FlattenIs
<1> QED  BY <1>1, <1>5, <1>6, <1>7

(* What a concatenation is. *)
LEMMA ConcatIs ==
    ASSUME NEW S, NEW a \in Seq(S), NEW b \in Seq(S), NEW c \in Seq(S),
           Len(c) = Len(a) + Len(b), \A i \in 1 .. Len(a) : c[i] = a[i],
           \A i \in 1 .. Len(b) : c[Len(a) + i] = b[i]
    PROVE  c = a \o b
<1> DEFINE d == a \o b
<1>1. /\ d \in Seq(S) /\ Len(d) = Len(a) + Len(b)
      /\ \A i \in 1 .. Len(d) : d[i] = IF i <= Len(a) THEN a[i] ELSE b[i - Len(a)]
      /\ Len(a) \in Nat /\ Len(b) \in Nat
  OBVIOUS
<1> HIDE DEF d
<1>2. ASSUME NEW i \in 1 .. Len(d) PROVE c[i] = d[i]
  <2>1. CASE i <= Len(a)
    BY <1>1, <2>1
  <2>2. CASE i > Len(a)
    <3>1. i - Len(a) \in 1 .. Len(b) /\ Len(a) + (i - Len(a)) = i /\ ~(i <= Len(a))
      BY <1>1, <2>2
    <3>2. c[Len(a) + (i - Len(a))] = b[i - Len(a)]
      BY <3>1
    <3> QED  BY <1>1, <3>1, <3>2
  <2> QED  BY <1>1, <2>1, <2>2
<1>3. c = d
  BY <1>1, <1>2
<1> QED  BY <1>3 DEF d

(* Two texts in a row say what the one says and then what the other says. *)
LEMMA SaidConcat ==
    ASSUME NEW a \in Seq(Token), NEW b \in Seq(Token)
    PROVE  Said(a \o b) = Said(a) \o Said(b)
<1> DEFINE c == a \o b
<1>1. /\ c \in Seq(Token) /\ Len(c) = Len(a) + Len(b)
      /\ \A i \in 1 .. Len(c) : c[i] = IF i <= Len(a) THEN a[i] ELSE b[i - Len(a)]
  OBVIOUS
<1> HIDE DEF c
<1> DEFINE A == SaidList(a)
           B == SaidList(b)
           C == SaidList(c)
<1>2. /\ A \in Seq(Seq(Words)) /\ Len(A) = Len(a) /\ \A i \in 1 .. Len(a) : A[i] = SaidToken(a[i])
      /\ B \in Seq(Seq(Words)) /\ Len(B) = Len(b) /\ \A i \in 1 .. Len(b) : B[i] = SaidToken(b[i])
      /\ C \in Seq(Seq(Words)) /\ Len(C) = Len(c) /\ \A i \in 1 .. Len(c) : C[i] = SaidToken(c[i])
  BY <1>1, SaidIs
<1>3. Said(a) = FlattenSeq(A) /\ Said(b) = FlattenSeq(B) /\ Said(c) = FlattenSeq(C)
  BY <1>1, SaidIs
<1> HIDE DEF A, B, C
<1>4. C = A \o B
  <2>1. Len(a) \in Nat /\ Len(b) \in Nat /\ Len(C) = Len(A) + Len(B)
    BY <1>1, <1>2
  <2>2. ASSUME NEW i \in 1 .. Len(A) PROVE C[i] = A[i]
    <3>1. i \in 1 .. Len(a) /\ i \in 1 .. Len(c) /\ c[i] = a[i]
      BY <1>1, <1>2, <2>1
    <3> QED  BY <1>2, <3>1
  <2>3. ASSUME NEW i \in 1 .. Len(B) PROVE C[Len(A) + i] = B[i]
    <3>1. i \in 1 .. Len(b) /\ Len(a) + i \in 1 .. Len(c) /\ ~(Len(a) + i <= Len(a))
          /\ (Len(a) + i) - Len(a) = i
      BY <1>1, <1>2, <2>1
    <3>2. c[Len(a) + i] = b[i]
      BY <1>1, <3>1
    <3> QED  BY <1>2, <3>1, <3>2
  <2> QED  BY <1>2, <2>1, <2>2, <2>3, ConcatIs
<1>5. FlattenSeq(A \o B) = FlattenSeq(A) \o FlattenSeq(B)
  BY <1>2, FlattenConcat
<1> QED  BY <1>3, <1>4, <1>5 DEF c

(* An empty text says nothing. *)
LEMMA SaidEmpty == Said(<<>>) = <<>>
<1>1. SaidList(<<>>) = <<>> /\ <<>> \in Seq(Token)
  BY DEF SaidList
<1>2. FlattenSeq(<<>>) = <<>>
  BY DEF FlattenSeq
<1> QED  BY <1>1, <1>2, SaidIs

(* A text says what its first token says and then what is left of it says. *)
LEMMA SaidFirst ==
    ASSUME NEW s \in Seq(Token), s # <<>>
    PROVE  Said(s) = SaidToken(Head(s)) \o Said(Tail(s))
<1> DEFINE h == Head(s)
           r == Tail(s)
<1>1. h \in Token /\ r \in Seq(Token) /\ s = <<h>> \o r
  OBVIOUS
<1> HIDE DEF h, r
<1>0. <<h>> \in Seq(Token)
  BY <1>1
<1>2. Said(s) = Said(<<h>>) \o Said(r)
  <2>1. Said(<<h>> \o r) = Said(<<h>>) \o Said(r)
    BY <1>0, <1>1, SaidConcat
  <2> QED  BY <1>1, <2>1
<1>3. Said(<<h>>) = SaidToken(h)
  <2>1. SaidList(<<h>>) = <<SaidToken(h)>>
    BY DEF SaidList
  <2>2. SaidToken(h) \in Seq(Words)
    BY <1>1, SaidTokenTyped
  <2>3. FlattenSeq(<<SaidToken(h)>>) = SaidToken(h)
    BY <2>2, FlattenOne
  <2>4. Said(<<h>>) = FlattenSeq(SaidList(<<h>>))
    BY <1>0, SaidIs
  <2> QED  BY <2>1, <2>3, <2>4
<1> QED  BY <1>2, <1>3 DEF h, r

(* What the nodes of a tree stand for, the last one after the others. *)
LEMMA SaidByTyped ==
    ASSUME NEW node \in NodeSet
    PROVE  SaidBy(node) \in Seq(Words)
<1>1. CASE node.kind = "text"
  <2>1. node.text \in Seq(Token)
    BY TextTyped
  <2>2. Said(node.text) \in Seq(Words)
    BY <2>1, SaidIs
  <2> QED  BY <1>1, <2>2 DEF SaidBy
<1>2. CASE node.kind # "text" /\ node.made = "orphan"
  BY <1>2 DEF SaidBy
<1>3. CASE node.kind # "text" /\ node.made # "orphan"
  <2>1. SaidBy(node) = <<node.name>>
    BY <1>3 DEF SaidBy
  <2>2. node.name \in Words
    BY <1>3, NodeKinds DEF Words
  <2> HIDE DEF Words
  <2> QED  BY <2>1, <2>2
<1> QED  BY <1>1, <1>2, <1>3

SaidByAll(t) == [n \in DOMAIN t |-> SaidBy(t[n])]

(* What a tree says, node by node. *)
LEMMA SaidInIs ==
    ASSUME NEW t \in Seq(NodeSet)
    PROVE  /\ SaidIn(t) = FlattenSeq(SaidByAll(t))
           /\ SaidByAll(t) \in Seq(Seq(Words)) /\ Len(SaidByAll(t)) = Len(t)
           /\ \A n \in 1 .. Len(t) : SaidByAll(t)[n] = SaidBy(t[n])
           /\ SaidIn(t) \in Seq(Words)
<1>1. SaidIn(t) = FlattenSeq(SaidByAll(t))
  BY Zenon DEF SaidIn, SaidByAll
<1>2. Len(t) \in Nat /\ DOMAIN t = 1 .. Len(t)
  OBVIOUS
<1>3. \A n \in 1 .. Len(t) : SaidBy(t[n]) \in Seq(Words)
  BY SaidByTyped
<1>4. SaidByAll(t) = [n \in 1 .. Len(t) |-> SaidBy(t[n])]
  BY <1>2 DEF SaidByAll
<1>5. SaidByAll(t) \in Seq(Seq(Words)) /\ Len(SaidByAll(t)) = Len(t)
  BY <1>2, <1>3, <1>4
<1>6. \A n \in 1 .. Len(t) : SaidByAll(t)[n] = SaidBy(t[n])
  BY <1>4
<1>7. FlattenSeq(SaidByAll(t)) \in Seq(Words)
  BY <1>5, FlattenIs
<1> QED  BY <1>1, <1>5, <1>6, <1>7

(* A tree with one node more says what that node stands for after the rest. *)
LEMMA SaidInGrows ==
    ASSUME NEW t \in Seq(NodeSet), NEW u \in Seq(NodeSet), Len(u) = Len(t) + 1,
           \A n \in 1 .. Len(t) : u[n] = t[n]
    PROVE  SaidIn(u) = SaidIn(t) \o SaidBy(u[Len(u)])
<1> DEFINE A == SaidByAll(t)
           B == SaidByAll(u)
<1>1. /\ SaidIn(t) = FlattenSeq(A) /\ A \in Seq(Seq(Words)) /\ Len(A) = Len(t)
      /\ \A n \in 1 .. Len(t) : A[n] = SaidBy(t[n])
      /\ SaidIn(u) = FlattenSeq(B) /\ B \in Seq(Seq(Words)) /\ Len(B) = Len(u)
      /\ \A n \in 1 .. Len(u) : B[n] = SaidBy(u[n])
  BY SaidInIs
<1> HIDE DEF A, B
<1>2. Len(t) \in Nat /\ Len(B) = Len(A) + 1 /\ DOMAIN A = 1 .. Len(t) /\ Len(u) \in 1 .. Len(u)
  BY <1>1
<1>3. \A n \in DOMAIN A : B[n] = A[n]
  BY <1>1, <1>2
<1>4. FlattenSeq(B) = FlattenSeq(A) \o B[Len(B)]
  BY <1>1, <1>2, <1>3, FlattenAppend
<1> QED  BY <1>1, <1>2, <1>4

(* What is left to be said, of the innermost call before its callers. *)
LeftList(fs) == [i \in DOMAIN fs |-> Said(fs[Len(fs) + 1 - i].input)]

(* What is left to be said, call by call. *)
LEMMA LeftIs ==
    ASSUME NEW fs \in Seq(FrameSet)
    PROVE  /\ Left(fs) = FlattenSeq(LeftList(fs))
           /\ LeftList(fs) \in Seq(Seq(Words)) /\ Len(LeftList(fs)) = Len(fs)
           /\ \A i \in 1 .. Len(fs) : LeftList(fs)[i] = Said(fs[Len(fs) + 1 - i].input)
           /\ Left(fs) \in Seq(Words)
<1>1. Left(fs) = FlattenSeq(LeftList(fs))
  BY Zenon DEF Left, LeftList
<1>2. Len(fs) \in Nat /\ DOMAIN fs = 1 .. Len(fs)
  OBVIOUS
<1>3. \A i \in 1 .. Len(fs) : Said(fs[Len(fs) + 1 - i].input) \in Seq(Words)
  <2> SUFFICES ASSUME NEW i \in 1 .. Len(fs) PROVE Said(fs[Len(fs) + 1 - i].input) \in Seq(Words)
    OBVIOUS
  <2>1. Len(fs) + 1 - i \in 1 .. Len(fs)
    BY <1>2
  <2>2. fs[Len(fs) + 1 - i].input \in Seq(Token)
    <3>1. fs[Len(fs) + 1 - i] \in FrameSet
      BY <2>1
    <3> QED  BY <3>1 DEF FrameSet
  <2> QED  BY <2>2, SaidIs
<1>4. LeftList(fs) = [i \in 1 .. Len(fs) |-> Said(fs[Len(fs) + 1 - i].input)]
  BY <1>2 DEF LeftList
<1>5. LeftList(fs) \in Seq(Seq(Words)) /\ Len(LeftList(fs)) = Len(fs)
  BY <1>2, <1>3, <1>4
<1>6. \A i \in 1 .. Len(fs) : LeftList(fs)[i] = Said(fs[Len(fs) + 1 - i].input)
  BY <1>4
<1>7. FlattenSeq(LeftList(fs)) \in Seq(Words)
  BY <1>5, FlattenIs
<1> QED  BY <1>1, <1>5, <1>6, <1>7

(* A new call says what it has to read before all others. *)
LEMMA LeftPushed ==
    ASSUME NEW fs \in Seq(FrameSet), NEW g \in FrameSet
    PROVE  Left(Append(fs, g)) = Said(g.input) \o Left(fs)
<1> DEFINE gs == Append(fs, g)
           A == LeftList(fs)
           B == LeftList(gs)
           h == Said(g.input)
<1>1. /\ gs \in Seq(FrameSet) /\ Len(gs) = Len(fs) + 1 /\ gs[Len(fs) + 1] = g
      /\ \A i \in 1 .. Len(fs) : gs[i] = fs[i]
      /\ Len(fs) \in Nat
  OBVIOUS
<1> HIDE DEF gs
<1>2. /\ Left(fs) = FlattenSeq(A) /\ A \in Seq(Seq(Words)) /\ Len(A) = Len(fs)
      /\ \A i \in 1 .. Len(fs) : A[i] = Said(fs[Len(fs) + 1 - i].input)
  BY LeftIs
<1>3. /\ Left(gs) = FlattenSeq(B) /\ B \in Seq(Seq(Words)) /\ Len(B) = Len(gs)
      /\ \A i \in 1 .. Len(gs) : B[i] = Said(gs[Len(gs) + 1 - i].input)
  BY <1>1, LeftIs
<1>4. h \in Seq(Words)
  <2>1. g.input \in Seq(Token)
    BY DEF FrameSet
  <2> QED  BY <2>1, SaidIs
<1> HIDE DEF A, B, h
<1>5. B[1] = h
  <2>1. 1 \in 1 .. Len(gs) /\ Len(gs) + 1 - 1 = Len(fs) + 1
    BY <1>1
  <2> QED  BY <1>1, <1>3, <2>1 DEF h
<1>6. \A i \in 1 .. Len(fs) : B[i + 1] = A[i]
  <2> SUFFICES ASSUME NEW i \in 1 .. Len(fs) PROVE B[i + 1] = A[i]
    OBVIOUS
  <2>1. /\ i + 1 \in 1 .. Len(gs) /\ Len(gs) + 1 - (i + 1) = Len(fs) + 1 - i
        /\ Len(fs) + 1 - i \in 1 .. Len(fs)
    BY <1>1
  <2>2. B[i + 1] = Said(gs[Len(gs) + 1 - (i + 1)].input)
    BY <1>3, <2>1
  <2>3. gs[Len(gs) + 1 - (i + 1)] = fs[Len(fs) + 1 - i]
    BY <1>1, <2>1
  <2> QED  BY <1>2, <2>2, <2>3
<1>7. B = <<h>> \o A
  <2> DEFINE C == <<h>> \o A
  <2>1. C \in Seq(Seq(Words)) /\ Len(C) = Len(A) + 1 /\ C[1] = h
        /\ \A i \in 2 .. Len(C) : C[i] = A[i - 1]
    BY <1>2, <1>4
  <2> HIDE DEF C
  <2>2. \A i \in 2 .. Len(C) : i - 1 \in 1 .. Len(fs) /\ (i - 1) + 1 = i
    BY <1>1, <1>2, <2>1
  <2>3. \A i \in 1 .. Len(C) : B[i] = C[i]
    BY SMTT(20), <1>5, <1>6, <2>1, <2>2
  <2>4. Len(B) = Len(C)
    BY <1>1, <1>2, <1>3, <2>1
  <2>5. B = C
    BY <1>3, <2>1, <2>3, <2>4
  <2> QED  BY <2>5 DEF C
<1>8. FlattenSeq(<<h>> \o A) = FlattenSeq(<<h>>) \o FlattenSeq(A)
  <2>1. <<h>> \in Seq(Seq(Words))
    BY <1>4
  <2> QED  BY <1>2, <2>1, FlattenConcat
<1>9. FlattenSeq(<<h>>) = h
  BY <1>4, FlattenOne
<1> QED  BY <1>2, <1>3, <1>7, <1>8, <1>9 DEF gs, h

-----------------------------------------------------------------------------
(* The account of every step. *)

(* What the beginning of a sequence is. *)
LEMMA PrefixIs ==
    ASSUME NEW S, NEW s \in Seq(S), NEW m \in Nat, m <= Len(s)
    PROVE  /\ SubSeq(s, 1, m) \in Seq(S) /\ Len(SubSeq(s, 1, m)) = m
           /\ \A i \in 1 .. Len(SubSeq(s, 1, m)) : SubSeq(s, 1, m)[i] = s[i]
  OBVIOUS

(* Reading on in the innermost call: what it appends is what it read. *)
LEMMA LeftFirst ==
    ASSUME NEW fs \in Seq(FrameSet), fs # <<>>
    PROVE  /\ Front(fs) \in Seq(FrameSet) /\ Last(fs) \in FrameSet
           /\ Left(fs) = Said(Last(fs).input) \o Left(Front(fs))
           /\ \A g \in FrameSet :
                 Left([fs EXCEPT ![Len(fs)] = g]) = Said(g.input) \o Left(Front(fs))
<1> DEFINE F == Front(fs)
<1>1. F \in Seq(FrameSet) /\ Len(F) = Len(fs) - 1 /\ Len(fs) \in Nat \ {0}
      /\ Last(fs) = fs[Len(fs)] /\ Last(fs) \in FrameSet
      /\ \A i \in 1 .. Len(F) : F[i] = fs[i]
  <2>1. Len(fs) \in Nat \ {0} /\ Last(fs) = fs[Len(fs)] /\ fs[Len(fs)] \in FrameSet
    BY DEF Last
  <2>2. F = SubSeq(fs, 1, Len(fs) - 1)
    BY DEF Front
  <2> HIDE DEF F
  <2>3. Len(fs) - 1 \in Nat /\ Len(fs) - 1 <= Len(fs)
    BY <2>1
  <2>4. F \in Seq(FrameSet) /\ Len(F) = Len(fs) - 1 /\ \A i \in 1 .. Len(F) : F[i] = fs[i]
    BY <2>2, <2>3, PrefixIs
  <2> QED  BY <2>1, <2>4
<1> HIDE DEF F
<1>2. ASSUME NEW g \in FrameSet
      PROVE  [fs EXCEPT ![Len(fs)] = g] = Append(F, g)
  <2> DEFINE a == [fs EXCEPT ![Len(fs)] = g]
             b == Append(F, g)
  <2>1. a \in Seq(FrameSet) /\ Len(a) = Len(fs) /\ a[Len(fs)] = g
        /\ \A i \in 1 .. Len(fs) : i # Len(fs) => a[i] = fs[i]
    BY <1>1
  <2>2. b \in Seq(FrameSet) /\ Len(b) = Len(F) + 1 /\ b[Len(F) + 1] = g
        /\ \A i \in 1 .. Len(F) : b[i] = F[i]
    BY <1>1
  <2> HIDE DEF a, b
  <2>3. Len(a) = Len(b) /\ \A i \in 1 .. Len(a) : a[i] = b[i]
    BY <1>1, <2>1, <2>2
  <2>4. a = b
    BY <2>1, <2>2, <2>3
  <2> QED  BY <2>4 DEF a, b
<1>3. [fs EXCEPT ![Len(fs)] = Last(fs)] = fs
  BY <1>1
<1>4. \A g \in FrameSet : Left([fs EXCEPT ![Len(fs)] = g]) = Said(g.input) \o Left(F)
  BY <1>1, <1>2, LeftPushed
<1> QED  BY <1>1, <1>3, <1>4 DEF F

(* Tree and rest say together what they said, if they do in the innermost call. *)
LEMMA ReadsOn ==
    ASSUME NEW fs \in Seq(FrameSet), fs # <<>>, NEW g \in FrameSet,
           NEW t \in Seq(NodeSet), NEW u \in Seq(NodeSet),
           SaidIn(u) \o Said(g.input) = SaidIn(t) \o Said(Last(fs).input)
    PROVE  SaidIn(u) \o Left([fs EXCEPT ![Len(fs)] = g]) = SaidIn(t) \o Left(fs)
<1> DEFINE a == SaidIn(u)
           b == Said(g.input)
           c == SaidIn(t)
           d == Said(Last(fs).input)
           r == Left(Front(fs))
<1>1. Left([fs EXCEPT ![Len(fs)] = g]) = b \o r /\ Left(fs) = d \o r
  BY LeftFirst
<1>2. a \in Seq(Words) /\ b \in Seq(Words) /\ c \in Seq(Words) /\ d \in Seq(Words) /\ r \in Seq(Words)
  <2>1. g.input \in Seq(Token)
    BY DEF FrameSet
  <2>2. Last(fs).input \in Seq(Token) /\ Front(fs) \in Seq(FrameSet)
    BY LeftFirst DEF FrameSet
  <2> QED  BY <2>1, <2>2, SaidIs, SaidInIs, LeftIs
<1>3. a \o b = c \o d
  OBVIOUS
<1> HIDE DEF a, b, c, d, r
<1>4. Associative(Words)
  BY Associates
<1>5. a \o (b \o r) = c \o (d \o r)
  <2>1. a \o (b \o r) = (a \o b) \o r
    BY SMTT(20), <1>2, <1>4 DEF Associative
  <2>2. c \o (d \o r) = (c \o d) \o r
    BY SMTT(20), <1>2, <1>4 DEF Associative
  <2> QED  BY <1>3, <2>1, <2>2
<1> QED  BY <1>1, <1>5 DEF a, c

(* A step that reads no document to its end keeps the account when what is in
   the tree and what is left say together what they said before. *)
LEMMA KeepsAccount ==
    ASSUME Accounted, phase' = phase, doc' = doc, first' = first,
           SaidIn(nodes') \o Left(frames') = SaidIn(nodes) \o Left(frames)
    PROVE  Accounted'
  BY DEF Accounted

(* The same of a step that reads on in the innermost call. *)
LEMMA KeepsReading ==
    ASSUME Typed, Typed', Accounted, phase' = phase, doc' = doc, first' = first,
           NEW g \in FrameSet, frames' = [frames EXCEPT ![Len(frames)] = g],
           SaidIn(nodes') \o Said(g.input) = SaidIn(nodes) \o Said(top.input)
    PROVE  Accounted'
<1>1. frames \in Seq(FrameSet) /\ frames # <<>> /\ nodes \in Seq(NodeSet) /\ nodes' \in Seq(NodeSet)
  BY DEF Typed, Parsing, Tree
<1>2. SaidIn(nodes') \o Said(g.input) = SaidIn(nodes) \o Said(Last(frames).input)
  BY DEF top
<1>3. SaidIn(nodes') \o Left([frames EXCEPT ![Len(frames)] = g]) = SaidIn(nodes) \o Left(frames)
  BY <1>1, <1>2, ReadsOn
<1> QED  BY <1>3, KeepsAccount

(* A node appended for a token that says what it stands for. *)
LEMMA KeepsAppended ==
    ASSUME Typed, Typed', Accounted, phase' = phase, doc' = doc, first' = first,
           NEW g \in FrameSet, frames' = [frames EXCEPT ![Len(frames)] = g],
           NEW node \in NodeSet, nodes' = Append(nodes, node),
           SaidBy(node) \o Said(g.input) = Said(top.input)
    PROVE  Accounted'
<1> DEFINE a == SaidIn(nodes)
           b == SaidBy(node)
           c == Said(g.input)
<1>1. nodes \in Seq(NodeSet)
  BY DEF Typed, Parsing, Tree
<1>2. SaidIn(nodes') = a \o b
  <2>1. /\ Append(nodes, node) \in Seq(NodeSet) /\ Len(Append(nodes, node)) = Len(nodes) + 1
        /\ \A n \in 1 .. Len(nodes) : Append(nodes, node)[n] = nodes[n]
        /\ Append(nodes, node)[Len(nodes) + 1] = node
    BY <1>1
  <2> HIDE DEF a, b
  <2> QED  BY <1>1, <2>1, SaidInGrows DEF a, b
<1>3. a \in Seq(Words) /\ b \in Seq(Words) /\ c \in Seq(Words) /\ b \o c = Said(top.input)
  <2>1. g.input \in Seq(Token)
    BY DEF FrameSet
  <2> QED  BY <1>1, <2>1, SaidInIs, SaidByTyped, SaidIs
<1> HIDE DEF a, b, c
<1>4. (a \o b) \o c = a \o Said(top.input)
  <2>1. Associative(Words)
    BY Associates
  <2>2. (a \o b) \o c = a \o (b \o c)
    BY <1>3, <2>1 DEF Associative
  <2> QED  BY <1>3, <2>2
<1>5. SaidIn(nodes') \o Said(g.input) = SaidIn(nodes) \o Said(top.input)
  BY <1>2, <1>4 DEF a, c
<1> QED  BY <1>5, KeepsReading

(* RawText: the text says what was read of it. *)
LEMMA RawTextAccounted ==
    ASSUME Typed, Typed', Accounted, RawText
    PROVE  Accounted'
<1> DEFINE len == RawLen(top)
           said == SubSeq(top.input, 1, len)
           rest == SubSeq(top.input, len + 1, Len(top.input))
           g == [top EXCEPT !.raw = "", !.input = rest]
           node == TextNode(top.cur, said)
<1>1. /\ nodes' = IF len = 0 THEN nodes ELSE Append(nodes, node)
      /\ frames' = [frames EXCEPT ![Len(frames)] = g]
      /\ phase' = phase /\ doc' = doc /\ first' = first
  BY Zenon DEF RawText, Becomes, RawLen
<1>2. /\ top.input \in Seq(Token) /\ Len(top.input) \in Nat /\ top \in FrameSet
      /\ top.cur \in Nat /\ len \in 0 .. Len(top.input)
  BY TopIs, RawLenIs
<1> HIDE DEF len
<1>3. said \in Seq(Token) /\ rest \in Seq(Token) /\ top.input = said \o rest
      /\ (len = 0 => rest = top.input)
  <2>1. said \in Seq(Token) /\ Len(said) = len /\ \A i \in 1 .. len : said[i] = top.input[i]
    BY <1>2
  <2>2. rest \in Seq(Token) /\ Len(rest) = Len(top.input) - len
        /\ \A i \in 1 .. Len(rest) : rest[i] = top.input[len + i]
    BY <1>2
  <2> HIDE DEF said, rest
  <2>3. Len(top.input) = Len(said) + Len(rest)
    BY <1>2, <2>1, <2>2
  <2>4. top.input = said \o rest
    BY <1>2, <2>1, <2>2, <2>3, ConcatIs
  <2>5. ASSUME len = 0 PROVE rest = top.input
    <3>1. Len(rest) = Len(top.input) /\ \A i \in 1 .. Len(rest) : rest[i] = top.input[i]
      BY <1>2, <2>2, <2>5
    <3> QED  BY <1>2, <2>2, <3>1
  <2> QED  BY <2>1, <2>2, <2>4, <2>5
<1> HIDE DEF said, rest
<1>4. g \in FrameSet /\ g.input = rest
  <2>1. "" \in NoneOrRaw
    BY DEF NoneOrRaw
  <2> QED  BY <1>2, <1>3, <2>1 DEF FrameSet
<1>5. node \in NodeSet /\ SaidBy(node) = Said(said)
  <2>1. node \in NodeSet /\ node.kind = "text"
    BY <1>2, <1>3, NodesMade
  <2>2. node.text = said /\ node.made = "tag"
    BY DEF TextNode, Node
  <2> HIDE DEF node
  <2>3. SaidBy(node) = Said(node.text)
    BY <2>1, <2>2 DEF SaidBy
  <2>4. SaidBy(node) = Said(said)
    BY <2>2, <2>3
  <2> QED  BY <2>1, <2>4 DEF node
<1> HIDE DEF g, node
<1>6. CASE len = 0
  BY <1>1, <1>3, <1>4, <1>6, KeepsReading
<1>7. CASE len # 0
  <2>1. Said(top.input) = Said(said) \o Said(rest)
    BY <1>3, SaidConcat
  <2>2. SaidBy(node) \o Said(g.input) = Said(top.input)
    BY <1>4, <1>5, <2>1
  <2> QED  BY <1>1, <1>4, <1>5, <1>7, <2>2, KeepsAppended
<1> QED  BY <1>6, <1>7

(* A token was read: what it says and what the rest says. *)
LEMMA TokenSays ==
    ASSUME Typed, top.input # <<>>
    PROVE  /\ Said(top.input) = SaidToken(token) \o Said(Tail(top.input))
           /\ Said(Tail(top.input)) \in Seq(Words)
           /\ token \in Token
           /\ token.kind = "end" => Said(top.input) = Said(Tail(top.input))
<1>1. top.input \in Seq(Token) /\ Tail(top.input) \in Seq(Token) /\ token \in Token
      /\ token = Head(top.input)
  BY TopIs, PastIs
<1>2. Said(top.input) = SaidToken(token) \o Said(Tail(top.input))
  BY <1>1, SaidFirst
<1>3. Said(Tail(top.input)) \in Seq(Words)
  BY <1>1, SaidIs
<1>4. token.kind = "end" => SaidToken(token) = <<>>
  BY DEF SaidToken
<1>5. <<>> \o Said(Tail(top.input)) = Said(Tail(top.input))
  BY <1>3
<1> QED  BY <1>1, <1>2, <1>3, <1>4, <1>5

(* LeafToken: the leaf is its token. *)
LEMMA LeafTokenAccounted ==
    ASSUME Typed, Typed', Accounted, LeafToken
    PROVE  Accounted'
<1> DEFINE node == LeafNode(top.cur)
           g == Past(top)
<1>1. /\ nodes' = Append(nodes, node) /\ frames' = [frames EXCEPT ![Len(frames)] = g]
      /\ phase' = phase /\ doc' = doc /\ first' = first
      /\ top.input # <<>> /\ token.kind = "leaf"
  BY DEF LeafToken, Reading, Continue, Becomes, Past
<1>2. g \in FrameSet /\ g.input = Tail(top.input) /\ token \in Token
  BY <1>1, PastIs
<1>3. node \in NodeSet
  BY TopIs, NodesMade
<1>4. SaidBy(node) = SaidToken(token)
  <2>1. token = Leaf
    BY <1>1, <1>2 DEF Token
  <2>2. SaidToken(token) = <<"c">>
    BY <2>1 DEF SaidToken, Leaf
  <2>3. node.kind = "leaf" /\ node.made = "tag" /\ node.name = "c"
    BY DEF LeafNode, Node
  <2> HIDE DEF node
  <2> QED  BY <2>2, <2>3 DEF SaidBy
<1> HIDE DEF g, node
<1>5. SaidBy(node) \o Said(g.input) = Said(top.input)
  BY <1>1, <1>2, <1>4, TokenSays
<1> QED  BY <1>1, <1>2, <1>3, <1>5, KeepsAppended

(* StartTag: the element says its name, wherever it is put. *)
LEMMA StartTagAccounted ==
    ASSUME Typed, Typed', Accounted, StartTag
    PROVE  Accounted'
<1> DEFINE name == token.name
           P == ParentFor(top, name)
           ns == Namespaced(top, name)
           closed == name \in Void \/ (token.kind = "self" /\ ns)
           node == Element(name, P, ns)
           g == [top EXCEPT
                    !.raw = IF name \in RawElements THEN name ELSE "",
                    !.cur = IF closed THEN P ELSE Len(nodes) + 1,
                    !.foreign = IF ~closed /\ name \in Foreign THEN @ + 1 ELSE @]
           h == Past(g)
<1>1. /\ nodes' = Append(nodes, node)
      /\ phase' = phase /\ doc' = doc /\ first' = first
      /\ top.input # <<>> /\ token.kind \in {"start", "self"}
  BY DEF StartTag, Reading
<1>2. frames' = [frames EXCEPT ![Len(frames)] = h] /\ h.input = Tail(top.input)
  <2>1. frames' = [frames EXCEPT ![Len(frames)] = h]
    BY DEF StartTag, Continue, Becomes, Past
  <2>2. top \in FrameSet
    BY TopIs
  <2>3. g = [top EXCEPT !.raw = g.raw, !.cur = g.cur, !.foreign = g.foreign]
    BY <2>2 DEF FrameSet
  <2> HIDE DEF g
  <2>4. g.input = top.input /\ "input" \in DOMAIN g
    BY <2>2, <2>3 DEF FrameSet
  <2>5. Past(g).input = Tail(top.input)
    BY <2>4 DEF Past
  <2> QED  BY <2>1, <2>5
<1> HIDE DEF h
<1>3. h \in FrameSet
  <2>1. frames' \in Seq(FrameSet)
    BY DEF Typed, Parsing
  <2>2. frames \in Seq(FrameSet) /\ frames # <<>>
    BY DEF Typed, Parsing
  <2>3. Len(frames) \in 1 .. Len(frames) /\ Len(frames') = Len(frames) /\ frames'[Len(frames)] = h
    BY <1>2, <2>2
  <2> QED  BY <2>1, <2>3
<1>4. node \in NodeSet
  <2>1. nodes \in Seq(NodeSet) /\ nodes' \in Seq(NodeSet)
    BY DEF Typed, Parsing, Tree
  <2> HIDE DEF node
  <2>2. Append(nodes, node)[Len(nodes) + 1] = node /\ Len(Append(nodes, node)) = Len(nodes) + 1
    BY <2>1
  <2>3. Len(nodes) + 1 \in 1 .. Len(nodes')
    BY <1>1, <2>1, <2>2
  <2> QED  BY <1>1, <2>1, <2>2, <2>3
<1>5. SaidBy(node) = SaidToken(token)
  <2>1. node.kind = "element" /\ node.made = "tag" /\ node.name = token.name
    BY DEF Element, Node
  <2> HIDE DEF node
  <2> QED  BY <1>1, <2>1 DEF SaidBy, SaidToken
<1> HIDE DEF node
<1>6. SaidBy(node) \o Said(h.input) = Said(top.input)
  BY <1>1, <1>2, <1>5, TokenSays
<1> QED  BY <1>1, <1>2, <1>3, <1>4, <1>6, KeepsAppended

(* UnmatchedEndTag: the tag says nothing and what is made for it says nothing. *)
LEMMA UnmatchedEndTagAccounted ==
    ASSUME Typed, Typed', Accounted, UnmatchedEndTag
    PROVE  Accounted'
<1> DEFINE node == OrphanElement(token.name, top.cur)
           g == Past(top)
<1>1. /\ nodes' = IF token.name \in {"br", "p"} THEN Append(nodes, node) ELSE nodes
      /\ frames' = [frames EXCEPT ![Len(frames)] = g]
      /\ phase' = phase /\ doc' = doc /\ first' = first
      /\ top.input # <<>> /\ token.kind = "end"
  BY DEF UnmatchedEndTag, Reading, Continue, Becomes, Past
<1>2. g \in FrameSet /\ g.input = Tail(top.input) /\ token \in Token
  BY <1>1, PastIs
<1>3. Said(g.input) = Said(top.input) /\ Said(g.input) \in Seq(Words)
  BY <1>1, <1>2, TokenSays
<1>4. node \in NodeSet /\ SaidBy(node) = <<>>
  <2>1. token.name \in STRING
    <3>1. token # Leaf
      BY <1>1 DEF Leaf
    <3> QED  BY <1>2, <3>1 DEF Token
  <2>2. node \in NodeSet /\ node.kind = "element" /\ node.made = "orphan"
    BY <2>1, TopIs, NodesMade
  <2> HIDE DEF node
  <2> QED  BY <2>2 DEF SaidBy
<1> HIDE DEF g, node
<1>5. CASE token.name \in {"br", "p"}
  <2>1. SaidBy(node) \o Said(g.input) = Said(top.input)
    BY <1>3, <1>4
  <2> QED  BY <1>1, <1>2, <1>4, <1>5, <2>1, KeepsAppended
<1>6. CASE token.name \notin {"br", "p"}
  BY <1>1, <1>2, <1>3, <1>6, KeepsReading
<1> QED  BY <1>5, <1>6

(* ReturnFromReparse: the call that returns has read all of its text. *)
LEMMA ReturnAccounted ==
    ASSUME Typed, Typed', Accounted, ReturnFromReparse
    PROVE  Accounted'
<1>1. /\ top.input = <<>> /\ frames' = Front(frames) /\ nodes' = nodes
      /\ phase' = phase /\ doc' = doc /\ first' = first
  BY DEF ReturnFromReparse, AtEnd
<1>2. frames \in Seq(FrameSet) /\ frames # <<>>
  BY DEF Typed, Parsing
<1>3. Left(frames) = Left(Front(frames))
  <2>1. Left(frames) = Said(<<>>) \o Left(Front(frames)) /\ Front(frames) \in Seq(FrameSet)
    BY <1>1, <1>2, LeftFirst DEF top
  <2>2. Left(Front(frames)) \in Seq(Words)
    BY <2>1, LeftIs
  <2> QED  BY <2>1, <2>2, SaidEmpty
<1> QED  BY <1>1, <1>3, KeepsAccount

(* EndTag: the tag says nothing, what is parsed again is taken off the tree. *)
LEMMA EndTagAccounted ==
    ASSUME Typed, Typed', Accounted, EndTag
    PROVE  Accounted'
<1> DEFINE closed == Closed(top, token.name)
           n == Min(closed)
           g == [top EXCEPT !.cur = nodes[n].parent, !.input = Tail(@),
                            !.foreign = @ - Cardinality(ForeignOf(closed))]
           gs == [frames EXCEPT ![Len(frames)] = g]
           u == SubSeq(nodes, 1, Len(nodes) - 1)
           text == Last(nodes).text
           f == Frame(n, text)
<1>1. /\ closed # {} /\ top.input # <<>> /\ token.kind = "end"
      /\ phase' = phase /\ doc' = doc /\ first' = first
      /\ IF Reparses(n) THEN nodes' = u /\ frames' = Append(gs, f)
         ELSE frames' = gs /\ nodes' = nodes
  BY DEF EndTag, Reading, Becomes
<1>2. /\ frames \in Seq(FrameSet) /\ frames # <<>> /\ frames' \in Seq(FrameSet)
      /\ Len(frames) \in 1 .. Len(frames) /\ Len(frames) \in Nat /\ top \in FrameSet
  <2>1. frames \in Seq(FrameSet) /\ frames # <<>> /\ frames' \in Seq(FrameSet) /\ top \in FrameSet
    BY TopIs DEF Typed, Parsing
  <2> QED  BY <2>1
<1>3. g.input = Tail(top.input)
  BY <1>2 DEF FrameSet
<1> HIDE DEF g, f, n
<1>4. /\ Len(gs) = Len(frames) /\ gs[Len(frames)] = g
      /\ Len(Append(gs, f)) = Len(frames) + 1 /\ Append(gs, f)[Len(frames)] = g
      /\ Append(gs, f)[Len(frames) + 1] = f
  BY <1>2
<1> HIDE DEF gs
<1>5. g \in FrameSet
  <2>1. frames'[Len(frames)] = g /\ Len(frames) \in DOMAIN frames'
    BY SMTT(20), <1>1, <1>2, <1>4
  <2> QED  BY <1>2, <2>1
<1>6. Said(g.input) = Said(top.input)
  BY <1>1, <1>3, TokenSays
<1>7. CASE ~Reparses(n)
  BY <1>1, <1>5, <1>6, <1>7, KeepsReading DEF gs
<1>8. CASE Reparses(n)
  <2>1. nodes' = u /\ frames' = Append(gs, f)
    BY <1>1, <1>8
  <2>2. /\ Tree(nodes) /\ nodes \in Seq(NodeSet) /\ Len(nodes) \in Nat /\ Call(nodes, top)
        /\ DOMAIN nodes = 1 .. Len(nodes) /\ Encloses(nodes, top.cur) /\ top.cur \in 0 .. Len(nodes)
    BY TopIs DEF Typed, Parsing, Call
  <2>3. n \in Above(nodes, top.cur)
    BY <1>1, ClosedIs DEF n, Open
  <2>4. PICK k \in DOMAIN nodes : Children(nodes, n) = {k} /\ nodes[k].kind = "text"
    BY <1>8 DEF Reparses
  <2>5. k = Len(nodes)
    BY <2>2, <2>3, <2>4, OnlyTextIsLast
  <2>6. /\ Last(nodes) = nodes[Len(nodes)] /\ Last(nodes) \in NodeSet /\ Last(nodes).kind = "text"
        /\ Len(nodes) - 1 \in Nat /\ Len(nodes) - 1 <= Len(nodes)
    BY <2>2, <2>4, <2>5 DEF Last
  <2>7. u \in Seq(NodeSet) /\ Len(nodes) = Len(u) + 1 /\ \A i \in 1 .. Len(u) : nodes[i] = u[i]
    BY <2>2, <2>6, PrefixIs
  <2> HIDE DEF u
  <2>8. SaidIn(nodes) = SaidIn(u) \o SaidBy(Last(nodes))
    BY <2>2, <2>6, <2>7, SaidInGrows
  <2>9. SaidBy(Last(nodes)) = Said(text) /\ text \in Seq(Token)
    <3>1. Last(nodes).made = "tag" /\ text \in Seq(Token)
      BY <2>6, NodeKinds, TextTyped
    <3> QED  BY <2>6, <3>1 DEF SaidBy
  <2>10. f \in FrameSet /\ f.input = text
    <3>1. frames'[Len(frames) + 1] = f /\ Len(frames) + 1 \in DOMAIN frames'
      BY <1>2, <1>4, <2>1
    <3>2. f.input = text
      BY DEF f, Frame
    <3> QED  BY <1>2, <3>1, <3>2
  <2> HIDE DEF text
  <2>11. Left(gs) = Left(frames) /\ gs \in Seq(FrameSet) /\ Left(gs) \in Seq(Words)
    <3>1. gs \in Seq(FrameSet)
      BY <1>2, <1>5 DEF gs
    <3>2. Left(gs) = Said(g.input) \o Left(Front(frames))
      BY <1>2, <1>5, LeftFirst DEF gs
    <3>3. Left(frames) = Said(top.input) \o Left(Front(frames))
      BY <1>2, LeftFirst DEF top
    <3> QED  BY <1>6, <3>1, <3>2, <3>3, LeftIs
  <2>12. Left(frames') = Said(text) \o Left(frames)
    BY <2>1, <2>10, <2>11, LeftPushed
  <2>13. SaidIn(u) \o Left(frames') = SaidIn(nodes) \o Left(frames)
    <3> DEFINE a == SaidIn(u)
               b == Said(text)
               c == Left(frames)
    <3>1. a \in Seq(Words) /\ b \in Seq(Words) /\ c \in Seq(Words)
      BY <2>7, <2>9, <2>11, SaidInIs, SaidIs
    <3>2. SaidIn(nodes) = a \o b /\ Left(frames') = b \o c
      BY <2>8, <2>9, <2>12
    <3> HIDE DEF a, b, c
    <3>3. a \o (b \o c) = (a \o b) \o c
      <4>1. Associative(Words)
        BY Associates
      <4> QED  BY <3>1, <4>1 DEF Associative
    <3>4. a \o Left(frames') = SaidIn(nodes) \o c
      BY <3>2, <3>3
    <3> QED  BY <3>4 DEF a, c
  <2> QED  BY <1>1, <2>1, <2>13, KeepsAccount
<1> QED  BY <1>7, <1>8

(* SourceParsed: nothing is left, so the tree says it all. *)
LEMMA SourceParsedAccounted ==
    ASSUME Typed, Typed', Accounted, SourceParsed
    PROVE  Accounted'
<1>1. /\ top.input = <<>> /\ Len(frames) = 1 /\ phase = "source" /\ phase' = "rendered"
      /\ first' = nodes /\ doc' = doc
  BY DEF SourceParsed, AtEnd
<1>2. frames \in Seq(FrameSet) /\ frames # <<>> /\ nodes \in Seq(NodeSet)
  BY DEF Typed, Parsing, Tree
<1>3. Left(frames) = <<>>
  <2>1. Front(frames) \in Seq(FrameSet) /\ Left(frames) = Said(top.input) \o Left(Front(frames))
    BY <1>2, LeftFirst DEF top
  <2>2. Front(frames) = <<>>
    BY <1>1, <1>2 DEF Front
  <2>3. Left(<<>>) = <<>>
    <3>1. LeftList(<<>>) = <<>> /\ <<>> \in Seq(FrameSet)
      BY DEF LeftList
    <3>2. FlattenSeq(<<>>) = <<>>
      BY DEF FlattenSeq
    <3> QED  BY <3>1, <3>2, LeftIs
  <2> QED  BY <1>1, <2>1, <2>2, <2>3, SaidEmpty
<1>4. Said(doc) = SaidIn(nodes) \o Left(frames)
  BY <1>1 DEF Accounted
<1>5. SaidIn(nodes) \o <<>> = SaidIn(nodes)
  BY <1>2, SaidInIs
<1>6. Said(doc) = SaidIn(nodes)
  BY <1>3, <1>4, <1>5
<1>7. phase' # "source" /\ Said(doc)' = SaidIn(first)'
  <2>1. Said(doc)' = Said(doc') /\ SaidIn(first)' = SaidIn(first')
    OBVIOUS
  <2> QED  BY <1>1, <1>6, <2>1
<1> QED  BY <1>7 DEF Accounted

(* RenderedParsed: the first tree and the document stay as they are. *)
LEMMA RenderedParsedAccounted ==
    ASSUME Accounted, RenderedParsed
    PROVE  Accounted'
<1>1. phase # "source" /\ phase' # "source" /\ doc' = doc /\ first' = first
  BY DEF RenderedParsed
<1> QED  BY <1>1 DEF Accounted

(* Init establishes the account. *)
LEMMA InitAccounted == Init => Accounted
<1> SUFFICES ASSUME Init PROVE Accounted
  OBVIOUS
<1>1. doc \in Seq(Token) /\ phase = "source" /\ nodes = <<>> /\ frames = <<Frame(0, doc)>>
  BY DocumentsAssumption DEF Init
<1>2. Typed
  BY InitTyped
<1>3. frames \in Seq(FrameSet) /\ frames # <<>>
  BY <1>2 DEF Typed, Parsing
<1>4. Left(frames) = Said(doc) /\ Said(doc) \in Seq(Words)
  <2>1. Left(frames) = Said(Last(frames).input) \o Left(Front(frames))
    BY <1>3, LeftFirst
  <2>2. Last(frames).input = doc /\ Front(frames) = <<>>
    <3>1. Len(frames) = 1 /\ frames[1] = Frame(0, doc)
      BY <1>1
    <3>2. Frame(0, doc).input = doc
      BY DEF Frame
    <3>3. Last(frames) = Frame(0, doc)
      BY <3>1 DEF Last
    <3>4. Front(frames) = <<>>
      BY <1>3, <3>1 DEF Front
    <3> QED  BY <3>2, <3>3, <3>4
  <2>3. Left(<<>>) = <<>>
    <3>1. LeftList(<<>>) = <<>> /\ <<>> \in Seq(FrameSet)
      BY DEF LeftList
    <3>2. FlattenSeq(<<>>) = <<>>
      BY DEF FlattenSeq
    <3> QED  BY <3>1, <3>2, LeftIs
  <2>4. Said(doc) \in Seq(Words)
    BY <1>1, SaidIs
  <2> QED  BY <2>1, <2>2, <2>3, <2>4
<1>5. SaidIn(nodes) = <<>>
  <2>1. SaidByAll(<<>>) = <<>> /\ <<>> \in Seq(NodeSet)
    BY DEF SaidByAll
  <2>2. FlattenSeq(<<>>) = <<>>
    BY DEF FlattenSeq
  <2> QED  BY <1>1, <2>1, <2>2, SaidInIs
<1>6. <<>> \o Said(doc) = Said(doc)
  BY <1>4
<1> QED  BY <1>1, <1>4, <1>5, <1>6 DEF Accounted

(* Every step keeps the account. *)
LEMMA NextAccounted == Typed /\ Typed' /\ Accounted /\ [Next]_vars => Accounted'
<1> SUFFICES ASSUME Typed, Typed', Accounted, [Next]_vars
             PROVE  Accounted'
  OBVIOUS
<1>1. CASE RawText
  BY <1>1, RawTextAccounted
<1>2. CASE LeafToken
  BY <1>2, LeafTokenAccounted
<1>3. CASE StartTag
  BY <1>3, StartTagAccounted
<1>4. CASE EndTag
  BY <1>4, EndTagAccounted
<1>5. CASE UnmatchedEndTag
  BY <1>5, UnmatchedEndTagAccounted
<1>6. CASE ReturnFromReparse
  BY <1>6, ReturnAccounted
<1>7. CASE SourceParsed
  BY <1>7, SourceParsedAccounted
<1>8. CASE RenderedParsed
  BY <1>8, RenderedParsedAccounted
<1>9. CASE UNCHANGED vars
  BY <1>9 DEF vars, Accounted
<1> QED  BY <1>1, <1>2, <1>3, <1>4, <1>5, <1>6, <1>7, <1>8, <1>9 DEF Next

(***************************************************************************)
(* Every tag and comment of the source is in the tree once and in its      *)
(* order, raw text included, whatever is popped by implication, dropped    *)
(* or parsed again, in documents of any length.                            *)
(***************************************************************************)
THEOREM AllParsed == Spec => []EverythingParsed
<1>1. Accounted => EverythingParsed
  BY DEF Accounted, EverythingParsed
<1>2. Spec => [](Typed /\ Ns(nodes))
  BY AlwaysTyped
<1>3. Spec /\ [](Typed /\ Ns(nodes)) => []Accounted
  BY InitAccounted, NextAccounted, PTL DEF Spec
<1> QED  BY <1>1, <1>2, <1>3, PTL

=============================================================================
