--------------------------- MODULE CascadeProofs ---------------------------
(***************************************************************************)
(* Proofs about modules Specificity and Cascade, for any documents, any    *)
(* properties and any field size: the packed key orders declarations field *)
(* by field, the state stays well formed, the live slot of a property is   *)
(* always the winner of the CSS cascade, and the arena implements the map  *)
(* of CascadeSpec step by step.                                            *)
(***************************************************************************)
EXTENDS Cascade, InductionLemmas, FiniteSetTheorems

-----------------------------------------------------------------------------
(* The packed key: comparing two words is comparing priority, then ids, then
   classes, then types, each of them clamped, whatever the size of a field. *)

(* Clamping a natural number keeps it within one field. *)
LEMMA SatRange ==
    ASSUME NEW v \in Nat
    PROVE  sat(v) \in 0..FieldMax
BY FieldMaxAssumption DEF sat

(* The four priorities are small enough not to be clamped. *)
LEMMA SatPriority ==
    ASSUME NEW v \in 0..3
    PROVE  sat(v) = v
BY FieldMaxAssumption DEF sat

(* A larger high part outweighs any low part that fits its field. *)
LEMMA HighPartDecides ==
    ASSUME NEW x \in Nat, NEW y \in Nat, x < y,
           NEW a \in 0..FieldMax, NEW b \in 0..FieldMax
    PROVE  x * FieldSize + a < y * FieldSize + b
<1>1. FieldSize \in Nat /\ FieldSize > a /\ FieldSize > 0
  BY FieldMaxAssumption DEF FieldSize
<1>2. PICK e \in Nat : y = x + 1 + e
  <2>1. y - x - 1 \in Nat /\ y = x + 1 + (y - x - 1)
    OBVIOUS
  <2> QED  BY <2>1
<1>3. y * FieldSize = x * FieldSize + FieldSize + e * FieldSize
  BY <1>1, <1>2
<1>4. e * FieldSize \in Nat /\ x * FieldSize \in Nat
  BY <1>1, <1>2
<1> QED  BY <1>1, <1>3, <1>4

(* Appending a field to two numbers compares the numbers first and the field
   only when they are equal. *)
LEMMA PlaceOrder ==
    ASSUME NEW x \in Nat, NEW y \in Nat,
           NEW a \in 0..FieldMax, NEW b \in 0..FieldMax
    PROVE  /\ Place(x, a) \in Nat
           /\ Place(x, a) > Place(y, b) <=> (x > y \/ (x = y /\ a > b))
<1>1. FieldSize \in Nat
  BY FieldMaxAssumption DEF FieldSize
<1>2. x * FieldSize \in Nat /\ y * FieldSize \in Nat
  BY <1>1
<1>3. CASE x < y
  BY <1>2, <1>3, HighPartDecides DEF Place
<1>4. CASE y < x
  BY <1>2, <1>4, HighPartDecides DEF Place
<1>5. CASE x = y
  BY <1>2, <1>5 DEF Place
<1> QED  BY <1>3, <1>4, <1>5

(***************************************************************************)
(* Two packed keys compare as the two vectors do, field by field, whatever *)
(* is in them: no field spills into another.  Two keys are equal when      *)
(* neither is larger, hence only if every clamped field is.                *)
(***************************************************************************)
THEOREM PackedOrder ==
    ASSUME NEW p \in 0..3, NEW s \in Nat \X Nat \X Nat,
           NEW q \in 0..3, NEW t \in Nat \X Nat \X Nat
    PROVE  /\ packKey(p, s) \in Nat
           /\ packKey(p, s) > packKey(q, t) <=>
                \/ p > q
                \/ p = q /\ sat(s[1]) > sat(t[1])
                \/ p = q /\ sat(s[1]) = sat(t[1]) /\ sat(s[2]) > sat(t[2])
                \/ p = q /\ sat(s[1]) = sat(t[1]) /\ sat(s[2]) = sat(t[2])
                         /\ sat(s[3]) > sat(t[3])
<1>1. /\ sat(s[1]) \in 0..FieldMax /\ sat(s[2]) \in 0..FieldMax /\ sat(s[3]) \in 0..FieldMax
      /\ sat(t[1]) \in 0..FieldMax /\ sat(t[2]) \in 0..FieldMax /\ sat(t[3]) \in 0..FieldMax
  <2>1. s[1] \in Nat /\ s[2] \in Nat /\ s[3] \in Nat /\ t[1] \in Nat /\ t[2] \in Nat /\ t[3] \in Nat
    OBVIOUS
  <2> QED  BY <2>1, SatRange
<1>2. /\ packKey(p, s) = Place(Place(Place(p, sat(s[1])), sat(s[2])), sat(s[3]))
      /\ packKey(q, t) = Place(Place(Place(q, sat(t[1])), sat(t[2])), sat(t[3]))
  <2>1. sat(p) = p /\ sat(q) = q
    BY SatPriority
  <2> QED  BY <2>1 DEF packKey
<1>3. p \in Nat /\ q \in Nat
  OBVIOUS
<1>4. PICK a1 \in 0..FieldMax, a2 \in 0..FieldMax, a3 \in 0..FieldMax,
           b1 \in 0..FieldMax, b2 \in 0..FieldMax, b3 \in 0..FieldMax :
               /\ a1 = sat(s[1]) /\ a2 = sat(s[2]) /\ a3 = sat(s[3])
               /\ b1 = sat(t[1]) /\ b2 = sat(t[2]) /\ b3 = sat(t[3])
  BY <1>1
<1> DEFINE x1 == Place(p, a1)
           y1 == Place(q, b1)
           x2 == Place(x1, a2)
           y2 == Place(y1, b2)
<1>5. x1 \in Nat /\ y1 \in Nat
  BY <1>3, PlaceOrder
<1>6. x1 > y1 <=> (p > q \/ (p = q /\ a1 > b1))
  BY <1>3, PlaceOrder
<1>7. y1 > x1 <=> (q > p \/ (q = p /\ b1 > a1))
  BY <1>3, PlaceOrder
<1> HIDE DEF x1, y1
<1>8. x2 \in Nat /\ y2 \in Nat
  BY <1>5, PlaceOrder
<1>9. x2 > y2 <=> (x1 > y1 \/ (x1 = y1 /\ a2 > b2))
  BY <1>5, PlaceOrder
<1>10. y2 > x2 <=> (y1 > x1 \/ (y1 = x1 /\ b2 > a2))
  BY <1>5, PlaceOrder
<1> HIDE DEF x2, y2
<1>11. Place(x2, a3) \in Nat
  BY <1>8, PlaceOrder
<1>12. Place(x2, a3) > Place(y2, b3) <=> (x2 > y2 \/ (x2 = y2 /\ a3 > b3))
  BY <1>8, PlaceOrder
<1>13. x1 = y1 <=> (p = q /\ a1 = b1)
  BY <1>3, <1>5, <1>6, <1>7
<1>14. x2 = y2 <=> (x1 = y1 /\ a2 = b2)
  BY <1>5, <1>8, <1>9, <1>10
<1>15. packKey(p, s) = Place(x2, a3) /\ packKey(q, t) = Place(y2, b3)
  BY <1>2, <1>4 DEF x1, y1, x2, y2
<1> QED
  BY <1>4, <1>6, <1>9, <1>11, <1>12, <1>13, <1>14, <1>15

-----------------------------------------------------------------------------

(* The vector and the order number decide as the packed key does. *)
LEMMA BeatsIsKeyOrder ==
    ASSUME NEW d \in FullDecl, NEW e \in FullDecl
    PROVE  /\ KeyOf(d) \in Nat
           /\ Abstract!Beats(d, e) <=> \/ KeyOf(d) > KeyOf(e)
                                       \/ KeyOf(d) = KeyOf(e) /\ d.ord > e.ord
<1>1. /\ d.spec \in Nat \X Nat \X Nat /\ e.spec \in Nat \X Nat \X Nat
      /\ d.ord \in Nat /\ e.ord \in Nat
  BY DEF FullDecl
<1>2. Priority(d) \in 0..3 /\ Priority(e) \in 0..3
  BY DEF FullDecl, Priority
<1>3. Abstract!Layer(d) = Priority(d) /\ Abstract!Layer(e) = Priority(e)
  BY DEF Abstract!Layer, Priority
<1>4. \A v \in Nat : Abstract!Clamp(v) = sat(v) /\ sat(v) \in Nat
  BY FieldMaxAssumption DEF Abstract!Clamp, sat
<1>5. /\ d.spec[1] \in Nat /\ d.spec[2] \in Nat /\ d.spec[3] \in Nat
      /\ e.spec[1] \in Nat /\ e.spec[2] \in Nat /\ e.spec[3] \in Nat
  BY <1>1
<1>6. PICK a1 \in Nat, a2 \in Nat, a3 \in Nat, b1 \in Nat, b2 \in Nat, b3 \in Nat :
         /\ a1 = sat(d.spec[1]) /\ a2 = sat(d.spec[2]) /\ a3 = sat(d.spec[3])
         /\ b1 = sat(e.spec[1]) /\ b2 = sat(e.spec[2]) /\ b3 = sat(e.spec[3])
  BY <1>4, <1>5
<1> DEFINE x == Priority(d)
           y == Priority(e)
<1>7. /\ KeyOf(d) \in Nat
      /\ KeyOf(d) > KeyOf(e) <=> \/ x > y
                                 \/ x = y /\ a1 > b1
                                 \/ x = y /\ a1 = b1 /\ a2 > b2
                                 \/ x = y /\ a1 = b1 /\ a2 = b2 /\ a3 > b3
  BY <1>1, <1>2, <1>6, PackedOrder DEF KeyOf
<1>8. /\ KeyOf(e) \in Nat
      /\ KeyOf(e) > KeyOf(d) <=> \/ y > x
                                 \/ y = x /\ b1 > a1
                                 \/ y = x /\ b1 = a1 /\ b2 > a2
                                 \/ y = x /\ b1 = a1 /\ b2 = a2 /\ b3 > a3
  BY <1>1, <1>2, <1>6, PackedOrder DEF KeyOf
<1>9. /\ Abstract!MoreSpecific(d.spec, e.spec) <=>
           (a1 > b1 \/ (a1 = b1 /\ a2 > b2) \/ (a1 = b1 /\ a2 = b2 /\ a3 > b3))
      /\ Abstract!EquallySpecific(d.spec, e.spec) <=> (a1 = b1 /\ a2 = b2 /\ a3 = b3)
  BY <1>4, <1>5, <1>6 DEF Abstract!MoreSpecific, Abstract!EquallySpecific
<1>10. Abstract!Beats(d, e) <=>
           \/ x > y
           \/ x = y /\ (a1 > b1 \/ (a1 = b1 /\ a2 > b2) \/ (a1 = b1 /\ a2 = b2 /\ a3 > b3))
           \/ x = y /\ (a1 = b1 /\ a2 = b2 /\ a3 = b3) /\ d.ord > e.ord
  BY <1>3, <1>9 DEF Abstract!Beats
<1> HIDE DEF x, y
<1>11. x \in Nat /\ y \in Nat
  BY <1>2 DEF x, y
<1>12. KeyOf(d) = KeyOf(e) <=> x = y /\ a1 = b1 /\ a2 = b2 /\ a3 = b3
  BY <1>7, <1>8, <1>11
<1> QED  BY <1>7, <1>10, <1>12

(* What is not beaten by the loser of a contest does not beat its winner... *)
LEMMA BeatsNegTransitive ==
    ASSUME NEW d \in FullDecl, NEW e \in FullDecl, NEW f \in FullDecl,
           Abstract!Beats(d, e), ~Abstract!Beats(f, e)
    PROVE  ~Abstract!Beats(f, d)
<1>1. KeyOf(d) \in Nat /\ KeyOf(e) \in Nat /\ KeyOf(f) \in Nat
  BY BeatsIsKeyOrder
<1>2. d.ord \in Nat /\ e.ord \in Nat /\ f.ord \in Nat
  BY DEF FullDecl
<1>3. KeyOf(d) > KeyOf(e) \/ (KeyOf(d) = KeyOf(e) /\ d.ord > e.ord)
  BY BeatsIsKeyOrder
<1>4. ~(KeyOf(f) > KeyOf(e) \/ (KeyOf(f) = KeyOf(e) /\ f.ord > e.ord))
  BY BeatsIsKeyOrder
<1>5. ~(KeyOf(f) > KeyOf(d) \/ (KeyOf(f) = KeyOf(d) /\ f.ord > d.ord))
  BY <1>1, <1>2, <1>3, <1>4
<1> QED  BY <1>5, BeatsIsKeyOrder

(* ... and nothing beats itself. *)
LEMMA BeatsIrreflexive ==
    ASSUME NEW d \in FullDecl
    PROVE  ~Abstract!Beats(d, d)
<1>1. KeyOf(d) \in Nat /\ d.ord \in Nat
  BY BeatsIsKeyOrder DEF FullDecl
<1> QED  BY <1>1, BeatsIsKeyOrder

-----------------------------------------------------------------------------
(* The arena *)

(* What a sequence of slots guarantees about the declarations S offered to
   it: its slots carry them with their keys, in the order of their rules; a
   slot followed by one for the same property is dead; and every declaration
   is represented by a live slot it does not beat. *)
Arena(s, S) ==
    /\ \A k \in DOMAIN s : s[k].decl \in S /\ s[k].key = KeyOf(s[k].decl) /\ s[k].next < k
    /\ \A k, l \in DOMAIN s : k < l /\ s[k].decl.prop = s[l].decl.prop => s[k].dead
    /\ \A k, l \in DOMAIN s : k < l => s[k].decl.rule <= s[l].decl.rule
    /\ \A d \in S : \E k \in DOMAIN s :
          /\ ~s[k].dead
          /\ s[k].decl.prop = d.prop
          /\ ~Abstract!Beats(d, s[k].decl)

(* find returns the one live slot of the property, and 0 when there is none. *)
LEMMA FindLive ==
    ASSUME NEW s \in Seq(Slot), NEW S, Arena(s, S), NEW p
    PROVE  /\ find(s, p) = 0 <=> \A k \in DOMAIN s : s[k].decl.prop = p => s[k].dead
           /\ find(s, p) # 0 => /\ find(s, p) \in DOMAIN s
                                /\ ~s[find(s, p)].dead
                                /\ s[find(s, p)].decl.prop = p
           /\ \A k \in DOMAIN s : ~s[k].dead /\ s[k].decl.prop = p => k = find(s, p)
<1>1. DOMAIN s = 1..Len(s) /\ Len(s) \in Nat
  OBVIOUS
<1>2. \A k \in DOMAIN s : k \in Nat /\ k # 0
  BY <1>1
<1>3. Live(s, p) = {k \in DOMAIN s : ~s[k].dead /\ s[k].decl.prop = p}
  BY DEF Live
<1>4. CASE Live(s, p) = {}
  <2>1. find(s, p) = 0
    BY <1>4 DEF find
  <2> QED  BY <1>3, <1>4, <2>1
<1>5. CASE Live(s, p) # {}
  <2>1. PICK k \in DOMAIN s : k \in Live(s, p)
    BY <1>3, <1>5
  <2>2. \A l \in Live(s, p) : l = k
    <3>1. SUFFICES ASSUME NEW l \in Live(s, p), l # k PROVE FALSE
      OBVIOUS
    <3>2. l < k \/ k < l
      BY <1>2, <1>3, <2>1, <3>1
    <3> QED  BY <1>3, <2>1, <3>2 DEF Arena
  <2>3. Live(s, p) = {k}
    BY <2>1, <2>2
  <2>4. k <= k
    BY <1>2, <2>1
  <2>5. find(s, p) = k
    BY <2>3, <2>4 DEF find
  <2> QED  BY <1>2, <1>3, <2>1, <2>2, <2>5
<1> QED  BY <1>4, <1>5

(* What add does, seen from outside: nothing, if a live slot holds the
   property against the newcomer; otherwise one more slot, the one it
   supersedes being marked dead. *)
LEMMA AddShape ==
    ASSUME NEW s \in Seq(Slot), NEW S \in SUBSET FullDecl, Arena(s, S), NEW d \in FullDecl
    PROVE  LET t == add(s, d)
               c == find(s, d.prop)
           IN \/ c # 0 /\ t = s /\ ~Abstract!Beats(d, s[c].decl)
              \/ /\ c # 0 => Abstract!Beats(d, s[c].decl)
                 /\ t \in Seq(Slot)
                 /\ Len(t) = Len(s) + 1
                 /\ t[Len(s) + 1].decl = d
                 /\ t[Len(s) + 1].key = KeyOf(d)
                 /\ t[Len(s) + 1].next \in 0..Len(s)
                 /\ t[Len(s) + 1].next = IF c # 0 /\ s[c].decl.rule = d.rule THEN c ELSE 0
                 /\ ~t[Len(s) + 1].dead
                 /\ \A k \in DOMAIN s : /\ t[k].decl = s[k].decl
                                         /\ t[k].key = s[k].key
                                         /\ t[k].next = s[k].next
                                         /\ t[k].dead = (s[k].dead \/ k = c)
<1> DEFINE t == add(s, d)
           c == find(s, d.prop)
<1>1. DOMAIN s = 1..Len(s) /\ Len(s) \in Nat
  OBVIOUS
<1>2. KeyOf(d) \in Nat
  BY BeatsIsKeyOrder
<1>3. \A n \in Nat : NewSlot(d, n) \in Slot
  BY <1>2 DEF NewSlot, Slot
<1>4. \A k \in DOMAIN s : s[k] \in Slot /\ s[k].dead \in BOOLEAN
  <2>1. \A k \in DOMAIN s : s[k] \in Slot
    OBVIOUS
  <2> QED  BY <2>1 DEF Slot
<1>5. CASE c = 0
  <2>1. t = Append(s, NewSlot(d, 0))
    BY <1>5 DEF add
  <2>2. /\ t \in Seq(Slot) /\ Len(t) = Len(s) + 1
        /\ t[Len(s) + 1] = NewSlot(d, 0)
        /\ \A k \in DOMAIN s : t[k] = s[k]
    BY <1>1, <1>3, <2>1
  <2>3. \A k \in DOMAIN s : k # c
    BY <1>1, <1>5
  <2> QED  BY <1>1, <1>5, <1>4, <2>2, <2>3 DEF NewSlot
<1>6. CASE c # 0 /\ ~Outranks(d, s[c])
  <2>1. t = s
    BY <1>6 DEF add
  <2>2. c \in DOMAIN s /\ s[c].decl \in FullDecl /\ s[c].key = KeyOf(s[c].decl)
    BY <1>6, FindLive DEF Arena
  <2>3. ~Abstract!Beats(d, s[c].decl)
    BY <1>6, <2>2, BeatsIsKeyOrder DEF Outranks
  <2> QED  BY <1>6, <2>1, <2>3
<1>7. CASE c # 0 /\ Outranks(d, s[c])
  <2>1. c \in DOMAIN s /\ s[c].decl \in FullDecl /\ s[c].key = KeyOf(s[c].decl)
    BY <1>7, FindLive DEF Arena
  <2>2. Abstract!Beats(d, s[c].decl)
    BY <1>7, <2>1, BeatsIsKeyOrder DEF Outranks
  <2> DEFINE u == Supersede(s, c)
             n == IF s[c].decl.rule = d.rule THEN c ELSE 0
  <2>3. t = Append(u, NewSlot(d, n))
    BY <1>7 DEF add
  <2>4. n \in 0..Len(s)
    BY <1>1, <2>1
  <2>5. /\ u \in Seq(Slot) /\ Len(u) = Len(s)
        /\ \A k \in DOMAIN s : u[k] = IF k = c THEN [s[c] EXCEPT !.dead = TRUE] ELSE s[k]
    <3>1. s[c] \in Slot
      BY <2>1
    <3>2. [s[c] EXCEPT !.dead = TRUE] \in Slot
      BY <3>1 DEF Slot
    <3>3. u = [s EXCEPT ![c] = [s[c] EXCEPT !.dead = TRUE]]
      BY DEF Supersede
    <3> QED  BY <1>1, <2>1, <3>2, <3>3
  <2> HIDE DEF u, n
  <2>6. /\ t \in Seq(Slot) /\ Len(t) = Len(s) + 1
        /\ t[Len(s) + 1] = NewSlot(d, n)
        /\ \A k \in DOMAIN s : t[k] = u[k]
    BY <1>1, <1>3, <2>3, <2>4, <2>5
  <2>7. \A k \in DOMAIN s : /\ t[k].decl = s[k].decl
                             /\ t[k].key = s[k].key
                             /\ t[k].next = s[k].next
                             /\ t[k].dead = (s[k].dead \/ k = c)
    <3>1. SUFFICES ASSUME NEW k \in DOMAIN s
                   PROVE  /\ t[k].decl = s[k].decl
                          /\ t[k].key = s[k].key
                          /\ t[k].next = s[k].next
                          /\ t[k].dead = (s[k].dead \/ k = c)
      OBVIOUS
    <3>2. s[k] \in Slot /\ s[k].dead \in BOOLEAN
      BY <1>4
    <3>3. t[k] = u[k]
      BY <2>6
    <3>4. u[k] = IF k = c THEN [s[c] EXCEPT !.dead = TRUE] ELSE s[k]
      BY <2>5
    <3> HIDE DEF t, c
    <3>5. CASE k # c
      BY <3>2, <3>3, <3>4, <3>5
    <3>6. CASE k = c
      <4>1. t[k] = [s[k] EXCEPT !.dead = TRUE]
        BY <3>3, <3>4, <3>6
      <4>2. s[k] \in Slot
        BY <3>2
      <4> HIDE DEF u
      <4> QED  BY <3>6, <4>1, <4>2 DEF Slot
    <3> QED  BY <3>5, <3>6
  <2>8. n = IF c # 0 /\ s[c].decl.rule = d.rule THEN c ELSE 0
    BY <1>7 DEF n
  <2>9. /\ t[Len(s) + 1].decl = d /\ t[Len(s) + 1].key = KeyOf(d)
        /\ t[Len(s) + 1].next = n /\ ~t[Len(s) + 1].dead
    BY <2>6 DEF NewSlot
  <2> QED  BY <1>7, <2>2, <2>4, <2>6, <2>7, <2>8, <2>9
<1> QED  BY <1>5, <1>6, <1>7

(* A declaration of the current rule, or of a later one, keeps the arena's
   guarantee and extends it to itself. *)
LEMMA AddPreserves ==
    ASSUME NEW s \in Seq(Slot), NEW S \in SUBSET FullDecl, Arena(s, S), NEW d \in FullDecl,
           \A e \in S : e.rule <= d.rule
    PROVE  add(s, d) \in Seq(Slot) /\ Arena(add(s, d), S \union {d})
<1> DEFINE t == add(s, d)
           c == find(s, d.prop)
           m == Len(s) + 1
<1>1. DOMAIN s = 1..Len(s) /\ Len(s) \in Nat
  OBVIOUS
<1>2. ~Abstract!Beats(d, d)
  BY BeatsIrreflexive
<1>3. CASE c # 0 /\ t = s /\ ~Abstract!Beats(d, s[c].decl)
  <2>1. c \in DOMAIN s /\ ~s[c].dead /\ s[c].decl.prop = d.prop
    BY <1>3, FindLive
  <2> QED  BY <1>3, <2>1 DEF Arena
<1>4. CASE /\ c # 0 => Abstract!Beats(d, s[c].decl)
           /\ t \in Seq(Slot)
           /\ Len(t) = m
           /\ t[m].decl = d
           /\ t[m].key = KeyOf(d)
           /\ t[m].next \in 0..Len(s)
           /\ ~t[m].dead
           /\ \A k \in DOMAIN s : /\ t[k].decl = s[k].decl
                                   /\ t[k].key = s[k].key
                                   /\ t[k].next = s[k].next
                                   /\ t[k].dead = (s[k].dead \/ k = c)
  <2>1. /\ DOMAIN t = 1..m /\ m \in Nat /\ m \notin DOMAIN s
        /\ \A k \in DOMAIN t : k = m \/ k \in DOMAIN s
        /\ \A k \in DOMAIN s : k \in DOMAIN t /\ k < m /\ k \in Nat
    BY <1>1, <1>4
  <2>2. \A k \in DOMAIN t : /\ t[k].decl \in S \union {d}
                             /\ t[k].key = KeyOf(t[k].decl)
                             /\ t[k].next < k
    <3>1. SUFFICES ASSUME NEW k \in DOMAIN t
                   PROVE  /\ t[k].decl \in S \union {d}
                          /\ t[k].key = KeyOf(t[k].decl)
                          /\ t[k].next < k
      OBVIOUS
    <3>2. CASE k = m
      BY <1>1, <1>4, <3>2
    <3>3. CASE k \in DOMAIN s
      BY <1>4, <3>3 DEF Arena
    <3> QED  BY <2>1, <3>2, <3>3
  <2>3. \A k, l \in DOMAIN t : k < l /\ t[k].decl.prop = t[l].decl.prop => t[k].dead
    <3>1. SUFFICES ASSUME NEW k \in DOMAIN t, NEW l \in DOMAIN t, k < l,
                          t[k].decl.prop = t[l].decl.prop
                   PROVE  t[k].dead
      OBVIOUS
    <3>2. k \in DOMAIN s
      BY <2>1, <3>1
    <3>3. CASE l = m
      <4>1. s[k].decl.prop = d.prop
        BY <1>4, <3>1, <3>2, <3>3
      <4>2. s[k].dead \/ k = c
        BY <3>2, <4>1, FindLive
      <4> QED  BY <1>4, <3>2, <4>2
    <3>4. CASE l \in DOMAIN s
      <4>1. s[k].dead
        BY <1>4, <3>1, <3>2, <3>4 DEF Arena
      <4> QED  BY <1>4, <3>2, <4>1
    <3> QED  BY <2>1, <3>3, <3>4
  <2>4. \A k, l \in DOMAIN t : k < l => t[k].decl.rule <= t[l].decl.rule
    <3>1. SUFFICES ASSUME NEW k \in DOMAIN t, NEW l \in DOMAIN t, k < l
                   PROVE  t[k].decl.rule <= t[l].decl.rule
      OBVIOUS
    <3>2. k \in DOMAIN s
      BY <2>1, <3>1
    <3>3. CASE l = m
      BY <1>4, <3>2, <3>3 DEF Arena
    <3>4. CASE l \in DOMAIN s
      BY <1>4, <3>1, <3>2, <3>4 DEF Arena
    <3> QED  BY <2>1, <3>3, <3>4
  <2>5. \A e \in S \union {d} : \E k \in DOMAIN t :
            ~t[k].dead /\ t[k].decl.prop = e.prop /\ ~Abstract!Beats(e, t[k].decl)
    <3>1. SUFFICES ASSUME NEW e \in S
                   PROVE  \E k \in DOMAIN t : /\ ~t[k].dead
                                              /\ t[k].decl.prop = e.prop
                                              /\ ~Abstract!Beats(e, t[k].decl)
      BY <1>2, <1>4, <2>1
    <3>2. PICK k \in DOMAIN s : /\ ~s[k].dead
                                /\ s[k].decl.prop = e.prop
                                /\ ~Abstract!Beats(e, s[k].decl)
      BY DEF Arena
    <3>3. CASE k # c
      BY <1>4, <2>1, <3>2, <3>3
    <3>4. CASE k = c
      <4>1. c # 0
        BY <1>1, <3>4
      <4>2. s[c].decl.prop = d.prop
        BY <4>1, FindLive
      <4>3. s[c].decl \in FullDecl
        BY <3>4 DEF Arena
      <4>4. ~Abstract!Beats(e, d)
        BY <1>4, <3>2, <3>4, <4>1, <4>3, BeatsNegTransitive
      <4> QED  BY <1>4, <2>1, <3>2, <3>4, <4>2, <4>4
    <3> QED  BY <3>3, <3>4
  <2> QED  BY <1>4, <2>2, <2>3, <2>4, <2>5 DEF Arena
<1> QED  BY <1>3, <1>4, AddShape

-----------------------------------------------------------------------------
(* The inductive invariant *)

(* The element is one of those the documents hold. *)
Inputs == \E doc \in Documents : style = doc.style /\ rules = doc.rules

(* Where the loops stand: no rule has been applied before the map exists, the
   style attribute is seeded before any rule of the stylesheet, and every
   source is read from its first declaration. *)
Loops ==
    /\ phase = "scan" => j = 1
    /\ phase = "apply" /\ rules[i].pseudo => j = 1
    /\ phase \in {"seed", "apply"} => visited
    /\ ~visited => slots = <<>> /\ \A r \in matched : r >= i
    /\ phase = "seed" => \A r \in matched : r >= i

IInv == TypeOK /\ Inputs /\ Loops /\ Arena(slots, Seen)

(* What has been seen is of the right type, and is on offer. *)
LEMMA SeenIsOffered ==
    ASSUME TypeOK, Inputs
    PROVE  /\ Seen \subseteq FullDecl
           /\ Seen \subseteq Offerable
           /\ \A k \in DOMAIN style : /\ StyleDecl(style, k) \in FullDecl
                                      /\ StyleDecl(style, k) \in Offerable
           /\ \A r \in DOMAIN rules : \A k \in DOMAIN rules[r].decls :
                 /\ RuleDecl(rules, r, k) \in FullDecl
                 /\ RuleDecl(rules, r, k) \in Offerable
<1>1. PICK doc \in Documents : style = doc.style /\ rules = doc.rules
  BY DEF Inputs
<1>2. ASSUME NEW k \in DOMAIN style
      PROVE  StyleDecl(style, k) \in FullDecl /\ StyleDecl(style, k) \in Offerable
  <2>1. style[k] \in InlineDecl /\ k - 1 \in Nat
    BY DEF TypeOK
  <2>2. StyleDecl(style, k) \in FullDecl
    BY <2>1 DEF StyleDecl, FullDecl, InlineDecl
  <2>3. StyleDecl(style, k) \in DeclsOf(doc)
    BY <1>1 DEF DeclsOf
  <2> QED  BY <2>2, <2>3 DEF Offerable
<1>3. ASSUME NEW r \in DOMAIN rules, NEW k \in DOMAIN rules[r].decls
      PROVE  RuleDecl(rules, r, k) \in FullDecl /\ RuleDecl(rules, r, k) \in Offerable
  <2>1. rules[r] \in Rule /\ r \in Nat
    BY DEF TypeOK
  <2>2. rules[r].decls[k] \in SheetDecl /\ rules[r].spec \in Nat \X Nat \X Nat
    BY <2>1 DEF Rule
  <2>3. RuleDecl(rules, r, k) \in FullDecl
    BY <2>1, <2>2 DEF RuleDecl, FullDecl, SheetDecl
  <2>4. RuleDecl(rules, r, k) \in DeclsOf(doc)
    BY <1>1 DEF DeclsOf
  <2> QED  BY <2>3, <2>4 DEF Offerable
<1>4. SeenStyle \subseteq FullDecl /\ SeenStyle \subseteq Offerable
  BY <1>2 DEF SeenStyle
<1>5. SeenRules \subseteq FullDecl /\ SeenRules \subseteq Offerable
  BY <1>3 DEF SeenRules
<1> QED  BY <1>2, <1>3, <1>4, <1>5 DEF Seen

(* A step that reaches no further declaration sees nothing new. *)
LEMMA NothingNew ==
    ASSUME UNCHANGED <<style, rules>>,
           \A k \in DOMAIN style : StyleReached(k)' <=> StyleReached(k),
           \A r \in DOMAIN rules : \A k \in DOMAIN rules[r].decls :
               Reached(r, k)' <=> Reached(r, k)
    PROVE  Seen' = Seen
<1>1. SeenStyle' = SeenStyle
  BY DEF SeenStyle
<1>2. SeenRules' = SeenRules
  BY DEF SeenRules
<1> QED  BY <1>1, <1>2 DEF Seen

(* Nothing that has been seen comes from a later rule than the current one. *)
LEMMA SeenRulesAscend ==
    ASSUME TypeOK, Inputs, Loops, NEW e \in Seen
    PROVE  /\ phase = "seed" => e.rule = 0
           /\ phase = "apply" => e.rule <= i
<1>1. CASE e \in SeenStyle
  BY <1>1 DEF SeenStyle, StyleDecl, TypeOK
<1>2. CASE e \in SeenRules
  <2>1. PICK r \in DOMAIN rules : \E k \in DOMAIN rules[r].decls :
            Reached(r, k) /\ e = RuleDecl(rules, r, k)
    BY <1>2 DEF SeenRules
  <2>2. e.rule = r /\ r \in Nat /\ i \in Nat
    BY <2>1 DEF RuleDecl, TypeOK
  <2>3. r \in matched /\ (r < i \/ (r = i /\ phase = "apply"))
    BY <2>1 DEF Reached
  <2> QED  BY <2>2, <2>3 DEF Loops
<1> QED  BY <1>1, <1>2 DEF Seen

(* Before the first step nothing has been seen and the arena is empty. *)
LEMMA InitIInv ==
    ASSUME Init
    PROVE  IInv
<1>1. PICK doc \in Documents : style = doc.style /\ rules = doc.rules
  BY DEF Init
<1>2. doc \in Document
  BY DocumentsAssumption
<1>3. Inputs
  BY <1>1 DEF Inputs
<1>4. TypeOK
  <2>1. style \in Seq(InlineDecl) /\ rules \in Seq(Rule)
    BY <1>1, <1>2 DEF Document
  <2>2. slots \in Seq(Slot) /\ DOMAIN slots = {}
    BY DEF Init
  <2>3. matched \subseteq DOMAIN rules /\ Len(rules) \in Nat
    BY <2>1 DEF Init
  <2>4. /\ phase = "scan" /\ i = 1 /\ j = 1 /\ visited = FALSE
        /\ 1 <= Len(rules) + 1 /\ 1 \in Nat \ {0}
    BY <2>3 DEF Init
  <2> QED  BY <2>1, <2>2, <2>3, <2>4 DEF TypeOK
<1>5. Loops
  BY <1>4 DEF Init, Loops, TypeOK
<1>6. Seen = {}
  <2>1. SeenStyle = {}
    BY DEF Init, SeenStyle, StyleReached
  <2>2. ASSUME NEW r \in DOMAIN rules, NEW k, Reached(r, k)
        PROVE  FALSE
    BY <1>4, <2>2 DEF Init, Reached, TypeOK
  <2>3. SeenRules = {}
    BY <2>2 DEF SeenRules
  <2> QED  BY <2>1, <2>3 DEF Seen
<1>7. Arena(slots, Seen)
  BY <1>6 DEF Init, Arena
<1> QED  BY <1>3, <1>4, <1>5, <1>7 DEF IInv

(* The steps that add nothing: the map stays, and so does what it stands for. *)
LEMMA ControlStep ==
    ASSUME IInv,
           SkipRule \/ FirstMatch \/ SeedDone \/ LaterMatch \/ PseudoRule
               \/ RuleDone \/ WriteStyle \/ UNCHANGED vars
    PROVE  TypeOK' /\ Inputs' /\ Loops' /\ slots' = slots /\ Seen' = Seen
<1> USE DEF IInv
<1>1. style' = style /\ rules' = rules /\ matched' = matched /\ slots' = slots
  BY DEF SkipRule, FirstMatch, SeedDone, LaterMatch, PseudoRule, RuleDone, WriteStyle, vars
<1>2. Inputs'
  BY <1>1 DEF Inputs
<1>3. /\ \A r \in matched : r \in 1..Len(rules) /\ r \in Nat /\ i \in Nat
      /\ \A k \in DOMAIN style : k \in 1..Len(style)
      /\ \A r \in DOMAIN rules : \A k \in DOMAIN rules[r].decls :
            k \in 1..Len(rules[r].decls)
  <2>1. \A r \in DOMAIN rules : rules[r] \in Rule
    BY DEF TypeOK
  <2>2. \A r \in DOMAIN rules : rules[r].decls \in Seq(SheetDecl)
    BY <2>1 DEF Rule
  <2> QED  BY <2>2 DEF TypeOK
<1>4. SUFFICES /\ TypeOK' /\ Loops'
               /\ \A k \in DOMAIN style : StyleReached(k)' <=> StyleReached(k)
               /\ \A r \in DOMAIN rules : \A k \in DOMAIN rules[r].decls :
                     Reached(r, k)' <=> Reached(r, k)
  BY <1>1, <1>2, NothingNew
<1>5. CASE SkipRule
  BY <1>3, <1>5 DEF SkipRule, TypeOK, Loops, StyleReached, Reached
<1>6. CASE FirstMatch
  BY <1>3, <1>6 DEF FirstMatch, TypeOK, Loops, StyleReached, Reached
<1>7. CASE SeedDone
  BY <1>3, <1>7 DEF SeedDone, TypeOK, Loops, StyleReached, Reached
<1>8. CASE LaterMatch
  BY <1>3, <1>8 DEF LaterMatch, TypeOK, Loops, StyleReached, Reached
<1>9. CASE PseudoRule
  BY <1>3, <1>9 DEF PseudoRule, TypeOK, Loops, StyleReached, Reached
<1>10. CASE RuleDone
  BY <1>3, <1>10 DEF RuleDone, TypeOK, Loops, StyleReached, Reached
<1>11. CASE WriteStyle
  BY <1>3, <1>11 DEF WriteStyle, TypeOK, Loops, StyleReached, Reached
<1>12. CASE UNCHANGED vars
  BY <1>12 DEF vars, TypeOK, Loops, StyleReached, Reached
<1> QED  BY <1>5, <1>6, <1>7, <1>8, <1>9, <1>10, <1>11, <1>12

(* One more declaration reaches the map, and the map accounts for it. *)
LEMMA AddStep ==
    ASSUME IInv, NEW d \in FullDecl, \A e \in Seen : e.rule <= d.rule,
           slots' = add(slots, d), Seen' = Seen \union {d}
    PROVE  Arena(slots, Seen)' /\ slots' \in Seq(Slot) /\ \A k \in DOMAIN slots' : slots'[k].next < k
<1>1. Seen \in SUBSET FullDecl
  BY SeenIsOffered DEF IInv
<1>2. slots' \in Seq(Slot) /\ Arena(slots', Seen')
  BY <1>1, AddPreserves DEF IInv, TypeOK
<1> QED  BY <1>2 DEF Arena

(* seedInline adds one declaration of the style attribute, and sees it. *)
LEMMA SeedDeclStep ==
    ASSUME IInv, SeedDecl
    PROVE  /\ IInv'
           /\ Seen' = Seen \union {StyleDecl(style, j)}
           /\ StyleDecl(style, j) \in FullDecl /\ StyleDecl(style, j) \in Offerable
           /\ \A e \in Seen : e.rule <= StyleDecl(style, j).rule
<1> DEFINE d == StyleDecl(style, j)
<1>1. d \in FullDecl /\ d \in Offerable /\ d.rule = 0
  BY SeenIsOffered DEF IInv, SeedDecl, StyleDecl
<1>2. \A e \in Seen : e.rule <= d.rule
  BY <1>1, SeenRulesAscend DEF IInv, SeedDecl
<1>3. SeenStyle' = SeenStyle \union {d}
  <2>1. \A k \in DOMAIN style : StyleReached(k)' <=> StyleReached(k) \/ k = j
    BY DEF IInv, TypeOK, Loops, SeedDecl, StyleReached
  <2> QED  BY <2>1 DEF SeenStyle, SeedDecl
<1>4. SeenRules' = SeenRules
  <2>1. \A r, k : Reached(r, k)' <=> Reached(r, k)
    BY DEF IInv, TypeOK, SeedDecl, Reached
  <2> QED  BY <2>1 DEF SeenRules, SeedDecl
<1>5. Seen' = Seen \union {d}
  BY <1>3, <1>4 DEF Seen
<1>6. Inputs' /\ Loops'
  BY DEF IInv, TypeOK, SeedDecl, Inputs, Loops
<1>7. Arena(slots, Seen)' /\ slots' \in Seq(Slot) /\ \A k \in DOMAIN slots' : slots'[k].next < k
  BY <1>1, <1>2, <1>5, AddStep DEF SeedDecl
<1>8. TypeOK'
  BY <1>7 DEF IInv, TypeOK, SeedDecl
<1> QED  BY <1>1, <1>2, <1>5, <1>6, <1>7, <1>8 DEF IInv

(* applyRules adds one declaration of a matching rule, and sees it. *)
LEMMA AddDeclStep ==
    ASSUME IInv, AddDecl
    PROVE  /\ IInv'
           /\ Seen' = Seen \union {RuleDecl(rules, i, j)}
           /\ RuleDecl(rules, i, j) \in FullDecl /\ RuleDecl(rules, i, j) \in Offerable
           /\ \A e \in Seen : e.rule <= RuleDecl(rules, i, j).rule
<1> DEFINE d == RuleDecl(rules, i, j)
<1>1. i \in DOMAIN rules /\ i \in matched
  BY DEF IInv, TypeOK, AddDecl
<1>2. d \in FullDecl /\ d \in Offerable /\ d.rule = i
  BY <1>1, SeenIsOffered DEF IInv, AddDecl, RuleDecl
<1>3. \A e \in Seen : e.rule <= d.rule
  BY <1>2, SeenRulesAscend DEF IInv, AddDecl
<1>4. SeenStyle' = SeenStyle
  <2>1. \A k \in DOMAIN style : StyleReached(k)' <=> StyleReached(k)
    BY DEF AddDecl, StyleReached
  <2> QED  BY <2>1 DEF SeenStyle, AddDecl
<1>5. SeenRules' = SeenRules \union {d}
  <2>1. \A r \in DOMAIN rules : \A k \in DOMAIN rules[r].decls :
            Reached(r, k)' <=> Reached(r, k) \/ (r = i /\ k = j)
    <3>1. \A r \in DOMAIN rules : rules[r] \in Rule /\ r \in Nat
      BY DEF IInv, TypeOK
    <3>2. \A r \in DOMAIN rules : rules[r].decls \in Seq(SheetDecl)
      BY <3>1 DEF Rule
    <3>3. \A r \in DOMAIN rules : \A k \in DOMAIN rules[r].decls : k \in Nat
      BY <3>2
    <3> QED  BY <1>1, <3>1, <3>3 DEF IInv, TypeOK, AddDecl, Reached
  <2>2. \A e : e \in SeenRules' <=>
            \E r \in DOMAIN rules : \E k \in DOMAIN rules[r].decls :
                Reached(r, k)' /\ e = RuleDecl(rules, r, k)
    BY DEF SeenRules, AddDecl
  <2>3. \A e : e \in SeenRules <=>
            \E r \in DOMAIN rules : \E k \in DOMAIN rules[r].decls :
                Reached(r, k) /\ e = RuleDecl(rules, r, k)
    BY DEF SeenRules
  <2>4. j \in DOMAIN rules[i].decls
    BY DEF AddDecl
  <2>5. \A e : e \in SeenRules' <=> e \in SeenRules \/ e = d
    BY <1>1, <2>1, <2>2, <2>3, <2>4
  <2> QED  BY <2>5
<1>6. Seen' = Seen \union {d}
  BY <1>4, <1>5 DEF Seen
<1>7. Inputs' /\ Loops'
  BY DEF IInv, TypeOK, AddDecl, Inputs, Loops
<1>8. Arena(slots, Seen)' /\ slots' \in Seq(Slot) /\ \A k \in DOMAIN slots' : slots'[k].next < k
  BY <1>2, <1>3, <1>6, AddStep DEF AddDecl
<1>9. TypeOK'
  BY <1>8 DEF IInv, TypeOK, AddDecl
<1> QED  BY <1>2, <1>3, <1>6, <1>7, <1>8, <1>9 DEF IInv

(* The inductive invariant survives every step. *)
LEMMA NextIInv ==
    ASSUME IInv, [Next]_vars
    PROVE  IInv'
<1>1. CASE SeedDecl
  BY <1>1, SeedDeclStep
<1>2. CASE AddDecl
  BY <1>2, AddDeclStep
<1>3. CASE SkipRule \/ FirstMatch \/ SeedDone \/ LaterMatch \/ PseudoRule
               \/ RuleDone \/ WriteStyle \/ UNCHANGED vars
  BY <1>3, ControlStep DEF IInv, Arena
<1> QED  BY <1>1, <1>2, <1>3 DEF Next, Done

(* The inductive invariant holds throughout. *)
THEOREM InductiveInvariant == Spec => []IInv
<1>1. Init => IInv
  BY InitIInv
<1>2. IInv /\ [Next]_vars => IInv'
  BY NextIInv
<1> QED  BY <1>1, <1>2, PTL DEF Spec

(***************************************************************************)
(* The visit of an element never indexes outside its rules, its            *)
(* declarations or its slots, and no chain of slots can loop.              *)
(***************************************************************************)
THEOREM TypeCorrect == Spec => []TypeOK
<1>1. IInv => TypeOK
  BY DEF IInv
<1> QED  BY <1>1, InductiveInvariant, PTL

(***************************************************************************)
(* At every moment the live slot of a property holds the winner of the     *)
(* cascade among everything offered for it, for any number of rules,       *)
(* declarations and properties.                                            *)
(***************************************************************************)
THEOREM WinnerAlwaysMaximal == Spec => []WinnerIsMaximal
<1>1. ASSUME IInv PROVE WinnerIsMaximal
  <2>1. SUFFICES ASSUME NEW p \in Prop
                 PROVE  IF SeenFor(p) = {} THEN find(slots, p) = 0
                        ELSE /\ find(slots, p) # 0
                             /\ BestOf(p) \in SeenFor(p)
                             /\ \A d \in SeenFor(p) : ~Abstract!Beats(d, BestOf(p))
    BY DEF WinnerIsMaximal
  <2>2. Arena(slots, Seen) /\ slots \in Seq(Slot)
    BY <1>1 DEF IInv, TypeOK
  <2>3. \A k \in DOMAIN slots : slots[k].decl.prop = p => slots[k].decl \in SeenFor(p)
    BY <2>2 DEF Arena, SeenFor
  <2>4. CASE SeenFor(p) = {}
    BY <2>2, <2>3, <2>4, FindLive
  <2>5. CASE SeenFor(p) # {}
    <3>1. \A d \in SeenFor(p) : /\ find(slots, p) # 0
                                /\ ~Abstract!Beats(d, slots[find(slots, p)].decl)
      <4>1. SUFFICES ASSUME NEW d \in SeenFor(p)
                     PROVE  /\ find(slots, p) # 0
                            /\ ~Abstract!Beats(d, slots[find(slots, p)].decl)
        OBVIOUS
      <4>2. PICK k \in DOMAIN slots : /\ ~slots[k].dead
                                      /\ slots[k].decl.prop = p
                                      /\ ~Abstract!Beats(d, slots[k].decl)
        BY <2>2 DEF Arena, SeenFor
      <4>3. k = find(slots, p)
        BY <2>2, <4>2, FindLive
      <4> QED  BY <2>2, <4>2, <4>3
    <3>2. find(slots, p) # 0
      BY <2>5, <3>1
    <3>3. BestOf(p) = slots[find(slots, p)].decl
      BY <3>2 DEF BestOf
    <3>4. BestOf(p) \in SeenFor(p)
      BY <2>2, <2>3, <3>2, <3>3, FindLive
    <3> QED  BY <2>5, <3>1, <3>2, <3>3, <3>4
  <2> QED  BY <2>4, <2>5
<1>2. IInv => WinnerIsMaximal
  BY <1>1
<1> QED  BY <1>2, InductiveInvariant, PTL

-----------------------------------------------------------------------------
(* Refinement *)

(* After a declaration has taken its property, that property's live slot is
   the new one and every other property keeps the slot it had. *)
LEMMA FindAfterAdd ==
    ASSUME NEW s \in Seq(Slot), NEW S, Arena(s, S), NEW d \in FullDecl,
           NEW t \in Seq(Slot), NEW T, Arena(t, T), NEW q,
           Len(t) = Len(s) + 1,
           t[Len(s) + 1].decl = d, ~t[Len(s) + 1].dead,
           \A k \in DOMAIN s : /\ t[k].decl = s[k].decl
                               /\ t[k].dead = (s[k].dead \/ k = find(s, d.prop))
    PROVE  find(t, q) = IF q = d.prop THEN Len(s) + 1 ELSE find(s, q)
<1>1. /\ DOMAIN s = 1..Len(s) /\ Len(s) \in Nat /\ DOMAIN t = 1..(Len(s) + 1)
      /\ \A k \in DOMAIN t : k = Len(s) + 1 \/ k \in DOMAIN s
      /\ \A k \in DOMAIN s : k \in DOMAIN t /\ k # 0
  OBVIOUS
<1>2. CASE q = d.prop
  BY <1>1, <1>2, FindLive
<1>3. CASE q # d.prop
  <2>1. CASE find(s, q) = 0
    <3>1. \A k \in DOMAIN s : s[k].decl.prop = q => s[k].dead
      BY <2>1, FindLive
    <3>2. \A k \in DOMAIN t : t[k].decl.prop = q => t[k].dead
      BY <1>1, <1>3, <3>1
    <3> QED  BY <1>3, <2>1, <3>2, FindLive
  <2>2. CASE find(s, q) # 0
    <3>1. PICK k \in DOMAIN s : k = find(s, q) /\ ~s[k].dead /\ s[k].decl.prop = q
      BY <2>2, FindLive
    <3>2. k # find(s, d.prop)
      BY <1>1, <1>3, <3>1, FindLive
    <3>3. k \in DOMAIN t /\ ~t[k].dead /\ t[k].decl.prop = q
      BY <1>1, <3>1, <3>2
    <3> QED  BY <1>3, <3>1, <3>3, FindLive
  <2> QED  BY <2>1, <2>2
<1> QED  BY <1>2, <1>3

(* Adding a declaration to the arena is Win of the specification, or nothing. *)
LEMMA AddRefines ==
    ASSUME IInv, IInv', NEW d \in FullDecl, d \in Offerable,
           \A e \in Seen : e.rule <= d.rule, slots' = add(slots, d)
    PROVE  Abstract!AbsNext \/ UNCHANGED Abstract!absVars
<1> DEFINE c == find(slots, d.prop)
           m == Len(slots) + 1
<1>1. /\ slots \in Seq(Slot) /\ Arena(slots, Seen) /\ Seen \in SUBSET FullDecl
      /\ slots' \in Seq(Slot) /\ Arena(slots', Seen') /\ Seen \subseteq Offerable
  BY SeenIsOffered DEF IInv, TypeOK, Arena
<1>2. DOMAIN slots = 1..Len(slots) /\ Len(slots) \in Nat
  BY <1>1
<1>3. CASE slots' = slots
  <2>1. \A p : BestOf(p)' = BestOf(p) /\ FallbacksOf(p)' = FallbacksOf(p)
    BY <1>3 DEF BestOf, FallbacksOf
  <2> QED  BY <2>1 DEF Abstract!absVars
<1>4. CASE /\ c # 0 => Abstract!Beats(d, slots[c].decl)
           /\ Len(slots') = m
           /\ slots'[m].decl = d
           /\ ~slots'[m].dead
           /\ \A k \in DOMAIN slots : /\ slots'[k].decl = slots[k].decl
                                      /\ slots'[k].dead = (slots[k].dead \/ k = c)
  <2>1. /\ DOMAIN slots' = 1..m /\ m \in Nat /\ m # 0 /\ m \notin DOMAIN slots
        /\ \A k \in DOMAIN slots' : k = m \/ k \in DOMAIN slots
        /\ \A k \in DOMAIN slots : k \in DOMAIN slots' /\ k \in Nat /\ k # 0
    BY <1>1, <1>2, <1>4
  <2>2. \A q : find(slots', q) = IF q = d.prop THEN m ELSE find(slots, q)
    BY <1>1, <1>4, FindAfterAdd
  <2>3. \A k \in DOMAIN slots : /\ slots[k].decl \in Seen
                               /\ slots[k].decl \in FullDecl
                               /\ slots[k].decl.rule \in Nat
                               /\ slots[k].decl.rule <= d.rule
                               /\ slots[k].decl # None
    BY <1>1, NoneAssumption, SMTT(30) DEF Arena, FullDecl
  <2>4. d.prop \in Prop /\ d.rule \in Nat
    BY DEF FullDecl
  <2>5. \A q : BestOf(q)' = IF q = d.prop THEN d ELSE BestOf(q)
    <3>1. \A q : find(slots, q) # 0 => find(slots, q) \in DOMAIN slots
      BY <1>1, FindLive
    <3> QED  BY <1>4, <2>1, <2>2, <3>1 DEF BestOf
  <2>6. \A q : q # d.prop => FallbacksOf(q)' = FallbacksOf(q)
    <3>1. SUFFICES ASSUME NEW q, q # d.prop PROVE FallbacksOf(q)' = FallbacksOf(q)
      OBVIOUS
    <3>2. find(slots', q) = find(slots, q)
      BY <2>2, <3>1
    <3>3. find(slots, q) # 0 => /\ find(slots, q) \in DOMAIN slots
                               /\ slots'[find(slots, q)].decl = slots[find(slots, q)].decl
      BY <1>1, <1>4, FindLive
    <3>4. c # 0 => slots[c].decl.prop = d.prop
      BY <1>1, FindLive
    <3>5. \A k \in DOMAIN slots : slots[k].decl.prop = q => (slots'[k].dead <=> slots[k].dead)
      BY <1>4, <2>1, <3>1, <3>4
    <3>6. ~(slots'[m].dead /\ slots'[m].decl.prop = q)
      BY <1>4
    <3> QED  BY <1>4, <2>1, <3>2, <3>3, <3>5, <3>6 DEF FallbacksOf
  <2>7. \A k \in DOMAIN slots' :
            slots'[k].dead /\ slots'[k].decl.prop = d.prop <=>
                /\ k \in DOMAIN slots
                /\ slots[k].decl.prop = d.prop
                /\ slots[k].dead \/ k = c
    BY <1>4, <2>1
  <2>8. FallbacksOf(d.prop)' =
            {slots[k].decl : k \in {k \in DOMAIN slots :
                /\ slots[k].decl.prop = d.prop
                /\ slots[k].dead \/ k = c
                /\ slots[k].decl.rule = d.rule}}
    <3>1. find(slots', d.prop) = m
      BY <2>2
    <3> QED  BY <1>4, <2>1, <2>7, <3>1 DEF FallbacksOf
  <2>9. FallbacksOf(d.prop)' =
            IF BestOf(d.prop) # None /\ BestOf(d.prop).rule = d.rule
            THEN FallbacksOf(d.prop) \union {BestOf(d.prop)} ELSE {}
    <3>1. CASE c = 0
      <4>1. \A k \in DOMAIN slots : slots[k].decl.prop # d.prop
        <5>1. SUFFICES ASSUME NEW k \in DOMAIN slots, slots[k].decl.prop = d.prop PROVE FALSE
          OBVIOUS
        <5>2. PICK l \in DOMAIN slots : ~slots[l].dead /\ slots[l].decl.prop = d.prop
          BY <1>1, <2>3, <5>1 DEF Arena
        <5> QED  BY <1>1, <2>1, <3>1, <5>2, FindLive
      <4>2. BestOf(d.prop) = None
        BY <3>1 DEF BestOf
      <4> QED  BY <2>8, <4>1, <4>2
    <3>2. CASE c # 0
      <4>1. c \in DOMAIN slots /\ ~slots[c].dead /\ slots[c].decl.prop = d.prop
        BY <1>1, <3>2, FindLive
      <4>2. BestOf(d.prop) = slots[c].decl /\ BestOf(d.prop) # None
        BY <2>3, <3>2, <4>1 DEF BestOf
      <4>3. CASE slots[c].decl.rule = d.rule
        <5>1. FallbacksOf(d.prop) =
                  {slots[k].decl : k \in {k \in DOMAIN slots :
                      /\ slots[k].dead
                      /\ slots[k].decl.prop = d.prop
                      /\ slots[k].decl.rule = d.rule}}
          BY <3>2, <4>3 DEF FallbacksOf
        <5> QED  BY <2>8, <4>1, <4>2, <4>3, <5>1
      <4>4. CASE slots[c].decl.rule # d.rule
        <5>1. ASSUME NEW k \in DOMAIN slots, slots[k].decl.prop = d.prop,
                     slots[k].dead \/ k = c
              PROVE  slots[k].decl.rule # d.rule
          <6>1. k <= c
            BY <1>1, <2>1, <4>1, <5>1 DEF Arena
          <6>2. slots[k].decl.rule <= slots[c].decl.rule
            BY <1>1, <2>1, <2>3, <4>1, <6>1 DEF Arena
          <6> QED  BY <2>3, <2>4, <4>1, <4>4, <6>2
        <5> QED  BY <2>8, <4>2, <4>4, <5>1
      <4> QED  BY <4>3, <4>4
    <3> QED  BY <3>1, <3>2
  <2>10. BestOf(d.prop) = None \/ Abstract!Beats(d, BestOf(d.prop))
    BY <1>4 DEF BestOf
  <2>11. Abstract!Win(d)
    BY <2>4, <2>5, <2>6, <2>9, <2>10 DEF Abstract!Win
  <2> QED  BY <2>11 DEF Abstract!AbsNext
<1> QED  BY <1>1, <1>3, <1>4, AddShape

(***************************************************************************)
(* The arena of slots, with its dead marks and links, implements the       *)
(* specification's plain map from properties to winners and fallbacks.     *)
(***************************************************************************)
THEOREM ArenaImplementsMap == Spec => ImplementsCascadeSpec
<1>1. ASSUME Init PROVE Abstract!AbsInit
  <2>1. slots = <<>> /\ DOMAIN slots = {}
    BY <1>1 DEF Init
  <2>2. \A p : find(slots, p) = 0
    BY <2>1 DEF find, Live
  <2>3. \A p : BestOf(p) = None /\ FallbacksOf(p) = {}
    BY <2>1, <2>2 DEF BestOf, FallbacksOf
  <2> QED  BY <2>3 DEF Abstract!AbsInit
<1>2. ASSUME IInv, IInv', [Next]_vars
      PROVE  Abstract!AbsNext \/ UNCHANGED Abstract!absVars
  <2>1. CASE SeedDecl
    BY <1>2, <2>1, SeedDeclStep, AddRefines DEF SeedDecl
  <2>2. CASE AddDecl
    BY <1>2, <2>2, AddDeclStep, AddRefines DEF AddDecl
  <2>3. CASE SkipRule \/ FirstMatch \/ SeedDone \/ LaterMatch \/ PseudoRule
                 \/ RuleDone \/ WriteStyle \/ UNCHANGED vars
    <3>1. slots' = slots
      BY <1>2, <2>3, ControlStep
    <3>2. \A p : BestOf(p)' = BestOf(p) /\ FallbacksOf(p)' = FallbacksOf(p)
      BY <3>1 DEF BestOf, FallbacksOf
    <3> QED  BY <3>2 DEF Abstract!absVars
  <2> QED  BY <1>2, <2>1, <2>2, <2>3 DEF Next, Done
<1>3. Init => Abstract!AbsInit
  BY <1>1
<1>4. IInv /\ IInv' /\ [Next]_vars => [Abstract!AbsNext]_Abstract!absVars
  BY <1>2
<1> QED
  BY <1>3, <1>4, InductiveInvariant, PTL DEF Spec, ImplementsCascadeSpec, Abstract!AbsSpec

-----------------------------------------------------------------------------
(* Fallbacks *)

(* Winning is negatively transitive: what does not lose to the loser loses to the winner. *)
LEMMA BeatsOver ==
    ASSUME NEW d \in FullDecl, NEW e \in FullDecl, NEW f \in FullDecl,
           Abstract!Beats(d, e), ~Abstract!Beats(f, e)
    PROVE  Abstract!Beats(d, f)
<1>1. /\ KeyOf(d) \in Nat /\ KeyOf(e) \in Nat /\ KeyOf(f) \in Nat
      /\ d.ord \in Nat /\ e.ord \in Nat /\ f.ord \in Nat
  BY BeatsIsKeyOrder DEF FullDecl
<1>2. KeyOf(d) > KeyOf(e) \/ (KeyOf(d) = KeyOf(e) /\ d.ord > e.ord)
  BY BeatsIsKeyOrder
<1>3. ~(KeyOf(f) > KeyOf(e) \/ (KeyOf(f) = KeyOf(e) /\ f.ord > e.ord))
  BY BeatsIsKeyOrder
<1>4. KeyOf(d) > KeyOf(f) \/ (KeyOf(d) = KeyOf(f) /\ d.ord > f.ord)
  BY <1>1, <1>2, <1>3
<1> QED  BY <1>4, BeatsIsKeyOrder

(* Two slots one rule filled for one property. *)
SameSource(s, k, l) == s[k].decl.prop = s[l].decl.prop /\ s[k].decl.rule = s[l].decl.rule

(* What the slots remember of the declarations S offered so far: those that
   beat all that came before them for their property, and no others; and each
   slot links to the last one before it with its property and rule. *)
Traced(s, S) ==
    /\ \A k \in DOMAIN s : \A e \in S :
          e.prop = s[k].decl.prop /\ Earlier(e, s[k].decl) => Abstract!Beats(s[k].decl, e)
    /\ \A d \in S :
          (\A e \in S : e.prop = d.prop /\ Earlier(e, d) => Abstract!Beats(d, e)) =>
              \E k \in DOMAIN s : s[k].decl = d
    /\ \A k \in DOMAIN s : s[k].next # 0 => s[k].next \in DOMAIN s /\ SameSource(s, s[k].next, k)
    /\ \A k, l \in DOMAIN s : l < k /\ SameSource(s, l, k) => l <= s[k].next

(* One call of add keeps every slot's link at its last predecessor from the same source. *)
LEMMA AddTraces ==
    ASSUME NEW s \in Seq(Slot), NEW S \in SUBSET FullDecl, Arena(s, S), Traced(s, S),
           NEW d \in FullDecl, \A e \in S : Earlier(e, d)
    PROVE  Traced(add(s, d), S \union {d})
<1> DEFINE t == add(s, d)
           c == find(s, d.prop)
           m == Len(s) + 1
<1>1. DOMAIN s = 1..Len(s) /\ Len(s) \in Nat
  OBVIOUS
<1>2. \A e \in FullDecl : e.rule \in Nat /\ e.ord \in Nat
  BY DEF FullDecl
<1>3. \A e \in S : e \in FullDecl /\ ~Earlier(d, e) /\ ~Earlier(d, d) /\ e.rule <= d.rule
  <2> TAKE e \in S
  <2>1. Earlier(e, d) /\ e.rule \in Nat /\ e.ord \in Nat /\ d.rule \in Nat /\ d.ord \in Nat
    BY <1>2
  <2> QED  BY <2>1 DEF Earlier
<1>4. ~Earlier(d, d)
  BY <1>2 DEF Earlier
<1>5. \A k \in DOMAIN s : s[k].decl \in S
  BY DEF Arena
<1>6. CASE c # 0 /\ t = s /\ ~Abstract!Beats(d, s[c].decl)
  <2>1. c \in DOMAIN s /\ s[c].decl \in S /\ s[c].decl.prop = d.prop
    BY <1>5, <1>6, FindLive
  <2>2. \A k \in DOMAIN s : \A e \in S \union {d} :
           e.prop = s[k].decl.prop /\ Earlier(e, s[k].decl) => Abstract!Beats(s[k].decl, e)
    BY <1>3, <1>5 DEF Traced
  <2>3. ASSUME NEW f \in S \union {d},
               \A e \in S \union {d} : e.prop = f.prop /\ Earlier(e, f) => Abstract!Beats(f, e)
        PROVE  \E k \in DOMAIN s : s[k].decl = f
    <3>1. f # d
      BY <1>6, <2>1, <2>3
    <3> QED  BY <2>3, <3>1 DEF Traced
  <2> QED  BY <1>6, <2>2, <2>3 DEF Traced
<1>7. CASE /\ c # 0 => Abstract!Beats(d, s[c].decl)
           /\ t \in Seq(Slot)
           /\ Len(t) = m
           /\ t[m].decl = d
           /\ t[m].next = IF c # 0 /\ s[c].decl.rule = d.rule THEN c ELSE 0
           /\ \A k \in DOMAIN s : t[k].decl = s[k].decl /\ t[k].next = s[k].next
  <2>1. /\ DOMAIN t = 1..m /\ m \in Nat /\ m \notin DOMAIN s /\ m \in DOMAIN t
        /\ \A k \in DOMAIN t : k = m \/ k \in DOMAIN s
        /\ \A k \in DOMAIN s : k \in DOMAIN t /\ k < m /\ k \in Nat /\ k # 0
    BY <1>1, <1>7
  <2>2. /\ c # 0 => c \in DOMAIN s /\ s[c].decl \in S /\ s[c].decl.prop = d.prop
        /\ \A e \in S : e.prop = d.prop => c # 0 /\ ~Abstract!Beats(e, s[c].decl)
    <3>1. c # 0 => c \in DOMAIN s /\ s[c].decl \in S /\ s[c].decl.prop = d.prop
      BY <1>5, FindLive
    <3>2. ASSUME NEW e \in S, e.prop = d.prop
          PROVE  c # 0 /\ ~Abstract!Beats(e, s[c].decl)
      <4>1. PICK k \in DOMAIN s : /\ ~s[k].dead
                                  /\ s[k].decl.prop = e.prop
                                  /\ ~Abstract!Beats(e, s[k].decl)
        BY DEF Arena
      <4>2. k = c
        BY <3>2, <4>1, FindLive
      <4> QED  BY <2>1, <4>1, <4>2
    <3> QED  BY <3>1, <3>2
  <2>3. \A e \in S : e.prop = d.prop => Abstract!Beats(d, e)
    <3> TAKE e \in S
    <3> HAVE e.prop = d.prop
    <3>1. c # 0 /\ ~Abstract!Beats(e, s[c].decl) /\ s[c].decl \in FullDecl /\ e \in FullDecl
      BY <1>3, <2>2
    <3> QED  BY <1>7, <3>1, BeatsOver
  <2>4. \A k \in DOMAIN t : \A e \in S \union {d} :
           e.prop = t[k].decl.prop /\ Earlier(e, t[k].decl) => Abstract!Beats(t[k].decl, e)
    <3> TAKE k \in DOMAIN t
    <3>1. CASE k = m
      BY <1>4, <1>7, <2>3, <3>1
    <3>2. CASE k \in DOMAIN s
      BY <1>3, <1>5, <1>7, <3>2 DEF Traced
    <3> QED  BY <2>1, <3>1, <3>2
  <2>5. ASSUME NEW f \in S \union {d},
               \A e \in S \union {d} : e.prop = f.prop /\ Earlier(e, f) => Abstract!Beats(f, e)
        PROVE  \E k \in DOMAIN t : t[k].decl = f
    <3>1. CASE f = d
      BY <1>7, <2>1, <3>1
    <3>2. CASE f \in S
      <4>1. PICK k \in DOMAIN s : s[k].decl = f
        BY <2>5, <3>2 DEF Traced
      <4> QED  BY <1>7, <2>1, <4>1
    <3> QED  BY <3>1, <3>2
  <2>6. \A k \in DOMAIN t : t[k].next # 0 => t[k].next \in DOMAIN t /\ SameSource(t, t[k].next, k)
    <3> TAKE k \in DOMAIN t
    <3> HAVE t[k].next # 0
    <3>1. CASE k = m
      <4>1. t[k].next = c /\ c # 0 /\ s[c].decl.rule = d.rule
        BY <1>7, <3>1
      <4> QED  BY <1>7, <2>1, <2>2, <3>1, <4>1 DEF SameSource
    <3>2. CASE k \in DOMAIN s
      <4>1. s[k].next \in DOMAIN s /\ SameSource(s, s[k].next, k)
        BY <1>7, <3>2 DEF Traced
      <4> QED  BY <1>7, <2>1, <3>2, <4>1 DEF SameSource
    <3> QED  BY <2>1, <3>1, <3>2
  <2>7. ASSUME NEW k \in DOMAIN t, NEW l \in DOMAIN t, l < k, SameSource(t, l, k)
        PROVE  l <= t[k].next
    <3>1. l \in DOMAIN s
      BY <2>1, <2>7
    <3>2. CASE k = m
      <4>1. s[l].decl.prop = d.prop /\ s[l].decl.rule = d.rule /\ s[l].decl \in S
        BY <1>5, <1>7, <2>7, <3>1, <3>2 DEF SameSource
      <4>2. c # 0 /\ c \in DOMAIN s
        BY <2>2, <4>1
      <4>3. ~s[c].dead /\ s[c].decl.prop = d.prop
        BY <4>2, FindLive
      <4>4. l <= c
        <5>1. ~(c < l)
          BY <3>1, <4>1, <4>2, <4>3 DEF Arena
        <5> QED  BY <2>1, <3>1, <4>2, <5>1
      <4>5. s[c].decl.rule = d.rule
        <5>1. l < c => s[l].decl.rule <= s[c].decl.rule
          BY <3>1, <4>2 DEF Arena
        <5>2. s[c].decl.rule <= d.rule /\ s[c].decl.rule \in Nat /\ d.rule \in Nat
          BY <1>2, <1>3, <2>2, <4>2
        <5> QED  BY <2>1, <3>1, <4>1, <4>2, <4>4, <5>1, <5>2
      <4> QED  BY <1>7, <3>2, <4>2, <4>4, <4>5
    <3>3. CASE k \in DOMAIN s
      <4>1. SameSource(s, l, k)
        BY <1>7, <2>7, <3>1, <3>3 DEF SameSource
      <4> QED  BY <1>7, <2>7, <3>1, <3>3, <4>1 DEF Traced
    <3> QED  BY <2>1, <3>2, <3>3
  <2> QED  BY <2>4, <2>5, <2>6, <2>7 DEF Traced
<1> QED  BY <1>6, <1>7, AddShape

(* What has been offered was offered earlier than what is offered next. *)
LEMMA SeenEarlier ==
    ASSUME IInv
    PROVE  /\ SeedDecl => \A e \in Seen : Earlier(e, StyleDecl(style, j))
           /\ AddDecl => \A e \in Seen : Earlier(e, RuleDecl(rules, i, j))
<1>1. /\ \A k \in DOMAIN style : k \in Nat
      /\ \A r \in DOMAIN rules : r \in Nat /\ r # 0 /\ \A k \in DOMAIN rules[r].decls : k \in 1..Len(rules[r].decls)
      /\ i \in Nat /\ j \in Nat /\ matched \subseteq DOMAIN rules
  <2>1. \A r \in DOMAIN rules : rules[r] \in Rule
    BY DEF IInv, TypeOK
  <2>2. \A r \in DOMAIN rules : rules[r].decls \in Seq(SheetDecl)
    BY <2>1 DEF Rule
  <2> QED  BY <2>2 DEF IInv, TypeOK
<1>2. ASSUME NEW r \in DOMAIN rules, NEW a \in DOMAIN rules[r].decls, NEW b \in DOMAIN rules[r].decls, a < b
      PROVE  rules[r].decls[a].ord < rules[r].decls[b].ord
  <2>1. PICK doc \in Documents : style = doc.style /\ rules = doc.rules
    BY DEF IInv, Inputs
  <2>2. r \in 1..Len(doc.rules) /\ a \in 1..Len(doc.rules[r].decls) /\ b \in 1..Len(doc.rules[r].decls)
    BY <1>1, <2>1 DEF IInv, TypeOK
  <2> QED  BY <1>2, <2>1, <2>2, DocumentsAssumption
<1>3. \A e \in SeenStyle : \E k \in DOMAIN style : StyleReached(k) /\ e = StyleDecl(style, k)
  BY DEF SeenStyle
<1>4. \A e \in SeenRules : \E r \in DOMAIN rules : \E k \in DOMAIN rules[r].decls :
          Reached(r, k) /\ e = RuleDecl(rules, r, k)
  BY DEF SeenRules
<1>5. ASSUME SeedDecl, NEW e \in Seen
      PROVE  Earlier(e, StyleDecl(style, j))
  <2>1. phase = "seed" /\ j \in DOMAIN style
    BY <1>5 DEF SeedDecl
  <2>2. CASE e \in SeenStyle
    <3>1. PICK k \in DOMAIN style : StyleReached(k) /\ e = StyleDecl(style, k)
      BY <1>3, <2>2
    <3>2. k < j
      BY <2>1, <3>1 DEF StyleReached
    <3> QED  BY <1>1, <2>1, <3>1, <3>2 DEF Earlier, StyleDecl
  <2>3. CASE e \in SeenRules
    <3>1. PICK r \in DOMAIN rules : \E k \in DOMAIN rules[r].decls : Reached(r, k)
      BY <1>4, <2>3
    <3>2. r \in matched /\ r < i
      BY <2>1, <3>1 DEF Reached
    <3> QED  BY <1>1, <2>1, <3>2 DEF IInv, Loops
  <2> QED  BY <1>5, <2>2, <2>3 DEF Seen
<1>6. ASSUME AddDecl, NEW e \in Seen
      PROVE  Earlier(e, RuleDecl(rules, i, j))
  <2>1. phase = "apply" /\ j \in DOMAIN rules[i].decls /\ i \in DOMAIN rules
    BY <1>1, <1>6 DEF AddDecl, IInv, TypeOK
  <2>2. CASE e \in SeenStyle
    <3>1. e.rule = 0
      BY <1>3, <2>2 DEF StyleDecl
    <3> QED  BY <1>1, <2>1, <3>1 DEF Earlier, RuleDecl
  <2>3. CASE e \in SeenRules
    <3>1. PICK r \in DOMAIN rules : \E k \in DOMAIN rules[r].decls : Reached(r, k) /\ e = RuleDecl(rules, r, k)
      BY <1>4, <2>3
    <3>2. PICK k \in DOMAIN rules[r].decls : Reached(r, k) /\ e = RuleDecl(rules, r, k)
      BY <3>1
    <3>3. r < i \/ (r = i /\ k < j)
      BY <3>2 DEF Reached
    <3>4. r = i /\ k < j => rules[i].decls[k].ord < rules[i].decls[j].ord
      BY <1>2, <2>1, <3>2
    <3> QED  BY <3>2, <3>3, <3>4 DEF Earlier, RuleDecl
  <2> QED  BY <1>6, <2>2, <2>3 DEF Seen
<1> QED  BY <1>5, <1>6

(* The slots always remember what they should. *)
THEOREM AlwaysTraced == Spec => [](IInv /\ Traced(slots, Seen))
<1>1. Init => IInv /\ Traced(slots, Seen)
  <2> SUFFICES ASSUME Init PROVE Traced(slots, Seen)
    BY InitIInv
  <2>1. slots = <<>> /\ DOMAIN slots = {}
    BY DEF Init
  <2>2. \A d \in Seen : FALSE
    BY <2>1, InitIInv DEF IInv, Arena
  <2> QED  BY <2>1, <2>2 DEF Traced
<1>2. ASSUME IInv, Traced(slots, Seen), [Next]_vars
      PROVE  IInv' /\ Traced(slots, Seen)'
  <2>1. IInv' /\ Seen \in SUBSET FullDecl /\ slots \in Seq(Slot) /\ Arena(slots, Seen)
    BY <1>2, NextIInv, SeenIsOffered DEF IInv, TypeOK
  <2>2. CASE SeedDecl
    <3>1. slots' = add(slots, StyleDecl(style, j))
      BY <2>2 DEF SeedDecl
    <3> QED  BY <1>2, <2>1, <2>2, <3>1, SeedDeclStep, SeenEarlier, AddTraces
  <2>3. CASE AddDecl
    <3>1. slots' = add(slots, RuleDecl(rules, i, j))
      BY <2>3 DEF AddDecl
    <3> QED  BY <1>2, <2>1, <2>3, <3>1, AddDeclStep, SeenEarlier, AddTraces
  <2>4. CASE SkipRule \/ FirstMatch \/ SeedDone \/ LaterMatch \/ PseudoRule
                 \/ RuleDone \/ WriteStyle \/ UNCHANGED vars
    <3>1. slots' = slots /\ Seen' = Seen
      BY <1>2, <2>4, ControlStep
    <3> QED  BY <1>2, <2>1, <3>1 DEF Traced, SameSource
  <2> QED  BY <1>2, <2>2, <2>3, <2>4 DEF Next, Done
<1> QED  BY <1>1, <1>2, PTL DEF Spec

-----------------------------------------------------------------------------
(* Chains of slots *)

(* What the recursive function in Chains is, up to slot n. *)
ChainUpTo(s, n, f) == f = [k \in 0..n |-> IF k = 0 THEN <<>> ELSE <<k>> \o f[s[k].next]]

(* The recursive definition of a chain has a value, since links lead backwards. *)
LEMMA ChainExists ==
    ASSUME NEW s, NEW m \in Nat, \A k \in 1..m : s[k].next \in 0..(k - 1)
    PROVE  \E f : ChainUpTo(s, m, f)
<1> DEFINE G == {n \in Nat : n <= m => \E f : ChainUpTo(s, n, f)}
<1>1. 0 \in G
  <2>1. ChainUpTo(s, 0, [k \in 0..0 |-> <<>>])
    BY DEF ChainUpTo
  <2> QED  BY <2>1
<1>2. ASSUME NEW n \in Nat, n \in G
      PROVE  n + 1 \in G
  <2> SUFFICES ASSUME n + 1 <= m PROVE \E f : ChainUpTo(s, n + 1, f)
    OBVIOUS
  <2>1. PICK f : ChainUpTo(s, n, f)
    BY <1>2
  <2> DEFINE g == [k \in 0..(n + 1) |-> IF k = n + 1 THEN <<k>> \o f[s[k].next] ELSE f[k]]
  <2>2. \A k \in 0..n : f[k] = IF k = 0 THEN <<>> ELSE <<k>> \o f[s[k].next]
    BY <2>1 DEF ChainUpTo
  <2>3. \A k \in 1..(n + 1) : s[k].next \in 0..n
    OBVIOUS
  <2>4. \A k \in 0..(n + 1) : g[k] = IF k = 0 THEN <<>> ELSE <<k>> \o g[s[k].next]
    <3> TAKE k \in 0..(n + 1)
    <3>1. CASE k = n + 1
      <4>1. s[k].next \in 0..(n + 1) /\ s[k].next # n + 1 /\ k # 0
        BY <2>3, <3>1
      <4>2. g[s[k].next] = f[s[k].next]
        BY <4>1
      <4>3. g[k] = <<k>> \o f[s[k].next]
        BY <3>1
      <4> QED  BY <4>1, <4>2, <4>3
    <3>2. CASE k \in 1..n
      <4>1. s[k].next \in 0..n /\ k # n + 1
        BY <2>3, <3>2
      <4>2. g[s[k].next] = f[s[k].next] /\ g[k] = f[k]
        BY <4>1
      <4> HIDE DEF g
      <4> QED  BY <2>2, <3>2, <4>2
    <3>3. CASE k = 0
      <4>1. 0 \in 0..n /\ 0 \in 0..(n + 1) /\ 0 # n + 1
        OBVIOUS
      <4>2. g[0] = f[0]
        BY <4>1
      <4>3. f[0] = <<>>
        BY <2>2, <4>1
      <4> QED  BY <3>3, <4>2, <4>3
    <3> QED  BY <3>1, <3>2, <3>3
  <2>5. ChainUpTo(s, n + 1, g)
    BY <2>4 DEF ChainUpTo
  <2> QED  BY <2>5
<1> HIDE DEF G
<1>3. m \in G
  BY <1>1, <1>2, SetInduction
<1> QED  BY <1>3 DEF G

Link(k, u) == <<k>> \o u

(* A chain holds the slots with the property and the rule of its first one,
   up to that one. *)
LEMMA ChainIs ==
    ASSUME NEW s \in Seq(Slot), NEW S, Arena(s, S), Traced(s, S), NEW k \in DOMAIN s
    PROVE  /\ Chains(s)[k] \in Seq(DOMAIN s)
           /\ \A x \in DOMAIN Chains(s)[k] : Chains(s)[k][x] <= k /\ SameSource(s, Chains(s)[k][x], k)
           /\ \A l \in DOMAIN s : l <= k /\ SameSource(s, l, k) =>
                 \E x \in DOMAIN Chains(s)[k] : Chains(s)[k][x] = l
<1> DEFINE C == Chains(s)
<1>1. Len(s) \in Nat /\ DOMAIN s = 1..Len(s) /\ \A l \in DOMAIN s : l \in Nat /\ l # 0
  OBVIOUS
<1>2. \A l \in DOMAIN s : s[l].next \in 0..(l - 1)
  <2> TAKE l \in DOMAIN s
  <2>1. s[l] \in Slot
    BY ElementOfSeq
  <2>2. s[l].next \in Nat /\ s[l].next < l
    BY <2>1 DEF Slot, Arena
  <2> QED  BY <1>1, <2>2
<1>3. ChainUpTo(s, Len(s), C)
  <2>1. C = CHOOSE f : ChainUpTo(s, Len(s), f)
    BY Zenon DEF Chains, ChainUpTo
  <2>2. \E f : ChainUpTo(s, Len(s), f)
    BY <1>1, <1>2, ChainExists
  <2> HIDE DEF C
  <2> QED  BY <2>1, <2>2, Zenon
<1> HIDE DEF C
<1>4. C[0] = <<>> /\ \A l \in DOMAIN s : C[l] = Link(l, C[s[l].next])
  <2>1. \A l \in 0..Len(s) : C[l] = IF l = 0 THEN <<>> ELSE Link(l, C[s[l].next])
    BY <1>3, Zenon DEF ChainUpTo, Link
  <2>2. 0 \in 0..Len(s)
    BY <1>1
  <2>3. ASSUME NEW l \in DOMAIN s PROVE C[l] = Link(l, C[s[l].next])
    <3>1. l \in 0..Len(s) /\ l # 0
      BY <1>1
    <3> QED  BY <2>1, <3>1
  <2> QED  BY <2>1, <2>2, <2>3
<1> DEFINE P(l) == /\ C[l] \in Seq(DOMAIN s)
                   /\ \A x \in DOMAIN C[l] : C[l][x] <= l /\ SameSource(s, C[l][x], l)
                   /\ \A h \in DOMAIN s : h <= l /\ SameSource(s, h, l) => \E x \in DOMAIN C[l] : C[l][x] = h
           G == {n \in Nat : \A l \in DOMAIN s : l <= n => P(l)}
<1>5. 0 \in G
  <2>1. \A l \in DOMAIN s : ~(l <= 0)
    BY <1>1
  <2> HIDE DEF P
  <2> QED  BY <2>1
<1>6. ASSUME NEW l \in DOMAIN s, \A h \in DOMAIN s : h < l => P(h)
      PROVE  P(l)
  <2> DEFINE h == s[l].next
             u == C[h]
             w == C[l]
  <2>1. h \in 0..(l - 1) /\ w = Link(l, u) /\ (h # 0 => h \in DOMAIN s /\ h < l /\ SameSource(s, h, l))
    <3>1. h \in 0..(l - 1) /\ w = Link(l, u)
      BY <1>2, <1>4
    <3>2. h # 0 => h \in DOMAIN s /\ SameSource(s, h, l)
      BY DEF Traced
    <3> QED  BY <1>1, <3>1, <3>2
  <2>2. /\ u \in Seq(DOMAIN s)
        /\ \A x \in DOMAIN u : u[x] < l /\ SameSource(s, u[x], l)
        /\ \A f \in DOMAIN s : f < l /\ SameSource(s, f, l) => \E x \in DOMAIN u : u[x] = f
    <3>1. CASE h = 0
      <4>1. u = <<>>
        BY <1>4, <3>1
      <4>2. \A f \in DOMAIN s : ~(f < l /\ SameSource(s, f, l))
        <5> TAKE f \in DOMAIN s
        <5>1. f < l /\ SameSource(s, f, l) => f <= 0
          BY <3>1 DEF Traced
        <5> QED  BY <1>1, <5>1
      <4> HIDE DEF u
      <4> QED  BY <4>1, <4>2
    <3>2. CASE h # 0
      <4>1. h \in DOMAIN s /\ h < l /\ SameSource(s, h, l) /\ h \in Nat
        BY <1>1, <2>1, <3>2
      <4>2. P(h)
        BY <1>6, <4>1
      <4>3. u \in Seq(DOMAIN s)
        BY <4>2
      <4>4. ASSUME NEW x \in DOMAIN u
            PROVE  u[x] < l /\ SameSource(s, u[x], l)
        <5>1. u[x] <= h /\ SameSource(s, u[x], h) /\ u[x] \in DOMAIN s
          BY <4>2, <4>3, ElementOfSeq
        <5> QED  BY <1>1, <4>1, <5>1 DEF SameSource
      <4>5. ASSUME NEW f \in DOMAIN s, f < l, SameSource(s, f, l)
            PROVE  \E x \in DOMAIN u : u[x] = f
        <5>1. f <= h
          BY <4>5 DEF Traced
        <5>2. SameSource(s, f, h)
          BY <4>1, <4>5 DEF SameSource
        <5> QED  BY <4>2, <5>1, <5>2
      <4> QED  BY <4>3, <4>4, <4>5
    <3> QED  BY <3>1, <3>2
  <2> HIDE DEF h, u, w, P
  <2>3. /\ w \in Seq(DOMAIN s)
        /\ DOMAIN w = 1..(Len(u) + 1) /\ DOMAIN u = 1..Len(u) /\ Len(u) \in Nat
        /\ w[1] = l /\ \A x \in DOMAIN u : w[x + 1] = u[x]
    <3>1. w = <<l>> \o u
      BY <2>1 DEF Link
    <3>2. <<l>> \in Seq(DOMAIN s) /\ Len(<<l>>) = 1
      OBVIOUS
    <3> QED  BY <2>2, <3>1, <3>2, SMTT(30)
  <2>4. ASSUME NEW x \in DOMAIN w
        PROVE  w[x] <= l /\ SameSource(s, w[x], l)
    <3>1. CASE x = 1
      BY <1>1, <2>3, <3>1 DEF SameSource
    <3>2. CASE x # 1
      <4>1. x - 1 \in DOMAIN u /\ x = (x - 1) + 1
        BY <2>3, <3>2
      <4>2. w[x] = u[x - 1]
        BY <2>3, <4>1
      <4>3. u[x - 1] \in DOMAIN s
        BY <2>2, <4>1, ElementOfSeq
      <4> QED  BY <1>1, <2>2, <4>1, <4>2, <4>3
    <3> QED  BY <3>1, <3>2
  <2>5. ASSUME NEW f \in DOMAIN s, f <= l, SameSource(s, f, l)
        PROVE  \E x \in DOMAIN w : w[x] = f
    <3>1. CASE f = l
      <4>1. 1 \in DOMAIN w
        BY <2>3
      <4> QED  BY <2>3, <3>1, <4>1
    <3>2. CASE f # l
      <4>1. f < l
        BY <1>1, <2>5, <3>2
      <4>2. PICK x \in DOMAIN u : u[x] = f
        BY <2>2, <2>5, <4>1
      <4>3. x + 1 \in DOMAIN w
        BY <2>3
      <4> QED  BY <2>3, <4>2, <4>3
    <3> QED  BY <3>1, <3>2
  <2> QED  BY <2>3, <2>4, <2>5 DEF P, w
<1>7. ASSUME NEW n \in Nat, n \in G
      PROVE  n + 1 \in G
  <2> HIDE DEF P
  <2>1. ASSUME NEW l \in DOMAIN s, l <= n + 1
        PROVE  P(l)
    <3>1. \A h \in DOMAIN s : h < l => h <= n
      BY <1>1, <2>1
    <3> QED  BY <1>6, <1>7, <3>1
  <2> QED  BY <2>1
<1>8. k \in G
  <2> HIDE DEF G
  <2> QED  BY <1>1, <1>5, <1>7, SetInduction
<1>9. P(k)
  <2> HIDE DEF P
  <2>1. k <= k
    BY <1>1
  <2> QED  BY <1>8, <2>1
<1> QED  BY <1>9 DEF C

(* live yields the live slots and their chains, and nothing else. *)
LEMMA LiveIs ==
    ASSUME NEW s \in Seq(Slot), NEW S, Arena(s, S), Traced(s, S)
    PROVE  /\ live(s) \in Seq(DOMAIN s)
           /\ \A x \in DOMAIN live(s) :
                 \E k \in DOMAIN s : ~s[k].dead /\ live(s)[x] <= k /\ SameSource(s, live(s)[x], k)
           /\ \A k, l \in DOMAIN s : ~s[k].dead /\ l <= k /\ SameSource(s, l, k) =>
                 \E x \in DOMAIN live(s) : live(s)[x] = l
<1> DEFINE chain(k) == IF s[k].dead THEN <<>> ELSE Chains(s)[k]
           all == [k \in 1..Len(s) |-> chain(k)]
<1>1. Len(s) \in Nat /\ DOMAIN s = 1..Len(s)
  OBVIOUS
<1>2. live(s) = FlattenSeq(all)
  BY DEF live
<1>3. \A k \in DOMAIN s : chain(k) \in Seq(DOMAIN s)
  <2> TAKE k \in DOMAIN s
  <2>1. Chains(s)[k] \in Seq(DOMAIN s)
    BY ChainIs
  <2>2. <<>> \in Seq(DOMAIN s)
    OBVIOUS
  <2> QED  BY <2>1, <2>2
<1>4. DOMAIN all = DOMAIN s /\ \A k \in DOMAIN s : all[k] = chain(k)
  BY <1>1
<1> HIDE DEF chain
<1>5. all \in Seq(Seq(DOMAIN s))
  <2>1. all \in [1..Len(s) -> Seq(DOMAIN s)]
    BY <1>1, <1>3
  <2> HIDE DEF all
  <2> QED  BY <1>1, <2>1, SeqDef
<1> HIDE DEF all
<1> DEFINE F == FlattenSeq(all)
<1>6. F \in Seq(DOMAIN s)
  BY <1>5, FlattenIs
<1>7. PICK from \in [DOMAIN F -> DOMAIN all] :
        /\ \A x \in DOMAIN F : \E y \in DOMAIN all[from[x]] : F[x] = all[from[x]][y]
        /\ \A k \in DOMAIN all : \A y \in DOMAIN all[k] : \E x \in DOMAIN F : F[x] = all[k][y]
  BY <1>5, FlattenIs, ZenonT(60)
<1> HIDE DEF F
<1>8. ASSUME NEW x \in DOMAIN F
      PROVE  \E k \in DOMAIN s : ~s[k].dead /\ F[x] <= k /\ SameSource(s, F[x], k)
  <2>1. from[x] \in DOMAIN s
    BY <1>4, <1>7
  <2>2. PICK k \in DOMAIN s : k = from[x]
    BY <2>1
  <2>3. PICK y \in DOMAIN chain(k) : F[x] = chain(k)[y]
    BY <1>4, <1>7, <2>2
  <2>4. ~s[k].dead /\ chain(k) = Chains(s)[k]
    BY <2>3 DEF chain
  <2>5. F[x] <= k /\ SameSource(s, F[x], k)
    BY <2>3, <2>4, ChainIs
  <2> QED  BY <2>4, <2>5
<1>9. ASSUME NEW k \in DOMAIN s, NEW l \in DOMAIN s, ~s[k].dead, l <= k, SameSource(s, l, k)
      PROVE  \E x \in DOMAIN F : F[x] = l
  <2>1. chain(k) = Chains(s)[k]
    BY <1>9 DEF chain
  <2>2. PICK y \in DOMAIN chain(k) : chain(k)[y] = l
    BY <1>9, <2>1, ChainIs
  <2> QED  BY <1>4, <1>7, <2>2
<1>10. live(s) = F
  BY <1>2 DEF F
<1> QED  BY <1>6, <1>8, <1>9, <1>10

(***************************************************************************)
(* The fallbacks of a property are those the winning rule declared in an   *)
(* order that let each beat all before it: none is lost, and none is left  *)
(* from a rule that was overridden.                                        *)
(***************************************************************************)
THEOREM FallbacksAlwaysSurvive == Spec => []FallbacksSurvive
<1>1. ASSUME IInv, Traced(slots, Seen) PROVE FallbacksSurvive
  <2> SUFFICES ASSUME NEW p \in Prop
               PROVE  {slots[live(slots)[x]].decl : x \in {x \in DOMAIN live(slots) :
                              slots[live(slots)[x]].decl.prop = p}}
                      = {d \in SeenFor(p) :
                            /\ d.rule = BestOf(p).rule
                            /\ \A e \in SeenFor(p) : Earlier(e, d) => Abstract!Beats(d, e)}
    BY DEF FallbacksSurvive
  <2>1. slots \in Seq(Slot) /\ Arena(slots, Seen)
    BY <1>1 DEF IInv, TypeOK
  <2> DEFINE L == live(slots)
             c == find(slots, p)
  <2>2. /\ L \in Seq(DOMAIN slots)
        /\ \A x \in DOMAIN L : \E k \in DOMAIN slots : ~slots[k].dead /\ L[x] <= k /\ SameSource(slots, L[x], k)
        /\ \A k, l \in DOMAIN slots : ~slots[k].dead /\ l <= k /\ SameSource(slots, l, k) =>
              \E x \in DOMAIN L : L[x] = l
    BY <1>1, <2>1, LiveIs
  <2>3. /\ c # 0 => c \in DOMAIN slots /\ ~slots[c].dead /\ slots[c].decl.prop = p /\ BestOf(p) = slots[c].decl
        /\ \A k \in DOMAIN slots : ~slots[k].dead /\ slots[k].decl.prop = p => k = c
    BY <2>1, FindLive DEF BestOf
  <2>4. \A k \in DOMAIN slots : slots[k].decl \in Seen /\ k \in Nat /\ k # 0
    BY <2>1 DEF Arena
  <2>5. \A d : d \in SeenFor(p) <=> d \in Seen /\ d.prop = p
    BY DEF SeenFor
  <2>6. \A d \in Seen : d.prop = p => c # 0
    <3> TAKE d \in Seen
    <3> HAVE d.prop = p
    <3>1. PICK k \in DOMAIN slots : ~slots[k].dead /\ slots[k].decl.prop = d.prop
      BY <2>1 DEF Arena
    <3> QED  BY <2>3, <2>4, <3>1
  <2> HIDE DEF L, c
  <2>7. ASSUME NEW x \in DOMAIN L, slots[L[x]].decl.prop = p
        PROVE  /\ slots[L[x]].decl \in Seen
               /\ slots[L[x]].decl.rule = BestOf(p).rule
               /\ \A e \in SeenFor(p) : Earlier(e, slots[L[x]].decl) => Abstract!Beats(slots[L[x]].decl, e)
    <3>1. L[x] \in DOMAIN slots
      BY <2>2, ElementOfSeq
    <3>2. PICK k \in DOMAIN slots : ~slots[k].dead /\ SameSource(slots, L[x], k)
      BY <2>2
    <3>3. k = c /\ c # 0
      BY <2>3, <2>4, <2>7, <3>2 DEF SameSource
    <3>4. slots[L[x]].decl.rule = BestOf(p).rule
      BY <2>3, <3>2, <3>3 DEF SameSource
    <3> QED  BY <1>1, <2>4, <2>5, <2>7, <3>1, <3>4 DEF Traced
  <2>8. ASSUME NEW d \in Seen, d.prop = p, d.rule = BestOf(p).rule,
               \A e \in SeenFor(p) : Earlier(e, d) => Abstract!Beats(d, e)
        PROVE  \E x \in DOMAIN L : slots[L[x]].decl = d
    <3>1. PICK k \in DOMAIN slots : slots[k].decl = d
      BY <1>1, <2>5, <2>8 DEF Traced
    <3>2. c # 0 /\ c \in DOMAIN slots /\ ~slots[c].dead /\ slots[c].decl.prop = p
      BY <2>3, <2>6, <2>8
    <3>3. SameSource(slots, k, c)
      BY <2>3, <2>8, <3>1, <3>2 DEF SameSource
    <3>4. k <= c
      <4>1. ~(c < k)
        BY <2>1, <3>1, <3>2, <3>3 DEF Arena, SameSource
      <4> QED  BY <2>4, <3>2, <4>1
    <3>5. PICK x \in DOMAIN L : L[x] = k
      BY <2>2, <3>2, <3>3, <3>4
    <3> QED  BY <3>1, <3>5
  <2> DEFINE A == {slots[L[x]].decl : x \in {x \in DOMAIN L : slots[L[x]].decl.prop = p}}
             B == {d \in SeenFor(p) :
                      /\ d.rule = BestOf(p).rule
                      /\ \A e \in SeenFor(p) : Earlier(e, d) => Abstract!Beats(d, e)}
  <2>9. \A d : d \in A => d \in B
    BY <2>5, <2>7
  <2>10. \A d : d \in B => d \in A
    BY <2>5, <2>8
  <2>11. A = B
    <3> HIDE DEF A, B
    <3> QED  BY <2>9, <2>10
  <2> QED  BY <2>11 DEF L
<1> QED  BY <1>1, AlwaysTraced, PTL

-----------------------------------------------------------------------------
(* The written attribute *)

(* Numbers 1..n mapped into themselves without repetition are all reached. *)
LEMMA OntoItself ==
    ASSUME NEW n \in Nat, NEW f \in [1..n -> 1..n],
           \A a, b \in 1..n : f[a] = f[b] => a = b
    PROVE  \A r \in 1..n : \E x \in 1..n : f[x] = r
<1>1. f \in Injection(1..n, 1..n)
  BY DEF Injection, IsInjective
<1>2. IsFiniteSet(1..n)
  BY FS_Interval
<1>3. f \in Surjection(1..n, 1..n)
  BY <1>1, <1>2, FS_Injection
<1> QED  BY <1>3 DEF Surjection

(* The stable sort is a sort: it keeps every slot of the list, adds none, and
   puts no slot before a smaller one. *)
LEMMA SortIs ==
    ASSUME NEW s \in Seq(Slot), NEW idx \in Seq(DOMAIN s)
    PROVE  /\ StableSort(s, idx) \in Seq(DOMAIN s)
           /\ \A x \in DOMAIN idx : \E r \in DOMAIN StableSort(s, idx) : StableSort(s, idx)[r] = idx[x]
           /\ \A r \in DOMAIN StableSort(s, idx) : \E x \in DOMAIN idx : StableSort(s, idx)[r] = idx[x]
           /\ \A q, r \in DOMAIN StableSort(s, idx) :
                 q < r => ~KeyLess(s, StableSort(s, idx)[r], StableSort(s, idx)[q])
<1> DEFINE n == Len(idx)
           Key(x) == s[idx[x]].key
           Ord(x) == s[idx[x]].decl.ord
           Pre(y, x) == \/ KeyLess(s, idx[y], idx[x])
                        \/ ~KeyLess(s, idx[x], idx[y]) /\ y <= x
           Below(x) == {y \in DOMAIN idx : Pre(y, x)}
           t == StableSort(s, idx)
<1>1. n \in Nat /\ DOMAIN idx = 1..n
  OBVIOUS
<1>2. \A x \in 1..n : idx[x] \in DOMAIN s /\ Key(x) \in Nat /\ Ord(x) \in Nat
  <2> TAKE x \in 1..n
  <2>1. idx[x] \in DOMAIN s
    BY <1>1, ElementOfSeq
  <2>2. s[idx[x]] \in Slot
    BY <2>1, ElementOfSeq
  <2> QED  BY <2>1, <2>2 DEF Slot, FullDecl
<1>3. \A x, y : KeyLess(s, idx[y], idx[x]) <=> Key(y) < Key(x) \/ (Key(y) = Key(x) /\ Ord(y) < Ord(x))
  BY DEF KeyLess
<1>4. t = [r \in DOMAIN idx |-> idx[CHOOSE x \in DOMAIN idx : Cardinality(Below(x)) = r]]
  BY DEF StableSort
<1> HIDE DEF n, Key, Ord, t
<1>5. \A x, y \in 1..n : Pre(y, x) <=> \/ Key(y) < Key(x)
                                       \/ Key(y) = Key(x) /\ Ord(y) < Ord(x)
                                       \/ Key(y) = Key(x) /\ Ord(y) = Ord(x) /\ y <= x
  BY <1>2, <1>3, SMTT(30)
<1> HIDE DEF Pre
<1>6. /\ \A x, y \in 1..n : Pre(y, x) \/ Pre(x, y)
      /\ \A x, y \in 1..n : Pre(y, x) /\ Pre(x, y) => x = y
      /\ \A x, y, z \in 1..n : Pre(z, y) /\ Pre(y, x) => Pre(z, x)
  <2>1. \A x \in 1..n : x \in Nat /\ Key(x) \in Nat /\ Ord(x) \in Nat
    BY <1>1, <1>2
  <2>2. ASSUME NEW x \in 1..n, NEW y \in 1..n
        PROVE  (Pre(y, x) \/ Pre(x, y)) /\ (Pre(y, x) /\ Pre(x, y) => x = y)
    BY <1>5, <2>1
  <2>3. ASSUME NEW x \in 1..n, NEW y \in 1..n, NEW z \in 1..n, Pre(z, y), Pre(y, x)
        PROVE  Pre(z, x)
    BY <1>5, <2>1, <2>3
  <2> QED  BY <2>2, <2>3
<1>7. \A x : Below(x) \in SUBSET (1..n)
  BY <1>1
<1>8. \A x, y \in 1..n : y \in Below(x) <=> Pre(y, x)
  BY <1>1
<1> HIDE DEF Below
<1>9. IsFiniteSet(1..n) /\ Cardinality(1..n) = n
  BY <1>1, FS_Interval
<1>10. \A x : IsFiniteSet(Below(x)) /\ Cardinality(Below(x)) \in Nat /\ Cardinality(Below(x)) <= n
  BY <1>7, <1>9, FS_Subset, FS_CardinalityType
<1>11. \A x \in 1..n : Cardinality(Below(x)) \in 1..n
  <2> TAKE x \in 1..n
  <2>1. x \in Below(x)
    BY <1>6, <1>8
  <2>2. Cardinality(Below(x)) # 0
    BY <1>10, <2>1, FS_EmptySet
  <2> QED  BY <1>1, <1>10, <2>2
<1>12. ASSUME NEW x \in 1..n, NEW y \in 1..n, x # y, Pre(y, x)
       PROVE  Cardinality(Below(y)) < Cardinality(Below(x))
  <2>1. Below(y) \in SUBSET Below(x)
    <3>1. \A z \in 1..n : z \in Below(y) => z \in Below(x)
      BY <1>6, <1>8, <1>12
    <3> QED  BY <1>7, <3>1
  <2>2. x \in Below(x) /\ x \notin Below(y)
    BY <1>6, <1>8, <1>12
  <2>3. Cardinality(Below(y)) <= Cardinality(Below(x)) /\ Cardinality(Below(x)) # Cardinality(Below(y))
    BY <1>10, <2>1, <2>2, FS_Subset
  <2> QED  BY <1>10, <2>3
<1> DEFINE rank == [x \in 1..n |-> Cardinality(Below(x))]
           at(r) == CHOOSE x \in DOMAIN idx : Cardinality(Below(x)) = r
<1>13. \A a, b \in 1..n : rank[a] = rank[b] => a = b
  BY <1>6, <1>10, <1>12
<1>14. \A r \in 1..n : \E x \in 1..n : rank[x] = r
  <2>1. rank \in [1..n -> 1..n]
    BY <1>11
  <2> HIDE DEF rank
  <2> QED  BY <1>1, <1>13, <2>1, OntoItself
<1>15. \A r \in 1..n : at(r) \in 1..n /\ rank[at(r)] = r
  BY <1>1, <1>14
<1>16. DOMAIN t = 1..n /\ \A r \in 1..n : t[r] = idx[at(r)]
  BY <1>1, <1>4
<1>17. \A x \in 1..n : rank[x] \in 1..n /\ at(rank[x]) = x
  BY <1>11, <1>13, <1>15
<1>18. \A a, b \in 1..n : a # b /\ Pre(b, a) => rank[b] < rank[a]
  BY <1>12
<1> HIDE DEF rank, at
<1>19. t \in Seq(DOMAIN s)
  <2>1. \A r \in 1..n : t[r] \in DOMAIN s
    BY <1>2, <1>15, <1>16
  <2>2. t \in [1..n -> DOMAIN s]
    <3>1. t = [r \in DOMAIN t |-> t[r]]
      BY <1>4
    <3> QED  BY <1>16, <2>1, <3>1
  <2> QED  BY <1>1, <2>2, SeqDef
<1>20. ASSUME NEW q \in 1..n, NEW r \in 1..n, q < r
       PROVE  ~KeyLess(s, t[r], t[q])
  <2>1. at(q) # at(r) /\ rank[at(q)] < rank[at(r)]
    BY <1>1, <1>15, <1>20
  <2>2. ASSUME Pre(at(r), at(q)) PROVE FALSE
    <3>1. rank[at(r)] < rank[at(q)]
      BY <1>15, <1>18, <1>20, <2>1, <2>2
    <3>2. r < q
      BY <1>15, <1>20, <3>1
    <3> QED  BY <1>1, <1>20, <3>2
  <2>3. ~KeyLess(s, idx[at(r)], idx[at(q)])
    BY <2>2 DEF Pre
  <2> QED  BY <1>16, <2>3
<1>21. \A x \in DOMAIN idx : \E r \in DOMAIN t : t[r] = idx[x]
  BY <1>1, <1>16, <1>17
<1>22. \A r \in DOMAIN t : \E x \in DOMAIN idx : t[r] = idx[x]
  BY <1>1, <1>15, <1>16
<1> QED  BY <1>16, <1>19, <1>20, <1>21, <1>22 DEF t

(* The slots styleAttr writes, in the order of the attribute. *)
Unfiltered(s, order) == [x \in DOMAIN order |-> IF Filtered(s[order[x]].decl) THEN <<>> ELSE <<order[x]>>]

Kept(s) == FlattenSeq(Unfiltered(s, StableSort(s, live(s))))

(* kept holds the slots of order that may be written, in the same order. *)
Selects(s, order, kept) ==
    /\ kept \in Seq(DOMAIN s)
    /\ \E from \in [DOMAIN kept -> DOMAIN order] :
          /\ \A x \in DOMAIN kept : kept[x] = order[from[x]] /\ ~Filtered(s[kept[x]].decl)
          /\ \A x, y \in DOMAIN kept : x < y => from[x] <= from[y]
    /\ \A x \in DOMAIN order : ~Filtered(s[order[x]].decl) =>
          \E y \in DOMAIN kept : kept[y] = order[x]

(* Filtering a list of slots drops those that must not be written, and leaves
   the others in their order. *)
LEMMA FilterIs ==
    ASSUME NEW s \in Seq(Slot), NEW order \in Seq(DOMAIN s)
    PROVE  Selects(s, order, FlattenSeq(Unfiltered(s, order)))
<1> DEFINE all == Unfiltered(s, order)
           F == FlattenSeq(all)
           part(x) == IF Filtered(s[order[x]].decl) THEN <<>> ELSE <<order[x]>>
<1>1. Len(order) \in Nat /\ DOMAIN order = 1..Len(order)
  OBVIOUS
<1>2. all = [x \in DOMAIN order |-> part(x)]
  BY DEF Unfiltered
<1>3. DOMAIN all = DOMAIN order /\ \A x \in DOMAIN order : all[x] = part(x)
  BY <1>2
<1>4. \A x \in DOMAIN order : part(x) \in Seq(DOMAIN s)
  <2> TAKE x \in DOMAIN order
  <2>1. order[x] \in DOMAIN s
    BY ElementOfSeq
  <2>2. <<>> \in Seq(DOMAIN s) /\ <<order[x]>> \in Seq(DOMAIN s)
    BY <2>1
  <2> QED  BY <2>2
<1>5. \A x \in DOMAIN order : \A y \in DOMAIN part(x) :
          ~Filtered(s[order[x]].decl) /\ part(x)[y] = order[x]
  <2> TAKE x \in DOMAIN order
  <2>1. CASE Filtered(s[order[x]].decl)
    BY <2>1
  <2>2. CASE ~Filtered(s[order[x]].decl)
    <3>1. part(x) = <<order[x]>>
      BY <2>2
    <3> HIDE DEF part
    <3> QED  BY <2>2, <3>1
  <2> QED  BY <2>1, <2>2
<1>6. \A x \in DOMAIN order : ~Filtered(s[order[x]].decl) =>
          1 \in DOMAIN part(x) /\ part(x)[1] = order[x]
  OBVIOUS
<1> HIDE DEF part
<1>7. all \in Seq(Seq(DOMAIN s))
  <2>1. all \in [1..Len(order) -> Seq(DOMAIN s)]
    BY <1>1, <1>2, <1>4
  <2> HIDE DEF all
  <2> QED  BY <1>1, <2>1, SeqDef, SMTT(30)
<1>13. F = FlattenSeq(Unfiltered(s, order))
  OBVIOUS
<1> HIDE DEF all
<1>8. F \in Seq(DOMAIN s)
  BY <1>7, FlattenIs
<1>9. PICK from \in [DOMAIN F -> DOMAIN all] :
        /\ \A x \in DOMAIN F : \E y \in DOMAIN all[from[x]] : F[x] = all[from[x]][y]
        /\ \A x, y \in DOMAIN F : x < y => from[x] <= from[y]
        /\ \A x \in DOMAIN all : \A y \in DOMAIN all[x] : \E z \in DOMAIN F : F[z] = all[x][y]
  BY <1>7, FlattenIs, Zenon
<1> HIDE DEF F
<1>10. ASSUME NEW x \in DOMAIN F
       PROVE  F[x] = order[from[x]] /\ ~Filtered(s[F[x]].decl)
  <2>1. from[x] \in DOMAIN order
    BY <1>3, <1>9
  <2>2. PICK y \in DOMAIN part(from[x]) : F[x] = part(from[x])[y]
    BY <1>3, <1>9, <2>1
  <2> QED  BY <1>5, <2>1, <2>2
<1>11. \A x \in DOMAIN order : ~Filtered(s[order[x]].decl) =>
          \E y \in DOMAIN F : F[y] = order[x]
  BY <1>3, <1>6, <1>9
<1>12. from \in [DOMAIN F -> DOMAIN order]
  BY <1>3, <1>9
<1> QED  BY <1>8, <1>9, <1>10, <1>11, <1>12, <1>13 DEF Selects

(* What the attribute holds, and in which order. *)
LEMMA KeptIs ==
    ASSUME NEW s \in Seq(Slot), NEW S, Arena(s, S), Traced(s, S)
    PROVE  /\ Kept(s) \in Seq(DOMAIN s)
           /\ \A x \in DOMAIN Kept(s) :
                 /\ ~Filtered(s[Kept(s)[x]].decl)
                 /\ \E k \in DOMAIN s : ~s[k].dead /\ SameSource(s, Kept(s)[x], k)
           /\ \A k \in DOMAIN s : ~s[k].dead /\ ~Filtered(s[k].decl) =>
                 \E x \in DOMAIN Kept(s) : Kept(s)[x] = k
           /\ \A x, y \in DOMAIN Kept(s) : x < y => ~KeyLess(s, Kept(s)[y], Kept(s)[x])
<1> DEFINE L == live(s)
           order == StableSort(s, L)
           kept == Kept(s)
<1>1. /\ L \in Seq(DOMAIN s)
      /\ \A x \in DOMAIN L : \E k \in DOMAIN s : ~s[k].dead /\ L[x] <= k /\ SameSource(s, L[x], k)
      /\ \A k, l \in DOMAIN s : ~s[k].dead /\ l <= k /\ SameSource(s, l, k) =>
            \E x \in DOMAIN L : L[x] = l
  BY LiveIs
<1> HIDE DEF L
<1>2. /\ order \in Seq(DOMAIN s)
      /\ \A x \in DOMAIN L : \E r \in DOMAIN order : order[r] = L[x]
      /\ \A r \in DOMAIN order : \E x \in DOMAIN L : order[r] = L[x]
      /\ \A q, r \in DOMAIN order : q < r => ~KeyLess(s, order[r], order[q])
  BY <1>1, SortIs
<1>3. kept = FlattenSeq(Unfiltered(s, order))
  BY DEF Kept, L
<1> HIDE DEF order, kept
<1>9. order \in Seq(DOMAIN s)
  BY <1>2
<1>10. Selects(s, order, kept)
  BY <1>3, <1>9, FilterIs
<1>4. /\ kept \in Seq(DOMAIN s)
      /\ \A x \in DOMAIN order : ~Filtered(s[order[x]].decl) =>
            \E y \in DOMAIN kept : kept[y] = order[x]
  BY <1>10 DEF Selects
<1>5. PICK from \in [DOMAIN kept -> DOMAIN order] :
         /\ \A x \in DOMAIN kept : kept[x] = order[from[x]] /\ ~Filtered(s[kept[x]].decl)
         /\ \A x, y \in DOMAIN kept : x < y => from[x] <= from[y]
  BY <1>10 DEF Selects
<1>6. ASSUME NEW x \in DOMAIN kept
      PROVE  \E k \in DOMAIN s : ~s[k].dead /\ SameSource(s, kept[x], k)
  <2>1. PICK z \in DOMAIN L : kept[x] = L[z]
    BY <1>2, <1>5
  <2> QED  BY <1>1, <2>1
<1>7. ASSUME NEW k \in DOMAIN s, ~s[k].dead, ~Filtered(s[k].decl)
      PROVE  \E x \in DOMAIN kept : kept[x] = k
  <2>1. k <= k /\ SameSource(s, k, k)
    BY DEF SameSource
  <2>2. PICK x \in DOMAIN L : L[x] = k
    BY <1>1, <1>7, <2>1
  <2>3. PICK r \in DOMAIN order : order[r] = k
    BY <1>2, <2>2
  <2> QED  BY <1>4, <1>7, <2>3
<1>8. ASSUME NEW x \in DOMAIN kept, NEW y \in DOMAIN kept, x < y
      PROVE  ~KeyLess(s, kept[y], kept[x])
  <2>1. kept[x] = order[from[x]] /\ kept[y] = order[from[y]] /\ from[x] <= from[y]
    BY <1>5, <1>8
  <2>2. from[x] \in Nat /\ from[y] \in Nat
    BY <1>2
  <2>3. CASE from[x] < from[y]
    BY <1>2, <2>1, <2>3
  <2>4. CASE from[x] = from[y]
    <3>1. kept[x] = kept[y] /\ kept[x] \in DOMAIN s
      BY <1>4, <2>1, <2>4, ElementOfSeq
    <3>2. s[kept[x]] \in Slot
      BY <3>1, ElementOfSeq
    <3>3. s[kept[x]].key \in Nat /\ s[kept[x]].decl.ord \in Nat
      BY <3>2 DEF Slot, FullDecl
    <3> QED  BY <3>1, <3>3 DEF KeyLess
  <2> QED  BY <2>1, <2>2, <2>3, <2>4
<1> QED  BY <1>4, <1>5, <1>6, <1>7, <1>8 DEF kept

(* The style attribute of the source. *)
Original == [k \in DOMAIN style |-> [decl |-> StyleDecl(style, k), suffix |-> style[k].important]]

(* The attribute is that of the source until the end, and at the end what
   styleAttr makes of the slots, if it makes anything. *)
Written ==
    attr = IF phase = "done" /\ visited /\ styleAttr(slots) # <<>>
           THEN styleAttr(slots) ELSE Original

(* The attribute always is what it should be. *)
THEOREM AlwaysWritten == Spec => []Written
<1>1. Init => Written
  BY DEF Init, Written, Original
<1>2. Written /\ [Next]_vars => Written'
  <2> SUFFICES ASSUME Written, [Next]_vars PROVE Written'
    OBVIOUS
  <2>1. CASE WriteStyle
    BY <2>1 DEF WriteStyle, Written, Original
  <2>2. CASE SkipRule \/ FirstMatch \/ SeedDecl \/ SeedDone \/ LaterMatch \/ PseudoRule
                 \/ AddDecl \/ RuleDone
    <3>1. phase # "done" /\ phase' # "done" /\ attr' = attr /\ style' = style
      BY <2>2 DEF SkipRule, FirstMatch, SeedDecl, SeedDone, LaterMatch, PseudoRule, AddDecl, RuleDone
    <3> QED  BY <3>1 DEF Written, Original
  <2>3. CASE UNCHANGED vars
    BY <2>3 DEF vars, Written, Original
  <2> QED  BY <2>1, <2>2, <2>3 DEF Next, Done
<1> QED  BY <1>1, <1>2, PTL DEF Spec

(* The last of a nonempty set of positions is one of them, and the greatest. *)
LEMMA LastInIs ==
    ASSUME NEW n \in Nat, NEW T \in SUBSET (1..n), T # {}
    PROVE  LastIn(T) \in T /\ \A y \in T : y <= LastIn(T)
<1> DEFINE f == [x \in 1..n |-> IF x \in T THEN x ELSE 0]
<1>1. n > 0 /\ \A x \in 1..n : f[x] \in Int
  <2>1. PICK x \in T : x \in 1..n
    OBVIOUS
  <2> QED  BY <2>1
<1>2. \A x \in T : x \in 1..n /\ f[x] = x /\ x > 0
  OBVIOUS
<1>3. \A x \in 1..n : f[x] > 0 => x \in T
  OBVIOUS
<1> HIDE DEF f
<1>4. PICK r \in 1..n : \A x \in 1..n : /\ x < r => f[r] > f[x]
                                        /\ x > r => f[x] <= f[r]
  BY <1>1, FirstMaximum
<1>5. \A x \in 1..n : f[x] <= f[r]
  <2> TAKE x \in 1..n
  <2>1. x < r \/ x = r \/ x > r
    OBVIOUS
  <2> QED  BY <1>1, <1>4, <2>1
<1>6. r \in T
  <2>1. PICK x \in T : TRUE
    OBVIOUS
  <2>2. f[r] > 0
    BY <1>1, <1>2, <1>5, <2>1
  <2> QED  BY <1>3, <2>2
<1>7. \A y \in T : y <= r
  BY <1>2, <1>5, <1>6
<1> QED  BY <1>6, <1>7 DEF LastIn

(* What was read from the style attribute is inline, and nothing else is. *)
LEMMA InlineIsRuleZero ==
    ASSUME TypeOK, NEW e \in Seen
    PROVE  e.inline <=> e.rule = 0
<1>1. CASE e \in SeenStyle
  BY <1>1 DEF SeenStyle, StyleDecl
<1>2. CASE e \in SeenRules
  <2>1. PICK r \in DOMAIN rules : \E k \in DOMAIN rules[r].decls : e = RuleDecl(rules, r, k)
    BY <1>2 DEF SeenRules
  <2>2. r # 0
    BY DEF TypeOK
  <2> QED  BY <2>1, <2>2 DEF RuleDecl
<1> QED  BY <1>1, <1>2 DEF Seen

(* Nothing that was offered and may be written is lost: its property is in the
   attribute with a live declaration it does not beat. *)
LEMMA OfferedIsWritten ==
    ASSUME IInv, Traced(slots, Seen), Written, phase = "done",
           NEW d \in Seen, ~Filtered(d)
    PROVE  /\ visited /\ attr = styleAttr(slots)
           /\ \E x \in DOMAIN Kept(slots) : /\ ~slots[Kept(slots)[x]].dead
                                            /\ slots[Kept(slots)[x]].decl.prop = d.prop
                                            /\ ~Abstract!Beats(d, slots[Kept(slots)[x]].decl)
<1>1. slots \in Seq(Slot) /\ Arena(slots, Seen)
  BY DEF IInv, TypeOK
<1>2. PICK k \in DOMAIN slots : ~slots[k].dead /\ slots[k].decl.prop = d.prop
                                /\ ~Abstract!Beats(d, slots[k].decl)
  BY <1>1 DEF Arena
<1>3. ~Filtered(slots[k].decl)
  BY <1>2 DEF Filtered
<1>4. PICK x \in DOMAIN Kept(slots) : Kept(slots)[x] = k
  BY <1>1, <1>2, <1>3, KeptIs
<1>5. visited
  <2>1. DOMAIN slots # {}
    BY <1>2
  <2> QED  BY <2>1 DEF IInv, Loops
<1>6. styleAttr(slots) # <<>>
  <2>1. DOMAIN styleAttr(slots) = DOMAIN Kept(slots)
    BY DEF styleAttr, Kept, Unfiltered
  <2> QED  BY <1>4, <2>1
<1> QED  BY <1>2, <1>4, <1>5, <1>6 DEF Written

(* The attribute that styleAttr writes, position by position. *)
LEMMA StyleAttrIs ==
    ASSUME IInv, Traced(slots, Seen), attr = styleAttr(slots)
    PROVE  /\ DOMAIN attr = DOMAIN Kept(slots)
           /\ \A x \in DOMAIN attr : /\ Kept(slots)[x] \in DOMAIN slots
                                     /\ attr[x].decl = slots[Kept(slots)[x]].decl
                                     /\ attr[x].decl \in Seen /\ attr[x].decl \in FullDecl
                                     /\ attr[x].suffix = HasSuffix(attr[x].decl)
                                     /\ ~Filtered(attr[x].decl)
           /\ \A x, y \in DOMAIN attr : x < y => ~Abstract!Beats(attr[x].decl, attr[y].decl)
<1> DEFINE K == Kept(slots)
<1>1. slots \in Seq(Slot) /\ Arena(slots, Seen) /\ Seen \in SUBSET FullDecl
  BY SeenIsOffered DEF IInv, TypeOK
<1>2. K \in Seq(DOMAIN slots)
  BY <1>1, KeptIs
<1>3. attr = [x \in DOMAIN K |-> [decl |-> slots[K[x]].decl, suffix |-> HasSuffix(slots[K[x]].decl)]]
  BY DEF styleAttr, Kept, Unfiltered
<1>4. DOMAIN attr = DOMAIN K
  BY <1>3
<1>5. \A x \in DOMAIN attr : attr[x].decl = slots[K[x]].decl /\ attr[x].suffix = HasSuffix(slots[K[x]].decl)
  BY <1>3
<1>6. \A x \in DOMAIN attr : ~Filtered(slots[K[x]].decl)
  BY <1>1, <1>4, KeptIs
<1>7. \A x, y \in DOMAIN attr : x < y => ~KeyLess(slots, K[y], K[x])
  BY <1>1, <1>4, KeptIs
<1> HIDE DEF K
<1>8. \A x \in DOMAIN attr : K[x] \in DOMAIN slots
  BY <1>2, <1>4, ElementOfSeq
<1>9. \A x \in DOMAIN attr : /\ attr[x].decl \in Seen /\ attr[x].decl \in FullDecl
                             /\ slots[K[x]].key = KeyOf(attr[x].decl)
  BY <1>1, <1>5, <1>8 DEF Arena
<1>10. ASSUME NEW x \in DOMAIN attr, NEW y \in DOMAIN attr, x < y
       PROVE  ~Abstract!Beats(attr[x].decl, attr[y].decl)
  <2>1. ~KeyLess(slots, K[y], K[x])
    BY <1>7, <1>10
  <2>2. KeyOf(attr[x].decl) \in Nat /\ KeyOf(attr[y].decl) \in Nat
        /\ attr[x].decl.ord \in Nat /\ attr[y].decl.ord \in Nat
    BY <1>9, BeatsIsKeyOrder DEF FullDecl
  <2>3. ~(\/ KeyOf(attr[x].decl) > KeyOf(attr[y].decl)
          \/ KeyOf(attr[x].decl) = KeyOf(attr[y].decl) /\ attr[x].decl.ord > attr[y].decl.ord)
    BY <1>5, <1>9, <2>1, <2>2 DEF KeyLess
  <2> QED  BY <1>9, <2>3, BeatsIsKeyOrder
<1> QED  BY <1>4, <1>5, <1>6, <1>8, <1>9, <1>10 DEF K

(* A client reading the finished attribute picks the winner of the cascade for
   one property; and for two, if no !important is left in the attribute. *)
LEMMA WrittenMeans ==
    ASSUME IInv, Traced(slots, Seen), Written, phase = "done",
           NEW p \in Prop, NEW q \in Prop, ~PreserveImportant \/ p = q
    PROVE  MeansCascade(p, q)
<1> DEFINE offered == {d \in Seen : d.prop \in {p, q} /\ ~Filtered(d)}
           about == {x \in DOMAIN attr : attr[x].decl.prop \in {p, q}}
           loud == {x \in about : attr[x].suffix}
           T == IF loud # {} THEN loud ELSE about
           K == Kept(slots)
<1> SUFFICES ASSUME NEW o \in offered
             PROVE  /\ \E x \in DOMAIN attr : attr[x].decl.prop \in {p, q}
                    /\ ReaderPicks({p, q}) \in offered
                    /\ \A d \in offered : ~Abstract!Beats(d, ReaderPicks({p, q}))
  BY DEF MeansCascade
<1>1. slots \in Seq(Slot) /\ Arena(slots, Seen) /\ Seen \in SUBSET FullDecl
  BY SeenIsOffered DEF IInv, TypeOK
<1>2. o \in Seen /\ ~Filtered(o)
  OBVIOUS
<1>3. visited /\ attr = styleAttr(slots)
  BY <1>2, OfferedIsWritten
<1>4. /\ DOMAIN attr = DOMAIN K
      /\ \A x \in DOMAIN attr : /\ K[x] \in DOMAIN slots
                                /\ attr[x].decl = slots[K[x]].decl
                                /\ attr[x].decl \in Seen /\ attr[x].decl \in FullDecl
                                /\ attr[x].suffix = HasSuffix(attr[x].decl)
                                /\ ~Filtered(attr[x].decl)
      /\ \A x, y \in DOMAIN attr : x < y => ~Abstract!Beats(attr[x].decl, attr[y].decl)
  BY <1>3, StyleAttrIs
<1>5. ASSUME NEW d \in offered
      PROVE  \E x \in about : /\ ~slots[K[x]].dead
                              /\ attr[x].decl.prop = d.prop
                              /\ ~Abstract!Beats(d, attr[x].decl)
  <2>1. PICK x \in DOMAIN K : /\ ~slots[K[x]].dead
                              /\ slots[K[x]].decl.prop = d.prop
                              /\ ~Abstract!Beats(d, slots[K[x]].decl)
    BY <1>5, OfferedIsWritten
  <2> QED  BY <1>4, <1>5, <2>1
<1>6. \A x \in about : attr[x].decl \in offered
  BY <1>4
<1>7. T \in SUBSET about /\ T # {}
  BY <1>5
<1>8. LastIn(T) \in T /\ \A y \in T : y <= LastIn(T)
  <2>1. DOMAIN attr = 1..Len(K) /\ Len(K) \in Nat
    BY <1>1, <1>4, KeptIs
  <2>2. T \in SUBSET (1..Len(K))
    BY <1>7, <2>1
  <2> HIDE DEF T, K
  <2> QED  BY <1>7, <2>1, <2>2, LastInIs
<1>9. ASSUME NEW d \in offered
      PROVE  \E y \in T : ~Abstract!Beats(d, attr[y].decl)
  <2>1. PICK x \in about : ~slots[K[x]].dead /\ attr[x].decl.prop = d.prop
                           /\ ~Abstract!Beats(d, attr[x].decl)
    BY <1>5
  <2>2. CASE loud = {}
    BY <2>1, <2>2
  <2>3. CASE loud # {}
    <3>1. PICK y \in loud : TRUE
      BY <2>3
    <3>2. attr[y].decl.important /\ ~attr[y].decl.inline /\ PreserveImportant
          /\ attr[y].decl.prop \notin CustomProp
      BY <1>4, <3>1 DEF HasSuffix
    <3>3. attr[y].decl.prop = attr[x].decl.prop
      BY <3>1, <3>2
    <3>4. \A k \in DOMAIN slots : ~slots[k].dead /\ slots[k].decl.prop = attr[x].decl.prop => k = K[x]
      <4>1. K[x] \in DOMAIN slots /\ slots[K[x]].decl.prop = attr[x].decl.prop
        BY <1>4, <2>1
      <4> HIDE DEF K
      <4> QED  BY <1>1, <2>1, <4>1, FindLive, ZenonT(60)
    <3>5. ~Abstract!Beats(attr[y].decl, attr[x].decl)
      <4>1. PICK k \in DOMAIN slots : ~slots[k].dead /\ slots[k].decl.prop = attr[y].decl.prop
                                      /\ ~Abstract!Beats(attr[y].decl, slots[k].decl)
        BY <1>1, <1>4, <3>1 DEF Arena
      <4> QED  BY <1>4, <3>3, <3>4, <4>1
    <3>6. attr[y].decl.rule = attr[x].decl.rule
      <4>1. PICK k \in DOMAIN slots : ~slots[k].dead /\ SameSource(slots, K[y], k)
        BY <1>1, <1>4, <3>1, KeptIs
      <4> QED  BY <1>4, <3>1, <3>3, <3>4, <4>1 DEF SameSource
    <3>7. ~attr[x].decl.inline
      BY <1>4, <3>1, <3>2, <3>6, InlineIsRuleZero DEF IInv
    <3>8. attr[x].decl.important
      <4>1. ~(Abstract!Layer(attr[y].decl) > Abstract!Layer(attr[x].decl))
        BY <3>5 DEF Abstract!Beats
      <4> QED  BY <3>2, <3>7, <4>1 DEF Abstract!Layer
    <3>9. x \in loud
      BY <1>4, <3>2, <3>3, <3>7, <3>8 DEF HasSuffix
    <3> QED  BY <2>1, <2>3, <3>9
  <2> QED  BY <2>2, <2>3
<1>10. ReaderPicks({p, q}) = attr[LastIn(T)].decl
  BY DEF ReaderPicks
<1>11. LastIn(T) \in about
  BY <1>7, <1>8
<1>12. ASSUME NEW d \in offered
       PROVE  ~Abstract!Beats(d, attr[LastIn(T)].decl)
  <2>1. PICK y \in T : ~Abstract!Beats(d, attr[y].decl)
    BY <1>9
  <2>2. y \in DOMAIN attr /\ LastIn(T) \in DOMAIN attr /\ y <= LastIn(T)
    BY <1>7, <1>8, <1>11, <2>1
  <2>3. DOMAIN attr \subseteq Nat
    BY <1>1, <1>4, KeptIs
  <2>4. CASE y = LastIn(T)
    BY <2>1, <2>4
  <2>5. CASE y # LastIn(T)
    <3>1. ~Abstract!Beats(attr[y].decl, attr[LastIn(T)].decl)
      <4> DEFINE z == LastIn(T)
      <4>1. y \in DOMAIN attr /\ z \in DOMAIN attr /\ y < z
        BY <2>2, <2>3, <2>5
      <4> HIDE DEF z
      <4>2. ~Abstract!Beats(attr[y].decl, attr[z].decl)
        BY <1>4, <4>1, ZenonT(30)
      <4> QED  BY <4>2 DEF z
    <3>2. d \in FullDecl /\ attr[y].decl \in FullDecl /\ attr[LastIn(T)].decl \in FullDecl
      BY <1>1, <1>4, <2>2
    <3> QED  BY <2>1, <3>1, <3>2, BeatsOver
  <2> QED  BY <2>4, <2>5
<1> QED  BY <1>6, <1>10, <1>11, <1>12

(***************************************************************************)
(* Without PreserveImportant the attribute means what the stylesheet       *)
(* meant, also for properties that overlap: whatever number of rules and   *)
(* declarations met the element, a client reading the attribute picks the  *)
(* winner of the cascade.                                                  *)
(***************************************************************************)
THEOREM AttributeMeansCascade ==
    ASSUME ~PreserveImportant
    PROVE  Spec => []InlineMeansCascade
<1>1. ASSUME IInv, Traced(slots, Seen), Written PROVE InlineMeansCascade
  BY <1>1, WrittenMeans DEF InlineMeansCascade
<1>2. IInv /\ Traced(slots, Seen) /\ Written => InlineMeansCascade
  BY <1>1
<1> QED  BY <1>2, AlwaysTraced, AlwaysWritten, PTL

(***************************************************************************)
(* With PreserveImportant, the same still holds of every property by       *)
(* itself, though !important is then back in the attribute for some of the *)
(* declarations and not for others.                                        *)
(***************************************************************************)
THEOREM EachPropertyMeansCascade ==
    Spec => [](phase = "done" => \A p \in Prop : MeansCascade(p, p))
<1>1. ASSUME IInv, Traced(slots, Seen), Written, phase = "done", NEW p \in Prop
      PROVE  MeansCascade(p, p)
  BY <1>1, WrittenMeans
<1>2. IInv /\ Traced(slots, Seen) /\ Written => (phase = "done" => \A p \in Prop : MeansCascade(p, p))
  BY <1>1
<1> QED  BY <1>2, AlwaysTraced, AlwaysWritten, PTL

(***************************************************************************)
(* With ResolveCSSVariables, an attribute holds a custom property only if  *)
(* nothing but custom properties and content was offered for the element,  *)
(* and then it is the attribute of the source.                             *)
(***************************************************************************)
THEOREM CustomAlwaysAlone == Spec => []CustomStaysOnlyAlone
<1>1. ASSUME IInv, Traced(slots, Seen), Written PROVE CustomStaysOnlyAlone
  <2> SUFFICES ASSUME phase = "done", visited, ResolveCSSVariables
               PROVE  \/ \A x \in DOMAIN attr : attr[x].decl.prop \notin CustomProp
                      \/ /\ \A d \in Seen : d.prop \in CustomProp \union {Content}
                         /\ [x \in DOMAIN attr |-> attr[x].decl]
                               = [k \in DOMAIN style |-> StyleDecl(style, k)]
    BY DEF CustomStaysOnlyAlone
  <2>1. CASE attr = styleAttr(slots)
    BY <1>1, <2>1, StyleAttrIs DEF Filtered
  <2>2. CASE attr # styleAttr(slots)
    <3>1. attr = Original
      BY <1>1, <2>2 DEF Written
    <3>2. \A d \in Seen : Filtered(d)
      BY <1>1, <2>2, OfferedIsWritten
    <3>3. \A d \in Seen : d.prop \in CustomProp \union {Content}
      BY <3>2 DEF Filtered
    <3>4. [x \in DOMAIN attr |-> attr[x].decl] = [k \in DOMAIN style |-> StyleDecl(style, k)]
      BY <3>1 DEF Original
    <3> QED  BY <3>3, <3>4
  <2> QED  BY <2>1, <2>2
<1>2. IInv /\ Traced(slots, Seen) /\ Written => CustomStaysOnlyAlone
  BY <1>1
<1> QED  BY <1>2, AlwaysTraced, AlwaysWritten, PTL

=============================================================================
