-------------------------- MODULE VariablesProofs --------------------------
(***************************************************************************)
(* Theorems about module Variables: the activations of substitute stay     *)
(* within the cap and the text, splicing in place computes the expansion   *)
(* of every value, and leaves no reference that the cap allows to resolve. *)
(*                                                                         *)
(* A text that is being rewritten always stands for the same expansion:    *)
(* what is behind the scan is final, and what is before it expands to the  *)
(* rest. That is the invariant, of every activation at once.               *)
(***************************************************************************)
EXTENDS Variables, InductionLemmas

-----------------------------------------------------------------------------
(* The operators of the model with the state they read as parameters, so that
   they can be spoken of across a step. *)

LineIn(tree, n) ==
    LET up[k \in 0..n] == IF k = 0 THEN {} ELSE {k} \union up[tree[k]] IN up[n]

HoldersIn(tree, m, n, name) == {e \in LineIn(tree, n) : e \in DOMAIN m /\ Live(m[e], name) # {}}

NearestIn(tree, m, n, name) ==
    {e \in HoldersIn(tree, m, n, name) : \A f \in HoldersIn(tree, m, n, name) : f <= e}

LookupIn(tree, m, n, name) ==
    UNION {{m[e][k].value : k \in Live(m[e], name)} : e \in NearestIn(tree, m, n, name)}

ReferentIn(tree, m, n, ref) ==
    IF LookupIn(tree, m, n, ref.name) # {} THEN LookupIn(tree, m, n, ref.name)
    ELSE {ref.fallback} \ {NoFallback}

DeclaredIn(dec) == UNION {{dec[n][x].value : x \in DOMAIN dec[n]} : n \in DOMAIN dec}

TextsOf(dec) == Fallbacks \union DeclaredIn(dec)

Parts(tree, dec, deeper, n, v) ==
    [x \in DOMAIN v |->
        IF \/ \E y \in 1..x : Stuck(v[y])
           \/ ~Usable(v[x]) \/ ReferentIn(tree, dec, n, v[x]) = {}
        THEN <<v[x]>>
        ELSE deeper[CHOOSE w \in ReferentIn(tree, dec, n, v[x]) : TRUE]]

ExpandedIn(tree, dec, deeper, n, v) == FlattenSeq(Parts(tree, dec, deeper, n, v))

LevelsUpTo(tree, dec, n, m, f) ==
    f = [k \in 0..m |-> [v \in TextsOf(dec) |->
            IF k = 0 THEN v ELSE ExpandedIn(tree, dec, f[k - 1], n, v)]]

(* The expansions on an element, one function for every distance to the cap. *)
Levels(tree, dec, n) == CHOOSE f : LevelsUpTo(tree, dec, n, maxVarDepth + 1, f)

(* They are the operators of the model. *)
LEMMA ReadsState ==
    /\ \A m, n, ref : Referent(m, n, ref) = ReferentIn(parent, m, n, ref)
    /\ \A deeper, n, v : Expanded(deeper, n, v) = ExpandedIn(parent, declared, deeper, n, v)
    /\ \A n : Expansion(n) = Levels(parent, declared, n)[maxVarDepth + 1]
<1>1. \A n : Line(n) = LineIn(parent, n)
  BY Zenon DEF Line, LineIn
<1>2. \A m, n, name : Holders(m, n, name) = HoldersIn(parent, m, n, name)
  BY <1>1 DEF Holders, HoldersIn
<1>3. \A m, n, name : Nearest(m, n, name) = NearestIn(parent, m, n, name)
  BY <1>2, Zenon DEF Nearest, NearestIn
<1>4. \A m, n, name : lookupVar(m, n, name) = LookupIn(parent, m, n, name)
  BY <1>3, Zenon DEF lookupVar, LookupIn
<1>5. \A m, n, ref : Referent(m, n, ref) = ReferentIn(parent, m, n, ref)
  BY <1>4, Zenon DEF Referent, ReferentIn
<1>6. \A deeper, n, v : Expanded(deeper, n, v) = ExpandedIn(parent, declared, deeper, n, v)
  BY <1>5 DEF Expanded, ExpandedIn, Parts
<1>7. Texts = TextsOf(declared)
  BY DEF Texts, TextsOf, DeclaredIn
<1>8. \A n : Expansion(n) = Levels(parent, declared, n)[maxVarDepth + 1]
  BY <1>6, <1>7, Zenon DEF Expansion, Levels, LevelsUpTo
<1> QED  BY <1>5, <1>6, <1>8

-----------------------------------------------------------------------------
(* Lookup *)

(* What a document is, and what of it resolution leaves alone. *)
OneLive(s) ==
    \A k, l \in DOMAIN s : s[k].prop = s[l].prop /\ ~s[k].dead /\ ~s[l].dead => k = l

Sound(tree, dec) ==
    /\ tree \in Seq(Nat)
    /\ DOMAIN dec \subseteq DOMAIN tree
    /\ \A n \in DOMAIN dec : dec[n] \in Seq(SlotOf) /\ OneLive(dec[n])

Agrees(m, dec) ==
    /\ DOMAIN m = DOMAIN dec
    /\ \A n \in DOMAIN dec :
          /\ m[n] \in Seq(SlotOf) /\ Len(m[n]) = Len(dec[n])
          /\ \A x \in DOMAIN dec[n] :
                /\ m[n][x].prop = dec[n][x].prop
                /\ m[n][x].dead = dec[n][x].dead
                /\ dec[n][x].prop \in CustomProperty => m[n][x].value = dec[n][x].value

(* The value of a custom property does not depend on what has been resolved. *)
LEMMA LookupAgrees ==
    ASSUME NEW tree, NEW dec, NEW m, Sound(tree, dec), Agrees(m, dec),
           NEW name, name \in Property => name \in CustomProperty, NEW n
    PROVE  LookupIn(tree, m, n, name) = LookupIn(tree, dec, n, name)
<1>1. ASSUME NEW e \in DOMAIN dec
      PROVE  /\ e \in DOMAIN m /\ Live(m[e], name) = Live(dec[e], name)
             /\ \A k \in Live(dec[e], name) : m[e][k].value = dec[e][k].value
  <2>1. DOMAIN m[e] = DOMAIN dec[e]
    <3>1. m[e] \in Seq(SlotOf) /\ dec[e] \in Seq(SlotOf) /\ Len(m[e]) = Len(dec[e])
      BY DEF Sound, Agrees
    <3> QED  BY <3>1
  <2>2. \A k \in DOMAIN dec[e] : /\ m[e][k].prop = dec[e][k].prop /\ m[e][k].dead = dec[e][k].dead
                                 /\ dec[e][k].prop = name => m[e][k].value = dec[e][k].value
    <3>1. \A k \in DOMAIN dec[e] : dec[e][k] \in SlotOf
      BY ElementOfSeq DEF Sound
    <3> QED  BY <3>1 DEF Agrees, SlotOf
  <2> QED  BY <2>1, <2>2 DEF Live, Agrees
<1>2. HoldersIn(tree, m, n, name) = HoldersIn(tree, dec, n, name)
  BY <1>1 DEF HoldersIn, Agrees
<1>3. NearestIn(tree, m, n, name) = NearestIn(tree, dec, n, name)
  BY <1>2, Zenon DEF NearestIn
<1>4. \A e \in NearestIn(tree, dec, n, name) : e \in DOMAIN dec
  BY DEF NearestIn, HoldersIn
<1>5. \A e \in NearestIn(tree, dec, n, name) :
         {m[e][k].value : k \in Live(m[e], name)} = {dec[e][k].value : k \in Live(dec[e], name)}
  BY <1>1, <1>4
<1>6. {{m[e][k].value : k \in Live(m[e], name)} : e \in NearestIn(tree, dec, n, name)}
        = {{dec[e][k].value : k \in Live(dec[e], name)} : e \in NearestIn(tree, dec, n, name)}
  <2> DEFINE A(e) == {m[e][k].value : k \in Live(m[e], name)}
             B(e) == {dec[e][k].value : k \in Live(dec[e], name)}
  <2>1. \A e \in NearestIn(tree, dec, n, name) : A(e) = B(e)
    BY <1>5
  <2> HIDE DEF A, B
  <2>2. {A(e) : e \in NearestIn(tree, dec, n, name)} = {B(e) : e \in NearestIn(tree, dec, n, name)}
    BY <2>1
  <2> QED  BY <2>2 DEF A, B
<1> QED  BY <1>3, <1>6, Zenon DEF LookupIn

(* A lookup finds one text of the document, or none. *)
LEMMA LookupIs ==
    ASSUME NEW tree, NEW dec, Sound(tree, dec), NEW n, NEW name
    PROVE  /\ LookupIn(tree, dec, n, name) \subseteq TextsOf(dec) \intersect Value
           /\ \A a, b \in LookupIn(tree, dec, n, name) : a = b
<1>1. \A e \in NearestIn(tree, dec, n, name) : e \in DOMAIN dec /\ e \in Nat
  BY DEF NearestIn, HoldersIn, Sound
<1>2. \A e, f \in NearestIn(tree, dec, n, name) : e = f
  BY <1>1 DEF NearestIn
<1>3. \A e \in DOMAIN dec : \A k, l \in Live(dec[e], name) : k = l /\ k \in DOMAIN dec[e]
  BY DEF Sound, OneLive, Live
<1>4. \A e \in DOMAIN dec : \A k \in DOMAIN dec[e] : dec[e][k] \in SlotOf
  BY ElementOfSeq DEF Sound
<1>5. \A e \in DOMAIN dec : \A k \in DOMAIN dec[e] : dec[e][k].value \in TextsOf(dec) \intersect Value
  <2> TAKE e \in DOMAIN dec
  <2> TAKE k \in DOMAIN dec[e]
  <2>1. dec[e][k].value \in Value
    BY <1>4 DEF SlotOf
  <2>2. dec[e][k].value \in {dec[e][x].value : x \in DOMAIN dec[e]}
    OBVIOUS
  <2>3. dec[e][k].value \in DeclaredIn(dec)
    BY <2>2 DEF DeclaredIn
  <2> QED  BY <2>1, <2>3 DEF TextsOf
<1>6. \A a \in LookupIn(tree, dec, n, name) :
         \E e \in NearestIn(tree, dec, n, name) : \E k \in Live(dec[e], name) : a = dec[e][k].value
  BY DEF LookupIn
<1>7. ASSUME NEW a \in LookupIn(tree, dec, n, name), NEW b \in LookupIn(tree, dec, n, name)
      PROVE  a = b
  BY <1>1, <1>2, <1>3, <1>6
<1>8. ASSUME NEW a \in LookupIn(tree, dec, n, name)
      PROVE  a \in TextsOf(dec) \intersect Value
  BY <1>1, <1>3, <1>5, <1>6
<1> QED  BY <1>7, <1>8

(* So a reference stands for one text of the document, or for none. *)
LEMMA ReferentIs ==
    ASSUME NEW tree, NEW dec, Sound(tree, dec), NEW n, NEW ref \in Piece, Usable(ref)
    PROVE  /\ ReferentIn(tree, dec, n, ref) \subseteq TextsOf(dec) \intersect Value
           /\ \A a, b \in ReferentIn(tree, dec, n, ref) : a = b
<1>1. ref.fallback \in Value \union {NoFallback}
  BY PieceAssumption DEF Usable, Opening
<1>2. ref.fallback # NoFallback => ref.fallback \in TextsOf(dec) \intersect Value
  <2> SUFFICES ASSUME ref.fallback # NoFallback PROVE ref.fallback \in TextsOf(dec)
    BY <1>1
  <2>1. ref.fallback \in Fallbacks
    BY DEF Fallbacks
  <2> QED  BY <2>1 DEF TextsOf
<1>3. CASE LookupIn(tree, dec, n, ref.name) = {}
  BY <1>2, <1>3 DEF ReferentIn
<1>4. CASE LookupIn(tree, dec, n, ref.name) # {}
  BY <1>4, LookupIs DEF ReferentIn
<1> QED  BY <1>3, <1>4

-----------------------------------------------------------------------------
(* Expansion *)

(* What the expansions one level deeper are. *)
Deeper(dec, deeper) == \A w \in TextsOf(dec) \intersect Value : deeper[w] \in Value

(* The parts of an expansion: one text for each piece. *)
LEMMA PartsAre ==
    ASSUME NEW tree, NEW dec, Sound(tree, dec), NEW n, NEW deeper, Deeper(dec, deeper),
           NEW v \in Value
    PROVE  Parts(tree, dec, deeper, n, v) \in Seq(Value)
<1> DEFINE p == Parts(tree, dec, deeper, n, v)
<1>1. Len(v) \in Nat /\ DOMAIN v = 1..Len(v) /\ \A x \in DOMAIN v : v[x] \in Piece
  BY ElementOfSeq DEF Value
<1>2. ASSUME NEW x \in DOMAIN v
      PROVE  p[x] \in Value
  <2>1. <<v[x]>> \in Value
    BY <1>1 DEF Value
  <2>2. ASSUME Usable(v[x]), ReferentIn(tree, dec, n, v[x]) # {}
        PROVE  deeper[CHOOSE w \in ReferentIn(tree, dec, n, v[x]) : TRUE] \in Value
    <3> DEFINE c == CHOOSE w \in ReferentIn(tree, dec, n, v[x]) : TRUE
    <3>1. c \in ReferentIn(tree, dec, n, v[x])
      BY <2>2
    <3>2. c \in TextsOf(dec) \intersect Value
      BY <1>1, <2>2, <3>1, ReferentIs
    <3> HIDE DEF c
    <3>3. deeper[c] \in Value
      BY <3>2 DEF Deeper
    <3> QED  BY <3>3 DEF c
  <2>3. p[x] = IF \/ \E y \in 1..x : Stuck(v[y])
                  \/ ~Usable(v[x]) \/ ReferentIn(tree, dec, n, v[x]) = {}
               THEN <<v[x]>>
               ELSE deeper[CHOOSE w \in ReferentIn(tree, dec, n, v[x]) : TRUE]
    BY DEF Parts
  <2> QED  BY <2>1, <2>2, <2>3
<1>3. DOMAIN p = 1..Len(v) /\ p = [x \in 1..Len(v) |-> p[x]]
  BY <1>1 DEF Parts
<1> HIDE DEF p
<1>4. p \in Seq(Value)
  BY <1>1, <1>2, <1>3, SeqDef
<1> QED  BY <1>4 DEF p

(* An expansion is a text. *)
LEMMA ExpandedIs ==
    ASSUME NEW tree, NEW dec, Sound(tree, dec), NEW n, NEW deeper, Deeper(dec, deeper),
           NEW v \in Value
    PROVE  ExpandedIn(tree, dec, deeper, n, v) \in Value
<1>1. Parts(tree, dec, deeper, n, v) \in Seq(Seq(Piece))
  BY PartsAre DEF Value
<1>2. FlattenSeq(Parts(tree, dec, deeper, n, v)) \in Seq(Piece)
  BY <1>1, FlattenIs
<1> QED  BY <1>2 DEF ExpandedIn, Value

(* No reference in v is replaced: they are all behind one that is not a usable
   span. *)
Inert(v) == \A x \in DOMAIN v : Usable(v[x]) => \E y \in 1..x : Stuck(v[y])

(* A text without a reference to replace expands to itself. *)
LEMMA InertExpands ==
    ASSUME NEW tree, NEW dec, NEW n, NEW deeper, NEW v \in Value, Inert(v)
    PROVE  ExpandedIn(tree, dec, deeper, n, v) = v
<1>1. Parts(tree, dec, deeper, n, v) = [x \in DOMAIN v |-> <<v[x]>>]
  BY DEF Parts, Inert
<1>2. FlattenSeq([x \in DOMAIN v |-> <<v[x]>>]) = v
  BY FlattenSingles DEF Value
<1> QED  BY <1>1, <1>2, Zenon DEF ExpandedIn

(* One reference expands to what it stands for, or to itself. *)
LEMMA ReferenceExpands ==
    ASSUME NEW tree, NEW dec, Sound(tree, dec), NEW n, NEW deeper, Deeper(dec, deeper),
           NEW ref \in Piece, Usable(ref)
    PROVE  /\ ReferentIn(tree, dec, n, ref) = {} =>
                 ExpandedIn(tree, dec, deeper, n, <<ref>>) = <<ref>>
           /\ \A w \in ReferentIn(tree, dec, n, ref) :
                 ExpandedIn(tree, dec, deeper, n, <<ref>>) = deeper[w]
<1> DEFINE p == Parts(tree, dec, deeper, n, <<ref>>)
<1>1. <<ref>> \in Value /\ DOMAIN <<ref>> = {1} /\ <<ref>>[1] = ref /\ ~Stuck(ref)
  BY DEF Value, Usable
<1>2. p \in Seq(Seq(Piece)) /\ DOMAIN p = {1}
  <2>1. p \in Seq(Value)
    BY <1>1, PartsAre
  <2>2. DOMAIN p = DOMAIN <<ref>>
    BY DEF Parts
  <2> QED  BY <1>1, <2>1, <2>2 DEF Value
<1>3. p = <<p[1]>> /\ p[1] \in Seq(Piece)
  <2> HIDE DEF p
  <2>1. Len(p) = 1
    BY <1>2
  <2> QED  BY <1>2, <2>1
<1>4. FlattenSeq(p) = p[1]
  <2> HIDE DEF p
  <2>1. FlattenSeq(<<p[1]>>) = p[1]
    BY <1>3, FlattenOne
  <2> QED  BY <1>3, <2>1
<1>5. /\ ReferentIn(tree, dec, n, ref) = {} => p[1] = <<ref>>
      /\ ReferentIn(tree, dec, n, ref) # {} =>
             p[1] = deeper[CHOOSE w \in ReferentIn(tree, dec, n, ref) : TRUE]
  <2>1. ~\E y \in 1..1 : Stuck(<<ref>>[y])
    BY <1>1
  <2> QED  BY <1>1, <2>1 DEF Parts
<1>6. ASSUME NEW w \in ReferentIn(tree, dec, n, ref)
      PROVE  (CHOOSE x \in ReferentIn(tree, dec, n, ref) : TRUE) = w
  <2> DEFINE c == CHOOSE x \in ReferentIn(tree, dec, n, ref) : TRUE
  <2>1. c \in ReferentIn(tree, dec, n, ref)
    OBVIOUS
  <2> HIDE DEF c
  <2>2. c = w
    BY <2>1, ReferentIs
  <2> QED  BY <2>2 DEF c
<1>7. ExpandedIn(tree, dec, deeper, n, <<ref>>) = p[1]
  BY <1>4 DEF ExpandedIn
<1> HIDE DEF p
<1> QED  BY <1>5, <1>6, <1>7

(* Two texts in a row expand to their expansions in a row. *)
Splits(tree, dec, deeper, n, u, v) ==
    ExpandedIn(tree, dec, deeper, n, u \o v)
      = ExpandedIn(tree, dec, deeper, n, u) \o ExpandedIn(tree, dec, deeper, n, v)

(* Behind a text that closes all its references, expansion starts afresh. *)
LEMMA ExpansionSplits ==
    ASSUME NEW tree, NEW dec, Sound(tree, dec), NEW n, NEW deeper, Deeper(dec, deeper),
           NEW u \in Value, NEW v \in Value, \A x \in DOMAIN u : ~Stuck(u[x])
    PROVE  Splits(tree, dec, deeper, n, u, v)
<1> DEFINE w == u \o v
           pu == Parts(tree, dec, deeper, n, u)
           pv == Parts(tree, dec, deeper, n, v)
           pw == Parts(tree, dec, deeper, n, w)
<1>1. /\ Len(u) \in Nat /\ Len(v) \in Nat /\ DOMAIN u = 1..Len(u) /\ DOMAIN v = 1..Len(v)
      /\ w \in Value /\ Len(w) = Len(u) + Len(v) /\ DOMAIN w = 1..(Len(u) + Len(v))
      /\ \A x \in DOMAIN w : w[x] = IF x <= Len(u) THEN u[x] ELSE v[x - Len(u)]
  BY ConcatProperties DEF Value
<1> HIDE DEF w
<1>2. /\ pu \in Seq(Value) /\ pv \in Seq(Value) /\ pw \in Seq(Value)
      /\ DOMAIN pu = 1..Len(u) /\ DOMAIN pv = 1..Len(v) /\ DOMAIN pw = 1..(Len(u) + Len(v))
  <2>1. pu \in Seq(Value) /\ pv \in Seq(Value) /\ pw \in Seq(Value)
    BY <1>1, PartsAre
  <2> QED  BY <1>1, <2>1 DEF Parts
<1>3. Len(pu) = Len(u) /\ Len(pv) = Len(v) /\ Len(pw) = Len(u) + Len(v)
  <2> HIDE DEF pu, pv, pw
  <2> QED  BY <1>1, <1>2
<1>4. ASSUME NEW x \in DOMAIN w, x <= Len(u)
      PROVE  pw[x] = pu[x]
  <2>1. x \in DOMAIN u /\ w[x] = u[x] /\ \A y \in 1..x : y \in DOMAIN u /\ w[y] = u[y]
    BY <1>1, <1>4
  <2> QED  BY <2>1 DEF Parts
<1>5. ASSUME NEW x \in DOMAIN w, ~(x <= Len(u))
      PROVE  pw[x] = pv[x - Len(u)]
  <2> DEFINE z == x - Len(u)
  <2>1. z \in DOMAIN v /\ w[x] = v[z] /\ x \in Nat /\ z \in Nat /\ x = z + Len(u)
    BY <1>1, <1>5
  <2>2. (\E y \in 1..x : Stuck(w[y])) <=> (\E y \in 1..z : Stuck(v[y]))
    <3>1. ASSUME NEW y \in 1..x, Stuck(w[y])
          PROVE  \E i \in 1..z : Stuck(v[i])
      <4>1. y \in DOMAIN w
        BY <1>1, <2>1, <3>1
      <4>2. ~(y <= Len(u))
        BY <1>1, <3>1, <4>1
      <4>3. w[y] = v[y - Len(u)]
        BY <1>1, <4>1, <4>2
      <4>4. y - Len(u) \in 1..z
        <5>1. y \in Nat /\ y >= 1 /\ y <= x /\ ~(y <= Len(u)) /\ Len(u) \in Nat /\ x \in Nat
          BY <1>1, <2>1, <4>1, <4>2
        <5>2. \A i, j, l \in Nat : i >= 1 /\ i <= j /\ ~(i <= l) => i - l \in 1..(j - l)
          OBVIOUS
        <5> QED  BY <5>1, <5>2
      <4> QED  BY <3>1, <4>3, <4>4
    <3>2. ASSUME NEW y \in 1..z, Stuck(v[y])
          PROVE  \E i \in 1..x : Stuck(w[i])
      <4>1. y + Len(u) \in 1..x /\ y + Len(u) \in DOMAIN w /\ ~(y + Len(u) <= Len(u))
            /\ (y + Len(u)) - Len(u) = y
        BY <1>1, <2>1
      <4>2. w[y + Len(u)] = v[y]
        BY <1>1, <4>1
      <4> QED  BY <3>2, <4>1, <4>2
    <3> QED  BY <3>1, <3>2
  <2> HIDE DEF z
  <2>4. pw[x] = IF \/ \E y \in 1..x : Stuck(w[y])
                   \/ ~Usable(w[x]) \/ ReferentIn(tree, dec, n, w[x]) = {}
                THEN <<w[x]>>
                ELSE deeper[CHOOSE r \in ReferentIn(tree, dec, n, w[x]) : TRUE]
    BY <1>5 DEF Parts
  <2>5. pv[z] = IF \/ \E y \in 1..z : Stuck(v[y])
                   \/ ~Usable(v[z]) \/ ReferentIn(tree, dec, n, v[z]) = {}
                THEN <<v[z]>>
                ELSE deeper[CHOOSE r \in ReferentIn(tree, dec, n, v[z]) : TRUE]
    BY <2>1 DEF Parts
  <2> HIDE DEF pw, pv
  <2>3. pw[x] = pv[z]
    BY <2>1, <2>2, <2>4, <2>5
  <2> QED  BY <2>3 DEF z
<1> HIDE DEF pu, pv, pw
<1>6. pw = pu \o pv
  <2> DEFINE q == pu \o pv
  <2>1. q \in Seq(Value) /\ Len(q) = Len(pw)
        /\ \A x \in 1..Len(q) : q[x] = IF x <= Len(pu) THEN pu[x] ELSE pv[x - Len(pu)]
    <3>1. \A a, b \in Seq(Value) :
             /\ a \o b \in Seq(Value) /\ Len(a \o b) = Len(a) + Len(b)
             /\ \A x \in 1..(Len(a) + Len(b)) :
                    (a \o b)[x] = IF x <= Len(a) THEN a[x] ELSE b[x - Len(a)]
      BY ConcatProperties
    <3>2. /\ pu \o pv \in Seq(Value) /\ Len(pu \o pv) = Len(pu) + Len(pv)
          /\ \A x \in 1..(Len(pu) + Len(pv)) :
                    (pu \o pv)[x] = IF x <= Len(pu) THEN pu[x] ELSE pv[x - Len(pu)]
      BY <1>2, <3>1
    <3> QED  BY <1>3, <3>2
  <2> HIDE DEF q
  <2>2. \A x \in 1..Len(q) : q[x] = pw[x]
    BY <1>1, <1>3, <1>4, <1>5, <2>1
  <2>3. q = pw
    BY <1>2, <2>1, <2>2, SeqEqual
  <2> QED  BY <2>3 DEF q
<1>7. FlattenSeq(pu \o pv) = FlattenSeq(pu) \o FlattenSeq(pv)
  BY <1>2, FlattenConcat DEF Value
<1> QED  BY <1>6, <1>7, Zenon DEF ExpandedIn, Splits, pu, pv, pw, w

(* The recursive function in Expansion exists for every number of levels. *)
LEMMA LevelsExist ==
    ASSUME NEW tree, NEW dec, NEW n, NEW m \in Nat
    PROVE  \E f : LevelsUpTo(tree, dec, n, m, f)
<1> DEFINE T == TextsOf(dec)
           Next1(f, k) == [v \in T |-> IF k = 0 THEN v ELSE ExpandedIn(tree, dec, f[k - 1], n, v)]
           G == {j \in Nat : \E f : LevelsUpTo(tree, dec, n, j, f)}
<1>1. 0 \in G
  <2> DEFINE f == [k \in 0..0 |-> [v \in T |-> v]]
  <2>1. f = [k \in 0..0 |-> Next1(f, k)]
    <3>1. \A k \in 0..0 : k = 0
      OBVIOUS
    <3>2. \A k \in 0..0 : Next1(f, k) = [v \in T |-> v]
      BY <3>1
    <3> QED  BY <3>2
  <2>2. LevelsUpTo(tree, dec, n, 0, f)
    BY <2>1, Zenon DEF LevelsUpTo
  <2> QED  BY <2>2
<1>2. ASSUME NEW j \in Nat, j \in G
      PROVE  j + 1 \in G
  <2>1. PICK f : LevelsUpTo(tree, dec, n, j, f)
    BY <1>2
  <2>2. f = [k \in 0..j |-> Next1(f, k)]
    BY <2>1, Zenon DEF LevelsUpTo
  <2> DEFINE g == [k \in 0..(j + 1) |-> Next1(f, k)]
  <2>3. \A k \in 0..(j + 1) : Next1(g, k) = Next1(f, k)
    <3>1. \A k \in 0..j : g[k] = f[k]
      <4> HIDE DEF Next1
      <4>1. \A k \in 0..j : k \in 0..(j + 1)
        OBVIOUS
      <4>2. \A k \in 0..j : f[k] = Next1(f, k)
        BY <2>2
      <4> QED  BY <4>1, <4>2
    <3> HIDE DEF g
    <3>2. \A k \in 0..(j + 1) : k # 0 => g[k - 1] = f[k - 1]
      BY <3>1
    <3> QED  BY <3>2
  <2>4. g = [k \in 0..(j + 1) |-> Next1(g, k)]
    <3> HIDE DEF Next1
    <3> QED  BY <2>3
  <2>5. LevelsUpTo(tree, dec, n, j + 1, g)
    <3> HIDE DEF g
    <3> QED  BY <2>4, Zenon DEF LevelsUpTo
  <2> QED  BY <2>5
<1>3. \A j \in Nat : j \in G
  <2> HIDE DEF G
  <2> QED  BY <1>1, <1>2, SetInduction
<1> QED  BY <1>3

(* Each level expands a text with the level before it. *)
LEMMA LevelsAre ==
    ASSUME NEW tree, NEW dec, NEW n, Sound(tree, dec)
    PROVE  /\ \A v \in TextsOf(dec) : Levels(tree, dec, n)[0][v] = v
           /\ \A k \in 1..(maxVarDepth + 1) : \A v \in TextsOf(dec) :
                 Levels(tree, dec, n)[k][v]
                   = ExpandedIn(tree, dec, Levels(tree, dec, n)[k - 1], n, v)
           /\ \A k \in 0..(maxVarDepth + 1) : Deeper(dec, Levels(tree, dec, n)[k])
<1> DEFINE L == Levels(tree, dec, n)
           M == maxVarDepth + 1
<1>1. M \in Nat /\ 0 \in 0..M
  BY PagesAssumption
<1>2. LevelsUpTo(tree, dec, n, M, L)
  <2>1. \E f : LevelsUpTo(tree, dec, n, M, f)
    BY <1>1, LevelsExist
  <2> QED  BY <2>1, Zenon DEF Levels
<1> HIDE DEF L
<1>3. L = [k \in 0..M |-> [v \in TextsOf(dec) |->
               IF k = 0 THEN v ELSE ExpandedIn(tree, dec, L[k - 1], n, v)]]
  BY <1>2, Zenon DEF LevelsUpTo
<1> HIDE DEF M
<1>4. \A k \in 0..M : L[k] = [v \in TextsOf(dec) |->
               IF k = 0 THEN v ELSE ExpandedIn(tree, dec, L[k - 1], n, v)]
  BY <1>3, Zenon
<1>5. \A k \in 0..M : \A v \in TextsOf(dec) :
          L[k][v] = IF k = 0 THEN v ELSE ExpandedIn(tree, dec, L[k - 1], n, v)
  BY <1>4
<1>6. \A k \in 1..M : k \in 0..M /\ k # 0 /\ k - 1 \in 0..M
  BY <1>1
<1>7. \A v \in TextsOf(dec) : L[0][v] = v
  BY <1>1, <1>5
<1>8. \A k \in 1..M : \A v \in TextsOf(dec) : L[k][v] = ExpandedIn(tree, dec, L[k - 1], n, v)
  BY <1>5, <1>6
<1> DEFINE G == {k \in Nat : k \in 0..M => Deeper(dec, L[k])}
<1>9. 0 \in G
  BY <1>7 DEF Deeper
<1>10. ASSUME NEW k \in Nat, k \in G
       PROVE  k + 1 \in G
  <2> SUFFICES ASSUME k + 1 \in 0..M PROVE Deeper(dec, L[k + 1])
    OBVIOUS
  <2>1. k \in 0..M /\ k + 1 \in 1..M /\ (k + 1) - 1 = k
    BY <1>1
  <2>2. Deeper(dec, L[k])
    BY <1>10, <2>1
  <2>3. \A v \in TextsOf(dec) \intersect Value : L[k + 1][v] = ExpandedIn(tree, dec, L[k], n, v)
    BY <1>8, <2>1
  <2>4. \A v \in TextsOf(dec) \intersect Value : ExpandedIn(tree, dec, L[k], n, v) \in Value
    BY <2>2, ExpandedIs
  <2> QED  BY <2>3, <2>4 DEF Deeper
<1>11. \A k \in Nat : k \in G
  <2> HIDE DEF G
  <2> QED  BY <1>9, <1>10, SetInduction
<1>12. \A k \in 0..M : Deeper(dec, L[k])
  BY <1>1, <1>11
<1> QED  BY <1>7, <1>8, <1>12 DEF L, M

-----------------------------------------------------------------------------
(* Scanning *)

(* A text that is scanned: what is behind position k, what is at it and
   ahead of it, and what is from i up to it. *)
Past(o, k) == SubSeq(o, 1, k - 1)
Ahead(o, k) == SubSeq(o, k, Len(o))
Between(o, i, k) == SubSeq(o, i, k - 1)

(* The first part of a concatenation, and the rest. *)
LEMMA ConcatParts ==
    ASSUME NEW S, NEW u \in Seq(S), NEW v \in Seq(S)
    PROVE  /\ SubSeq(u \o v, 1, Len(u)) = u
           /\ SubSeq(u \o v, Len(u) + 1, Len(u \o v)) = v
<1> DEFINE w == u \o v
           a == SubSeq(w, 1, Len(u))
           b == SubSeq(w, Len(u) + 1, Len(w))
<1>1. /\ Len(u) \in Nat /\ Len(v) \in Nat /\ w \in Seq(S) /\ Len(w) = Len(u) + Len(v)
      /\ \A x \in 1..(Len(u) + Len(v)) : w[x] = IF x <= Len(u) THEN u[x] ELSE v[x - Len(u)]
  BY ConcatProperties
<1> HIDE DEF w
<1>2. \A x \in 1..Len(w) : w[x] \in S
  BY <1>1
<1>3. a \in Seq(S) /\ Len(a) = Len(u) /\ \A x \in 1..Len(u) : a[x] = w[x]
  <2>1. \A x \in 1..Len(u) : w[x] \in S
    BY <1>1, <1>2
  <2>2. /\ a \in Seq(S) /\ Len(a) = (IF 1 <= Len(u) THEN Len(u) - 1 + 1 ELSE 0)
        /\ \A x \in 1..(Len(u) - 1 + 1) : a[x] = w[1 + x - 1]
    BY <1>1, <2>1, SubSeqProperties
  <2> HIDE DEF a
  <2> QED  BY <1>1, <2>2
<1>4. b \in Seq(S) /\ Len(b) = Len(v) /\ \A x \in 1..Len(v) : b[x] = w[Len(u) + x]
  <2> DEFINE l == Len(u) + 1
             h == Len(w)
  <2>1. l \in Int /\ h \in Int /\ \A x \in l..h : w[x] \in S
    BY <1>1, <1>2
  <2>2. /\ SubSeq(w, l, h) \in Seq(S) /\ Len(SubSeq(w, l, h)) = (IF l <= h THEN h - l + 1 ELSE 0)
        /\ \A x \in 1..(h - l + 1) : SubSeq(w, l, h)[x] = w[l + x - 1]
    <3> HIDE DEF l, h
    <3> QED  BY <2>1, SubSeqProperties
  <2>3. /\ b \in Seq(S) /\ Len(b) = (IF l <= h THEN h - l + 1 ELSE 0)
        /\ \A x \in 1..(h - l + 1) : b[x] = w[l + x - 1]
    BY <2>2
  <2> HIDE DEF b
  <2>4. \A x \in 1..Len(v) : x \in 1..(h - l + 1) /\ l + x - 1 = Len(u) + x
    BY <1>1
  <2>5. Len(b) = Len(v)
    BY <1>1, <2>3
  <2> QED  BY <2>3, <2>4, <2>5
<1> HIDE DEF a, b
<1>5. \A x \in 1..Len(u) : a[x] = u[x]
  BY <1>1, <1>3
<1>6. \A x \in 1..Len(v) : b[x] = v[x]
  <2> TAKE x \in 1..Len(v)
  <2>1. Len(u) + x \in 1..(Len(u) + Len(v)) /\ ~(Len(u) + x <= Len(u)) /\ (Len(u) + x) - Len(u) = x
    BY <1>1
  <2>2. w[Len(u) + x] = v[(Len(u) + x) - Len(u)]
    BY <1>1, <2>1
  <2> QED  BY <1>4, <2>1, <2>2
<1>7. a = u
  BY <1>3, <1>5, SeqEqual
<1>8. b = v
  BY <1>4, <1>6, SeqEqual
<1> QED  BY <1>7, <1>8 DEF a, b, w

(* The parts of a scanned text fit together. *)
LEMMA ScannedParts ==
    ASSUME NEW o \in Value, NEW i \in 1..(Len(o) + 1), NEW k \in i..Len(o)
    PROVE  /\ Past(o, i) \in Value /\ Past(o, k) \in Value /\ <<o[k]>> \in Value
           /\ Between(o, i, k) \in Value /\ Ahead(o, i) \in Value /\ Ahead(o, k + 1) \in Value
           /\ Ahead(o, i) = Between(o, i, k) \o (<<o[k]>> \o Ahead(o, k + 1))
           /\ Past(o, k) = Past(o, i) \o Between(o, i, k)
           /\ Past(o, k + 1) = Past(o, k) \o <<o[k]>>
           /\ \A x \in DOMAIN Between(o, i, k) :
                 \E y \in i..(k - 1) : Between(o, i, k)[x] = o[y]
<1>1. /\ o \in Seq(Piece) /\ Len(o) \in Nat /\ i \in Nat /\ k \in Nat /\ k \in 1..Len(o)
      /\ o[k] \in Piece
  BY DEF Value
<1>2. \A a \in 1..(Len(o) + 1) : \A b \in (a - 1)..Len(o) :
         /\ SubSeq(o, a, b) \in Seq(Piece)
         /\ \A x \in DOMAIN SubSeq(o, a, b) : \E y \in a..b : SubSeq(o, a, b)[x] = o[y]
  <2> TAKE a \in 1..(Len(o) + 1)
  <2> TAKE b \in (a - 1)..Len(o)
  <2>1. a \in Int /\ b \in Int /\ \A x \in a..b : o[x] \in Piece
    BY <1>1
  <2>2. /\ SubSeq(o, a, b) \in Seq(Piece)
        /\ Len(SubSeq(o, a, b)) = (IF a <= b THEN b - a + 1 ELSE 0)
        /\ \A x \in 1..(b - a + 1) : SubSeq(o, a, b)[x] = o[a + x - 1]
    BY <2>1, SubSeqProperties
  <2> DEFINE q == SubSeq(o, a, b)
  <2> HIDE DEF q
  <2>3. /\ q \in Seq(Piece) /\ Len(q) = (IF a <= b THEN b - a + 1 ELSE 0)
        /\ \A x \in 1..(b - a + 1) : q[x] = o[a + x - 1]
    BY <2>2 DEF q
  <2>4. DOMAIN q = 1..Len(q)
    BY <2>3
  <2>5. \A x \in DOMAIN q : x \in 1..(b - a + 1) /\ a + x - 1 \in a..b
    BY <2>1, <2>3, <2>4
  <2>6. \A x \in DOMAIN q : \E y \in a..b : q[x] = o[y]
    BY <2>3, <2>5
  <2> QED  BY <2>3, <2>6 DEF q
<1>3. \A a \in 1..(Len(o) + 1) : \A b \in (a - 1)..Len(o) : \A c \in b..Len(o) :
         SubSeq(o, a, b) \o SubSeq(o, b + 1, c) = SubSeq(o, a, c)
  BY <1>1, ConcatAdjacentSubSeq
<1>4. SubSeq(o, k, k) = <<o[k]>>
  <2>1. k \in Int /\ \A x \in k..k : o[x] \in Piece
    BY <1>1
  <2>2. /\ SubSeq(o, k, k) \in Seq(Piece) /\ Len(SubSeq(o, k, k)) = (IF k <= k THEN k - k + 1 ELSE 0)
        /\ \A x \in 1..(k - k + 1) : SubSeq(o, k, k)[x] = o[k + x - 1]
    BY <2>1, SubSeqProperties
  <2> DEFINE q == SubSeq(o, k, k)
  <2>3. q \in Seq(Piece) /\ Len(q) = 1 /\ q[1] = o[k]
    <3>1. k - k + 1 = 1 /\ k <= k /\ k + 1 - 1 = k
      BY <1>1
    <3> QED  BY <2>2, <3>1
  <2> HIDE DEF q
  <2>4. q = <<q[1]>>
    BY <2>3
  <2> QED  BY <2>3, <2>4 DEF q
<1>5. /\ 1 \in 1..(Len(o) + 1) /\ i - 1 \in (1 - 1)..Len(o) /\ k - 1 \in (1 - 1)..Len(o)
      /\ k - 1 \in (i - 1)..Len(o) /\ Len(o) \in (i - 1)..Len(o)
      /\ k + 1 \in 1..(Len(o) + 1) /\ Len(o) \in ((k + 1) - 1)..Len(o)
      /\ k \in (k - 1)..Len(o) /\ k \in 1..(Len(o) + 1) /\ Len(o) \in k..Len(o)
      /\ k \in (k - 1)..Len(o) /\ Len(o) \in (k - 1)..Len(o) /\ k - 1 \in (i - 1)..Len(o)
      /\ (k - 1) + 1 = k /\ (i - 1) + 1 = i /\ (k + 1) - 1 = k /\ 1 - 1 = 0
  BY <1>1
<1>6. /\ Past(o, i) \in Value /\ Past(o, k) \in Value /\ <<o[k]>> \in Value
      /\ Between(o, i, k) \in Value /\ Ahead(o, i) \in Value /\ Ahead(o, k + 1) \in Value
  BY <1>1, <1>2, <1>5 DEF Past, Between, Ahead, Value
<1>7. SubSeq(o, k, Len(o)) = <<o[k]>> \o SubSeq(o, k + 1, Len(o))
  BY <1>3, <1>4, <1>5
<1>8. Ahead(o, i) = Between(o, i, k) \o (<<o[k]>> \o Ahead(o, k + 1))
  <2>1. SubSeq(o, i, k - 1) \o SubSeq(o, (k - 1) + 1, Len(o)) = SubSeq(o, i, Len(o))
    BY <1>3, <1>5
  <2> QED  BY <1>5, <1>7, <2>1 DEF Ahead, Between
<1>9. Past(o, k) = Past(o, i) \o Between(o, i, k)
  <2>1. i - 1 \in (1 - 1)..Len(o) /\ k - 1 \in (i - 1)..Len(o)
    BY <1>5
  <2>2. SubSeq(o, 1, i - 1) \o SubSeq(o, (i - 1) + 1, k - 1) = SubSeq(o, 1, k - 1)
    BY <1>3, <1>5, <2>1
  <2> QED  BY <1>5, <2>2 DEF Past, Between
<1>10. Past(o, k + 1) = Past(o, k) \o <<o[k]>>
  <2>1. k \in (k - 1)..Len(o)
    BY <1>5
  <2>2. SubSeq(o, 1, k - 1) \o SubSeq(o, (k - 1) + 1, k) = SubSeq(o, 1, k)
    BY <1>3, <1>5, <2>1
  <2> QED  BY <1>4, <1>5, <2>2 DEF Past
<1>11. \A x \in DOMAIN Between(o, i, k) : \E y \in i..(k - 1) : Between(o, i, k)[x] = o[y]
  BY <1>2, <1>5 DEF Between
<1> QED  BY <1>6, <1>8, <1>9, <1>10, <1>11

(* What splicing makes of them: the scan goes on behind what was put in. *)
LEMMA SplicedParts ==
    ASSUME NEW o \in Value, NEW k \in 1..Len(o), NEW r \in Value
    PROVE  /\ Splice(o, k, r) \in Value
           /\ k + Len(r) \in 1..(Len(Splice(o, k, r)) + 1)
           /\ Past(Splice(o, k, r), k + Len(r)) = Past(o, k) \o r
           /\ Ahead(Splice(o, k, r), k + Len(r)) = Ahead(o, k + 1)
<1> DEFINE u == Past(o, k) \o r
           v == Ahead(o, k + 1)
           j == k + Len(r)
<1>1. Len(o) \in Nat /\ k \in 1..(Len(o) + 1) /\ k \in k..Len(o) /\ k \in Nat
  BY DEF Value
<1>2. Past(o, k) \in Value /\ v \in Value
  BY <1>1, ScannedParts
<1>3. Len(Past(o, k)) = k - 1
  <2>1. 1 \in Int /\ k - 1 \in Int /\ \A x \in 1..(k - 1) : o[x] \in Piece
    BY <1>1 DEF Value
  <2>2. Len(SubSeq(o, 1, k - 1)) = IF 1 <= k - 1 THEN (k - 1) - 1 + 1 ELSE 0
    BY <2>1, SubSeqProperties
  <2> QED  BY <1>1, <2>2 DEF Past
<1> HIDE DEF v
<1>4. u \in Value /\ Len(u) = (k - 1) + Len(r) /\ Len(r) \in Nat
  <2>1. \A a, b \in Seq(Piece) : a \o b \in Seq(Piece) /\ Len(a \o b) = Len(a) + Len(b)
    OBVIOUS
  <2>2. Past(o, k) \in Seq(Piece) /\ r \in Seq(Piece)
    BY <1>2 DEF Value
  <2>3. u \in Seq(Piece) /\ Len(u) = Len(Past(o, k)) + Len(r)
    BY <2>1, <2>2
  <2> QED  BY <1>3, <2>2, <2>3 DEF Value
<1> HIDE DEF u
<1>5. u \o v \in Value /\ Len(u \o v) = Len(u) + Len(v) /\ Len(v) \in Nat
  <2>1. \A a, b \in Seq(Piece) : a \o b \in Seq(Piece) /\ Len(a \o b) = Len(a) + Len(b)
    OBVIOUS
  <2>2. v \in Seq(Piece) /\ u \in Seq(Piece)
    BY <1>2, <1>4 DEF Value
  <2>3. u \o v \in Seq(Piece) /\ Len(u \o v) = Len(u) + Len(v)
    BY <2>1, <2>2
  <2> QED  BY <2>2, <2>3 DEF Value
<1>6. Splice(o, k, r) = u \o v
  BY DEF Splice, u, v, Past, Ahead
<1>7. SubSeq(u \o v, 1, Len(u)) = u /\ SubSeq(u \o v, Len(u) + 1, Len(u \o v)) = v
  BY <1>2, <1>4, ConcatParts DEF Value
<1>8. j - 1 = Len(u) /\ j = Len(u) + 1 /\ j \in 1..(Len(u \o v) + 1)
  BY <1>1, <1>4, <1>5
<1>9. Past(u \o v, j) = u /\ Ahead(u \o v, j) = v
  BY <1>7, <1>8 DEF Past, Ahead
<1> QED  BY <1>5, <1>6, <1>8, <1>9 DEF u, v

(* Where the scan stands: at the next opening from position i, or nowhere. *)
LEMMA PendingIs ==
    ASSUME NEW f, f.out \in Value, f.from \in 1..(Len(f.out) + 1)
    PROVE  \/ /\ Pending(f) = 0
              /\ \A x \in f.from..Len(f.out) : ~Opening(f.out[x])
           \/ /\ Pending(f) \in f.from..Len(f.out)
              /\ Pending(f) # 0
              /\ Opening(f.out[Pending(f)])
              /\ \A x \in f.from..(Pending(f) - 1) : ~Opening(f.out[x])
<1> DEFINE I == {x \in f.from..Len(f.out) : Opening(f.out[x])}
<1>1. Len(f.out) \in Nat /\ f.from \in Nat /\ f.from # 0
  BY DEF Value
<1>2. I \in SUBSET Nat /\ \A x \in I : x \in f.from..Len(f.out) /\ Opening(f.out[x]) /\ x # 0
  BY <1>1
<1>3. \A x \in f.from..Len(f.out) : Opening(f.out[x]) => x \in I
  OBVIOUS
<1>4. Pending(f) = IF I # {} THEN CHOOSE x \in I : \A y \in I : x <= y ELSE 0
  BY DEF Pending, SelectInSubSeq, Min
<1> HIDE DEF I
<1>5. CASE I = {}
  BY <1>3, <1>4, <1>5
<1>6. CASE I # {}
  <2> DEFINE c == CHOOSE x \in I : \A y \in I : x <= y
  <2>1. c \in I /\ \A y \in I : c <= y
    <3>1. \E x \in I : \A y \in I : x <= y
      BY <1>2, <1>6, Least
    <3> QED  BY <3>1
  <2>2. Pending(f) = c
    BY <1>4, <1>6
  <2> HIDE DEF c
  <2>3. \A x \in f.from..(c - 1) : x \in f.from..Len(f.out) /\ ~(c <= x)
    BY <1>1, <1>2, <2>1
  <2>4. \A x \in f.from..(c - 1) : ~Opening(f.out[x])
    BY <1>3, <2>1, <2>3
  <2> QED  BY <1>2, <2>1, <2>2, <2>4
<1> QED  BY <1>5, <1>6

(* What a text stands for on element n while it is scanned: what is behind the
   scan is final, and what is ahead of it still to be expanded. *)
Meant(tree, dec, deeper, n, o, i) == Past(o, i) \o ExpandedIn(tree, dec, deeper, n, Ahead(o, i))

(* The same, read with the reference at k singled out. *)
MeantAround(tree, dec, deeper, n, o, k) ==
    (Past(o, k) \o ExpandedIn(tree, dec, deeper, n, <<o[k]>>))
        \o ExpandedIn(tree, dec, deeper, n, Ahead(o, k + 1))

(* Three texts in a row may be put together from either end. *)
Regroups(a, b, c) == (a \o b) \o c = a \o (b \o c)

(* Concatenation is associative. *)
LEMMA ConcatRegroups ==
    ASSUME NEW S, NEW a \in Seq(S), NEW b \in Seq(S), NEW c \in Seq(S)
    PROVE  Regroups(a, b, c)
  BY ConcatAssociative DEF Regroups

(* The scan up to the next reference, and over it. *)
LEMMA ScanReaches ==
    ASSUME NEW tree, NEW dec, Sound(tree, dec), NEW n, NEW deeper, Deeper(dec, deeper),
           NEW o \in Value, NEW i \in 1..(Len(o) + 1), NEW k \in i..Len(o),
           \A x \in i..(k - 1) : ~Opening(o[x]), Usable(o[k])
    PROVE  Meant(tree, dec, deeper, n, o, i) = MeantAround(tree, dec, deeper, n, o, k)
<1> DEFINE E(v) == ExpandedIn(tree, dec, deeper, n, v)
           a == Past(o, i)
           b == Between(o, i, k)
           c == <<o[k]>>
           e == Ahead(o, k + 1)
<1>1. /\ a \in Value /\ b \in Value /\ c \in Value /\ e \in Value
      /\ Ahead(o, i) = b \o (c \o e) /\ Past(o, k) = a \o b
      /\ \A x \in DOMAIN b : \E y \in i..(k - 1) : b[x] = o[y]
  BY ScannedParts
<1>2. \A x \in DOMAIN b : ~Opening(b[x])
  BY <1>1
<1>3. (\A x \in DOMAIN b : ~Stuck(b[x])) /\ Inert(b)
  BY <1>2 DEF Opening, Inert, Usable, Stuck
<1>4. \A x \in DOMAIN c : ~Stuck(c[x])
  BY DEF Usable
<1> HIDE DEF a, b, c, e
<1>5. c \o e \in Value
  BY <1>1 DEF Value
<1>6. \A v \in Value : E(v) \in Value
  BY ExpandedIs
<1>9. E(b) = b
  BY <1>1, <1>3, InertExpands
<1> DEFINE ce == c \o e
<1> HIDE DEF ce
<1>7. E(b \o ce) = E(b) \o E(ce)
  <2>1. ce \in Value
    BY <1>5 DEF ce
  <2>2. Splits(tree, dec, deeper, n, b, ce)
    BY <1>1, <1>3, <2>1, ExpansionSplits
  <2> QED  BY <2>2 DEF Splits
<1>8. E(c \o e) = E(c) \o E(e)
  <2>1. Splits(tree, dec, deeper, n, c, e)
    BY <1>1, <1>4, ExpansionSplits
  <2> QED  BY <2>1 DEF Splits
<1> DEFINE r == E(c)
           t == E(e)
<1>10. a \o (b \o (r \o t)) = ((a \o b) \o r) \o t
  <2> DEFINE ab == a \o b
  <2>1. a \in Seq(Piece) /\ b \in Seq(Piece) /\ r \in Seq(Piece) /\ t \in Seq(Piece)
    BY <1>1, <1>6 DEF Value
  <2> HIDE DEF r, t, ab
  <2>2. ab \in Seq(Piece) /\ r \o t \in Seq(Piece)
    BY <2>1 DEF ab
  <2> DEFINE rt == r \o t
  <2> HIDE DEF rt
  <2>3. Regroups(a, b, rt)
    BY <2>1, <2>2, ConcatRegroups DEF rt
  <2>4. Regroups(ab, r, t)
    BY <2>1, <2>2, ConcatRegroups
  <2> QED  BY <2>3, <2>4 DEF ab, rt, Regroups
<1> HIDE DEF E
<1>13. a \o E(Ahead(o, i)) = ((a \o b) \o E(c)) \o E(e)
  BY <1>1, <1>7, <1>8, <1>9, <1>10 DEF ce
<1>14. a \o E(Ahead(o, i)) = (Past(o, k) \o E(c)) \o E(e)
  BY <1>1, <1>13
<1> QED  BY <1>14 DEF E, a, c, e, Meant, MeantAround

(* A reference replaced by the expansion of what it stands for. *)
LEMMA Replaced ==
    ASSUME NEW tree, NEW dec, Sound(tree, dec), NEW n, NEW deeper, Deeper(dec, deeper),
           NEW o \in Value, NEW i \in 1..(Len(o) + 1), NEW k \in i..Len(o),
           \A x \in i..(k - 1) : ~Opening(o[x]), Usable(o[k]),
           NEW w \in ReferentIn(tree, dec, n, o[k]), NEW r \in Value, r = deeper[w]
    PROVE  Meant(tree, dec, deeper, n, Splice(o, k, r), k + Len(r))
             = Meant(tree, dec, deeper, n, o, i)
<1>1. k \in 1..Len(o) /\ o[k] \in Piece
  BY DEF Value
<1>2. ExpandedIn(tree, dec, deeper, n, <<o[k]>>) = r
  BY <1>1, ReferenceExpands
<1>3. /\ Past(Splice(o, k, r), k + Len(r)) = Past(o, k) \o r
      /\ Ahead(Splice(o, k, r), k + Len(r)) = Ahead(o, k + 1)
  BY <1>1, SplicedParts
<1>4. Meant(tree, dec, deeper, n, o, i) = MeantAround(tree, dec, deeper, n, o, k)
  BY ScanReaches
<1> QED  BY <1>2, <1>3, <1>4 DEF Meant, MeantAround

(* A reference that stands for nothing, left in place. *)
LEMMA LeftInPlace ==
    ASSUME NEW tree, NEW dec, Sound(tree, dec), NEW n, NEW deeper, Deeper(dec, deeper),
           NEW o \in Value, NEW i \in 1..(Len(o) + 1), NEW k \in i..Len(o),
           \A x \in i..(k - 1) : ~Opening(o[x]), Usable(o[k]),
           ReferentIn(tree, dec, n, o[k]) = {}
    PROVE  Meant(tree, dec, deeper, n, o, k + 1) = Meant(tree, dec, deeper, n, o, i)
<1>1. k \in 1..Len(o) /\ o[k] \in Piece
  BY DEF Value
<1>2. ExpandedIn(tree, dec, deeper, n, <<o[k]>>) = <<o[k]>>
  BY <1>1, ReferenceExpands
<1>3. Past(o, k + 1) = Past(o, k) \o <<o[k]>>
  BY ScannedParts
<1>4. Meant(tree, dec, deeper, n, o, i) = MeantAround(tree, dec, deeper, n, o, k)
  BY ScanReaches
<1> QED  BY <1>2, <1>3, <1>4 DEF Meant, MeantAround

(* The activation finds nothing more to replace. *)
Exhausted(f) == Pending(f) = 0 \/ ~Usable(f.out[Pending(f)])

(* Then what is ahead expands to itself, and the text is what it stands for. *)
LEMMA NothingLeft ==
    ASSUME NEW tree, NEW dec, NEW n, NEW deeper,
           NEW f, f.out \in Value, f.from \in 1..(Len(f.out) + 1), Exhausted(f)
    PROVE  Meant(tree, dec, deeper, n, f.out, f.from) = f.out
<1> DEFINE o == f.out
           i == f.from
           k == Pending(f)
           e == Ahead(o, i)
<1>1. /\ o \in Seq(Piece) /\ Len(o) \in Nat /\ i \in Nat /\ i >= 1 /\ i <= Len(o) + 1
      /\ i \in Int /\ Len(o) \in Int
  BY DEF Value
<1>2. \/ k = 0 /\ \A x \in i..Len(o) : ~Opening(o[x])
      \/ k \in i..Len(o) /\ k # 0 /\ Opening(o[k]) /\ \A x \in i..(k - 1) : ~Opening(o[x])
  BY PendingIs
<1>3. k \in i..Len(o) => Stuck(o[k])
  BY <1>1, <1>2 DEF Exhausted, Usable
<1> HIDE DEF k
<1>4. /\ e \in Seq(Piece) /\ Len(e) = (IF i <= Len(o) THEN Len(o) - i + 1 ELSE 0)
      /\ \A x \in 1..(Len(o) - i + 1) : e[x] = o[i + x - 1]
  <2>1. \A x \in i..Len(o) : o[x] \in Piece
    BY <1>1
  <2> HIDE DEF o, i
  <2>2. /\ SubSeq(o, i, Len(o)) \in Seq(Piece)
        /\ Len(SubSeq(o, i, Len(o))) = (IF i <= Len(o) THEN Len(o) - i + 1 ELSE 0)
        /\ \A x \in 1..(Len(o) - i + 1) : SubSeq(o, i, Len(o))[x] = o[i + x - 1]
    BY <1>1, <2>1, SubSeqProperties
  <2> QED  BY <2>2 DEF Ahead
<1>5. Past(o, i) \o e = o
  <2> HIDE DEF o, i
  <2>1. 1 \in 1..(Len(o) + 1) /\ i - 1 \in (1 - 1)..Len(o) /\ Len(o) \in (i - 1)..Len(o) /\ (i - 1) + 1 = i
    BY <1>1
  <2>2. SubSeq(o, 1, i - 1) \o SubSeq(o, (i - 1) + 1, Len(o)) = SubSeq(o, 1, Len(o))
    BY <1>1, <2>1, ConcatAdjacentSubSeq
  <2>3. SubSeq(o, 1, Len(o)) = o
    BY <1>1, SubSeqFull
  <2> QED  BY <2>1, <2>2, <2>3 DEF Past, Ahead
<1> HIDE DEF o, i, e
<1>6. \A x \in DOMAIN e : x \in 1..(Len(o) - i + 1) /\ i + x - 1 \in i..Len(o) /\ x \in Nat
  <2> TAKE x \in DOMAIN e
  <2>1. DOMAIN e = 1..Len(e)
    BY <1>4
  <2>2. x \in Int /\ 1 <= x /\ x <= Len(o) - i + 1
    BY <1>1, <1>4, <2>1
  <2> QED  BY <1>1, <2>2
<1>7. Inert(e)
  <2> SUFFICES ASSUME NEW x \in DOMAIN e, Usable(e[x]) PROVE \E y \in 1..x : Stuck(e[y])
    BY DEF Inert
  <2>1. e[x] = o[i + x - 1] /\ Opening(o[i + x - 1])
    BY <1>4, <1>6 DEF Usable, Opening
  <2>2. k \in i..Len(o) /\ ~(i + x - 1 \in i..(k - 1))
    BY <1>2, <1>6, <2>1
  <2>3. k - i + 1 \in 1..x /\ k - i + 1 \in 1..(Len(o) - i + 1) /\ i + (k - i + 1) - 1 = k
    BY <1>1, <1>6, <2>2
  <2>4. e[k - i + 1] = o[k]
    BY <1>4, <2>3
  <2> QED  BY <1>3, <2>2, <2>3, <2>4
<1>8. ExpandedIn(tree, dec, deeper, n, e) = e
  BY <1>4, <1>7, InertExpands DEF Value
<1>9. Past(o, i) \o ExpandedIn(tree, dec, deeper, n, e) = o
  BY <1>5, <1>8
<1> QED  BY <1>9 DEF o, i, e, Meant

-----------------------------------------------------------------------------
(* Type correctness *)

Frame == [out : Value, from : Nat, depth : Nat]

(* A caller resumed, field by field. *)
LEMMA ResumeIs ==
    ASSUME NEW f \in Frame, NEW k, NEW w
    PROVE  Resume(f, k, w) = [out |-> Splice(f.out, k, w), from |-> k + Len(w), depth |-> f.depth]
<1> DEFINE a == Splice(f.out, k, w)
           b == k + Len(w)
<1>1. Resume(f, k, w) = [f EXCEPT !.out = a, !.from = b]
  BY DEF Resume
<1> HIDE DEF a, b
<1> DEFINE g == [f EXCEPT !.out = a]
<1>2. [f EXCEPT !.out = a, !.from = b] = [g EXCEPT !.from = b]
  BY DEF Frame
<1>3. g = [out |-> a, from |-> f.from, depth |-> f.depth]
  BY DEF Frame
<1> HIDE DEF g
<1>4. [g EXCEPT !.from = b] = [out |-> a, from |-> b, depth |-> f.depth]
  BY <1>3
<1> QED  BY <1>1, <1>2, <1>4 DEF a, b

(* The activations: each but the innermost waits at a reference, and none is
   deeper than one past the cap. *)
Stack(s) ==
    /\ s \in Seq(Frame)
    /\ Len(s) <= maxVarDepth + 2
    /\ \A x \in DOMAIN s : s[x].from \in 1..(Len(s[x].out) + 1) /\ s[x].depth = x - 1
    /\ \A x \in DOMAIN s : x < Len(s) =>
          /\ s[x].depth <= maxVarDepth
          /\ Pending(s[x]) # 0
          /\ Usable(s[x].out[Pending(s[x])])

(* They work on an ordinary declaration. *)
Works ==
    frames # <<>> =>
        /\ node \in DOMAIN byNode
        /\ slot \in DOMAIN byNode[node]
        /\ byNode[node][slot].prop \notin CustomProperty

(* The inductive invariant of type correctness. *)
Typed ==
    /\ Sound(parent, declared)
    /\ Agrees(byNode, declared)
    /\ Stack(frames)
    /\ Works
    /\ node \in 1..(Len(parent) + 1)
    /\ slot \in Nat \ {0}

(* The maps now are as sound as those declared. *)
LEMMA AgreesSound ==
    ASSUME NEW tree, NEW dec, NEW m, Sound(tree, dec), Agrees(m, dec)
    PROVE  Sound(tree, m)
<1>1. ASSUME NEW n \in DOMAIN m
      PROVE  m[n] \in Seq(SlotOf) /\ OneLive(m[n])
  <2>1. m[n] \in Seq(SlotOf) /\ dec[n] \in Seq(SlotOf) /\ Len(m[n]) = Len(dec[n]) /\ OneLive(dec[n])
    BY <1>1 DEF Agrees, Sound
  <2>2. DOMAIN m[n] = DOMAIN dec[n]
    BY <2>1
  <2>3. \A x \in DOMAIN dec[n] : m[n][x].prop = dec[n][x].prop /\ m[n][x].dead = dec[n][x].dead
    BY <1>1 DEF Agrees
  <2> QED  BY <2>1, <2>2, <2>3 DEF OneLive
<1> QED  BY <1>1 DEF Sound, Agrees

(* The slots of the maps, one fact at a time. *)
LEMMA SlotsAre ==
    ASSUME Typed
    PROVE  /\ DOMAIN byNode = DOMAIN declared /\ DOMAIN byNode \subseteq DOMAIN parent
           /\ DOMAIN parent = 1..Len(parent) /\ Len(parent) \in Nat /\ node \in Nat
           /\ \A n \in DOMAIN byNode :
                 /\ byNode[n] \in Seq(SlotOf) /\ declared[n] \in Seq(SlotOf)
                 /\ Len(byNode[n]) \in Nat /\ Len(byNode[n]) = Len(declared[n])
                 /\ DOMAIN byNode[n] = 1..Len(byNode[n]) /\ DOMAIN declared[n] = DOMAIN byNode[n]
                 /\ \A x \in DOMAIN byNode[n] :
                       /\ byNode[n][x] \in SlotOf /\ byNode[n][x].value \in Value
                       /\ declared[n][x] \in SlotOf /\ declared[n][x].value \in Value
                       /\ declared[n][x].value \in TextsOf(declared)
                       /\ byNode[n][x].prop = declared[n][x].prop
<1>1. /\ DOMAIN byNode = DOMAIN declared /\ DOMAIN byNode \subseteq DOMAIN parent
      /\ parent \in Seq(Nat) /\ node \in 1..(Len(parent) + 1)
  BY DEF Typed, Sound, Agrees
<1>2. DOMAIN parent = 1..Len(parent) /\ Len(parent) \in Nat /\ node \in Nat
  BY <1>1
<1>3. ASSUME NEW n \in DOMAIN byNode
      PROVE  /\ byNode[n] \in Seq(SlotOf) /\ declared[n] \in Seq(SlotOf)
             /\ Len(byNode[n]) \in Nat /\ Len(byNode[n]) = Len(declared[n])
             /\ DOMAIN byNode[n] = 1..Len(byNode[n]) /\ DOMAIN declared[n] = DOMAIN byNode[n]
  <2>1. byNode[n] \in Seq(SlotOf) /\ declared[n] \in Seq(SlotOf) /\ Len(byNode[n]) = Len(declared[n])
    BY <1>1, <1>3 DEF Typed, Sound, Agrees
  <2> QED  BY <2>1
<1>4. ASSUME NEW n \in DOMAIN byNode, NEW x \in DOMAIN byNode[n]
      PROVE  /\ byNode[n][x] \in SlotOf /\ byNode[n][x].value \in Value
             /\ declared[n][x] \in SlotOf /\ declared[n][x].value \in Value
             /\ declared[n][x].value \in TextsOf(declared)
             /\ byNode[n][x].prop = declared[n][x].prop
  <2>1. byNode[n][x] \in SlotOf /\ declared[n][x] \in SlotOf
    BY <1>3, <1>4, ElementOfSeq
  <2>2. byNode[n][x].value \in Value /\ declared[n][x].value \in Value
    BY <2>1 DEF SlotOf
  <2>3. declared[n][x].value \in {declared[n][y].value : y \in DOMAIN declared[n]}
    BY <1>3, <1>4
  <2>4. declared[n][x].value \in TextsOf(declared)
    BY <1>1, <1>4, <2>3 DEF TextsOf, DeclaredIn
  <2>5. byNode[n][x].prop = declared[n][x].prop
    BY <1>1, <1>3, <1>4 DEF Typed, Agrees
  <2> QED  BY <2>1, <2>2, <2>4, <2>5
<1> QED  BY <1>1, <1>2, <1>3, <1>4

(* The activations, one fact at a time. *)
LEMMA StackIs ==
    ASSUME NEW s, Stack(s)
    PROVE  /\ Len(s) \in Nat /\ DOMAIN s = 1..Len(s)
           /\ \A x \in DOMAIN s : /\ s[x] \in Frame /\ s[x].out \in Value /\ s[x].from \in Nat
                                  /\ s[x].from \in 1..(Len(s[x].out) + 1) /\ s[x].depth = x - 1
           /\ s # <<>> => Len(s) \in DOMAIN s /\ Len(s) # 0 /\ Last(s) = s[Len(s)]
<1>1. s \in Seq(Frame) /\ Len(s) \in Nat /\ DOMAIN s = 1..Len(s)
  BY DEF Stack
<1>2. \A x \in DOMAIN s : s[x] \in Frame
  BY <1>1, ElementOfSeq
<1>3. \A x \in DOMAIN s : s[x].out \in Value /\ s[x].from \in Nat
  BY <1>2 DEF Frame
<1>4. s # <<>> => Len(s) # 0
  BY <1>1
<1> QED  BY <1>1, <1>2, <1>3, <1>4 DEF Stack, Last

(* The activations with another innermost one. *)
Topped(s, g) == [s EXCEPT ![Len(s)] = g]

(* The innermost activation may be replaced by one of the same depth. *)
LEMMA TopReplaced ==
    ASSUME NEW s, Stack(s), s # <<>>, NEW g \in Frame,
           g.from \in 1..(Len(g.out) + 1), g.depth = Len(s) - 1
    PROVE  /\ Stack(Topped(s, g)) /\ Len(Topped(s, g)) = Len(s) /\ Topped(s, g)[Len(s)] = g
           /\ \A x \in DOMAIN s : x < Len(s) => Topped(s, g)[x] = s[x]
<1> DEFINE t == Topped(s, g)
<1>1. Len(s) \in Nat /\ DOMAIN s = 1..Len(s) /\ Len(s) \in DOMAIN s /\ s \in Seq(Frame)
  BY StackIs DEF Stack
<1>2. t \in Seq(Frame) /\ Len(t) = Len(s) /\ DOMAIN t = 1..Len(s)
  BY <1>1 DEF Topped
<1>3. t[Len(s)] = g /\ \A x \in DOMAIN s : x < Len(s) => t[x] = s[x]
  BY <1>1 DEF Topped
<1> HIDE DEF t
<1>4. \A x \in DOMAIN s : x = Len(s) \/ x < Len(s)
  BY <1>1
<1>5. Stack(t)
  BY <1>1, <1>2, <1>3, <1>4 DEF Stack
<1> QED  BY <1>2, <1>3, <1>5 DEF t

(* The caller's activations are what is left when one returns. *)
LEMMA CallersAre ==
    ASSUME NEW s, Stack(s), Len(s) > 1
    PROVE  /\ Stack(Front(s)) /\ Len(Front(s)) = Len(s) - 1 /\ Front(s) # <<>>
           /\ \A x \in DOMAIN s : x < Len(s) => x \in DOMAIN Front(s) /\ Front(s)[x] = s[x]
<1> DEFINE r == SubSeq(s, 1, Len(s) - 1)
<1>1. /\ Len(s) \in Nat /\ DOMAIN s = 1..Len(s) /\ s \in Seq(Frame)
      /\ \A x \in 1..(Len(s) - 1) : s[x] \in Frame
  BY StackIs DEF Stack
<1>2. /\ r \in Seq(Frame) /\ Len(r) = Len(s) - 1
      /\ \A x \in 1..(Len(s) - 1) : r[x] = s[x]
  <2>1. /\ r \in Seq(Frame) /\ Len(r) = (IF 1 <= Len(s) - 1 THEN (Len(s) - 1) - 1 + 1 ELSE 0)
        /\ \A x \in 1..((Len(s) - 1) - 1 + 1) : r[x] = s[1 + x - 1]
    BY <1>1, SubSeqProperties
  <2> HIDE DEF r
  <2>2. (Len(s) - 1) - 1 + 1 = Len(s) - 1 /\ 1 <= Len(s) - 1
    BY <1>1
  <2>3. \A x \in 1..(Len(s) - 1) : 1 + x - 1 = x
    BY <1>1
  <2> QED  BY <2>1, <2>2, <2>3
<1>3. Front(s) = r
  BY DEF Front
<1> HIDE DEF r
<1>4. DOMAIN r = 1..(Len(s) - 1) /\ r # <<>>
  BY <1>1, <1>2
<1>5. \A x \in DOMAIN s : x < Len(s) => x \in DOMAIN r /\ r[x] = s[x]
  BY <1>1, <1>2, <1>4
<1>6. Stack(r)
  <2>1. \A x \in DOMAIN r : x \in DOMAIN s /\ x < Len(s) /\ r[x] = s[x]
    BY <1>1, <1>2, <1>4
  <2>2. Len(r) <= maxVarDepth + 2
    BY <1>1, <1>2, PagesAssumption DEF Stack
  <2> QED  BY <1>2, <2>1, <2>2 DEF Stack
<1> QED  BY <1>2, <1>3, <1>4, <1>5, <1>6

(* One activation more is started at a reference that waits for it. *)
LEMMA Pushed ==
    ASSUME NEW s, Stack(s), s # <<>>, Last(s).depth <= maxVarDepth,
           Pending(Last(s)) # 0, Usable(Last(s).out[Pending(Last(s))]),
           NEW v \in Value
    PROVE  LET t == Append(s, Activation(v, Last(s).depth + 1))
           IN /\ Stack(t) /\ Len(t) = Len(s) + 1 /\ t[Len(s) + 1] = Activation(v, Len(s))
              /\ \A x \in DOMAIN s : t[x] = s[x]
<1> DEFINE t == Append(s, Activation(v, Last(s).depth + 1))
           g == Activation(v, Last(s).depth + 1)
<1>1. /\ Len(s) \in Nat /\ DOMAIN s = 1..Len(s) /\ Len(s) \in DOMAIN s /\ s \in Seq(Frame)
      /\ Last(s) = s[Len(s)] /\ s[Len(s)].depth = Len(s) - 1
  BY StackIs DEF Stack
<1>2. Last(s).depth + 1 = Len(s)
  BY <1>1
<1>3. /\ g = Activation(v, Len(s)) /\ g \in Frame /\ g.out = v /\ g.from = 1 /\ g.depth = Len(s)
      /\ g.from \in 1..(Len(g.out) + 1)
  <2>1. Len(v) \in Nat
    BY DEF Value
  <2> QED  BY <1>1, <1>2, <2>1 DEF Activation, Frame
<1> HIDE DEF g
<1>4. /\ t \in Seq(Frame) /\ Len(t) = Len(s) + 1 /\ t[Len(s) + 1] = g
      /\ \A x \in DOMAIN s : t[x] = s[x]
  <2>1. \A a \in Seq(Frame) : \A b \in Frame :
           /\ Append(a, b) \in Seq(Frame) /\ Len(Append(a, b)) = Len(a) + 1
           /\ Append(a, b)[Len(a) + 1] = b /\ \A x \in 1..Len(a) : Append(a, b)[x] = a[x]
    OBVIOUS
  <2>2. t = Append(s, g)
    BY DEF g
  <2> QED  BY <1>1, <1>3, <2>1, <2>2
<1> HIDE DEF t
<1>5. /\ DOMAIN t = 1..(Len(s) + 1) /\ \A x \in DOMAIN t : x = Len(s) + 1 \/ x \in DOMAIN s
      /\ (Len(s) + 1) - 1 = Len(s)
  BY <1>1, <1>4
<1>6. Len(t) <= maxVarDepth + 2
  BY <1>1, <1>2, <1>4, PagesAssumption
<1>7. \A x \in DOMAIN t : t[x].from \in 1..(Len(t[x].out) + 1) /\ t[x].depth = x - 1
  BY <1>3, <1>4, <1>5 DEF Stack
<1>8. ASSUME NEW x \in DOMAIN t, x < Len(t)
      PROVE  /\ t[x].depth <= maxVarDepth /\ Pending(t[x]) # 0
             /\ Usable(t[x].out[Pending(t[x])])
  <2>1. x \in DOMAIN s /\ (x = Len(s) \/ x < Len(s)) /\ t[x] = s[x]
    BY <1>1, <1>4, <1>5, <1>8
  <2> QED  BY <1>1, <2>1 DEF Stack
<1>9. Stack(t)
  BY <1>4, <1>6, <1>7, <1>8 DEF Stack
<1> QED  BY <1>3, <1>4, <1>9 DEF t

(* The next reference, found by the innermost activation. *)
LEMMA FoundIs ==
    ASSUME Typed, frames # <<>>
    PROVE  /\ F = Last(frames) /\ F \in Frame /\ F.out \in Value /\ F.from \in 1..(Len(F.out) + 1)
           /\ F.depth = Len(frames) - 1 /\ F.from \in Nat /\ Len(F.out) \in Nat
           /\ at = Pending(F)
           /\ Found => /\ at # 0 /\ Usable(F.out[at]) /\ F.out[at] \in Piece
                       /\ at \in F.from..Len(F.out) /\ at + 1 \in 1..(Len(F.out) + 1)
                       /\ \A x \in F.from..(at - 1) : ~Opening(F.out[x])
           /\ ~Found => Exhausted(F)
<1>1. /\ F = Last(frames) /\ F \in Frame /\ F.out \in Value /\ F.from \in 1..(Len(F.out) + 1)
      /\ F.depth = Len(frames) - 1 /\ F.from \in Nat
  BY StackIs DEF Typed, F
<1>2. at = Pending(F)
  BY DEF at, Pending
<1>3. \/ Pending(F) = 0
      \/ Pending(F) \in F.from..Len(F.out) /\ \A x \in F.from..(Pending(F) - 1) : ~Opening(F.out[x])
  BY <1>1, PendingIs
<1>4. Len(F.out) \in Nat /\ \A x \in 1..Len(F.out) : F.out[x] \in Piece
  BY <1>1 DEF Value
<1>5. ASSUME Found
      PROVE  /\ at # 0 /\ Usable(F.out[at]) /\ F.out[at] \in Piece
             /\ at \in F.from..Len(F.out) /\ at + 1 \in 1..(Len(F.out) + 1)
             /\ \A x \in F.from..(at - 1) : ~Opening(F.out[x])
  <2>1. at # 0 /\ Usable(F.out[at])
    BY <1>5 DEF Found
  <2>2. at \in F.from..Len(F.out) /\ \A x \in F.from..(at - 1) : ~Opening(F.out[x])
    BY <1>2, <1>3, <2>1
  <2>3. at \in 1..Len(F.out) /\ at + 1 \in 1..(Len(F.out) + 1)
    BY <1>1, <1>4, <2>2
  <2> QED  BY <1>4, <2>1, <2>2, <2>3
<1>6. ~Found => Exhausted(F)
  BY <1>2 DEF Found, Exhausted
<1> QED  BY <1>1, <1>2, <1>4, <1>5, <1>6

(* What the activation that returns leaves: its caller, resumed. *)
LEMMA Returned ==
    ASSUME Typed, ReturnToCaller
    PROVE  LET l == Len(frames)
               c == frames[l - 1]
               g == [out |-> Splice(c.out, Pending(c), F.out),
                     from |-> Pending(c) + Len(F.out), depth |-> c.depth]
           IN /\ l - 1 \in DOMAIN frames /\ c.depth = l - 2 /\ c.depth <= maxVarDepth
              /\ Pending(c) \in c.from..Len(c.out) /\ Usable(c.out[Pending(c)])
              /\ \A x \in c.from..(Pending(c) - 1) : ~Opening(c.out[x])
              /\ Stack(frames') /\ Len(frames') = l - 1 /\ frames'[l - 1] = g
              /\ \A x \in DOMAIN frames : x < l - 1 => frames'[x] = frames[x]
<1> DEFINE l == Len(frames)
           c == frames[l - 1]
           k == Pending(c)
           g == [out |-> Splice(c.out, k, F.out), from |-> k + Len(F.out), depth |-> c.depth]
           below == Front(frames)
<1>1. Stack(frames) /\ l > 1 /\ frames # <<>> /\ l \in Nat /\ DOMAIN frames = 1..l
  BY StackIs DEF Typed, ReturnToCaller, Returns
<1>2. /\ l - 1 \in DOMAIN frames /\ l - 1 < l /\ c \in Frame /\ c.out \in Value /\ c.from \in Nat
      /\ c.from \in 1..(Len(c.out) + 1) /\ c.depth = l - 2
  <2>1. l - 1 \in DOMAIN frames /\ l - 1 < l
    BY <1>1
  <2>2. c \in Frame /\ c.out \in Value /\ c.from \in Nat
        /\ c.from \in 1..(Len(c.out) + 1) /\ c.depth = (l - 1) - 1
    BY <1>1, <2>1, StackIs
  <2> QED  BY <1>1, <2>1, <2>2
<1>3. /\ c.depth <= maxVarDepth /\ k # 0 /\ Usable(c.out[k])
  BY <1>1, <1>2 DEF Stack
<1>4. k \in c.from..Len(c.out) /\ \A x \in c.from..(k - 1) : ~Opening(c.out[x])
  BY <1>2, <1>3, PendingIs
<1>5. F.out \in Value /\ Len(F.out) \in Nat
  BY <1>1, FoundIs
<1>6. k \in 1..Len(c.out) /\ k \in Nat
  BY <1>2, <1>4
<1>7. /\ Splice(c.out, k, F.out) \in Value
      /\ k + Len(F.out) \in 1..(Len(Splice(c.out, k, F.out)) + 1)
  BY <1>2, <1>5, <1>6, SplicedParts
<1>8. /\ Stack(below) /\ Len(below) = l - 1 /\ below # <<>>
      /\ \A x \in DOMAIN frames : x < l => x \in DOMAIN below /\ below[x] = frames[x]
  BY <1>1, CallersAre
<1>9. Last(below) = c /\ below[Len(below)] = c
  <2>1. Last(below) = below[Len(below)]
    BY <1>8, StackIs
  <2> QED  BY <1>2, <1>8, <2>1
<1>10. frames' = [below EXCEPT ![Len(below)] = Resume(c, k, F.out)]
  BY <1>9 DEF ReturnToCaller
<1>11. Resume(c, k, F.out) = g
  BY <1>2, ResumeIs
<1>12. g \in Frame /\ g.from \in 1..(Len(g.out) + 1) /\ g.depth = Len(below) - 1
  <2>1. k + Len(F.out) \in Nat
    BY <1>5, <1>6
  <2>2. c.depth \in Nat
    BY <1>2 DEF Frame
  <2>3. c.depth = (l - 1) - 1
    BY <1>1, <1>2
  <2> HIDE DEF c, k
  <2> QED  BY <1>7, <1>8, <2>1, <2>2, <2>3 DEF Frame
<1> HIDE DEF g
<1>13. frames' = Topped(below, g)
  BY <1>10, <1>11 DEF Topped
<1> HIDE DEF below, c, k
<1>14. /\ Stack(frames') /\ Len(frames') = Len(below) /\ frames'[Len(below)] = g
       /\ \A x \in DOMAIN below : x < Len(below) => frames'[x] = below[x]
  BY <1>8, <1>12, <1>13, TopReplaced
<1>15. \A x \in DOMAIN frames : x < l - 1 => frames'[x] = frames[x]
  <2> TAKE x \in DOMAIN frames
  <2>1. x < l - 1 => x < l
    BY <1>1
  <2> QED  BY <1>8, <1>14, <2>1
<1> QED  BY <1>2, <1>3, <1>4, <1>8, <1>14, <1>15 DEF g, c, k

(* What a step leaves that passes over a reference. *)
LEMMA PassedOver ==
    ASSUME Typed, PassOver
    PROVE  LET l == Len(frames)
               g == [out |-> F.out, from |-> at + 1, depth |-> F.depth]
           IN /\ Stack(frames') /\ Len(frames') = l /\ frames'[l] = g
              /\ \A x \in DOMAIN frames : x < l => frames'[x] = frames[x]
<1> DEFINE l == Len(frames)
           f == F
           g == [out |-> f.out, from |-> at + 1, depth |-> f.depth]
<1>1. Stack(frames) /\ frames # <<>> /\ Found
  BY DEF Typed, PassOver
<1>2. /\ f = frames[l] /\ f \in Frame /\ f.out \in Value /\ f.depth = l - 1
      /\ at + 1 \in 1..(Len(f.out) + 1) /\ l \in DOMAIN frames
  BY <1>1, FoundIs, StackIs
<1>3. at + 1 \in Nat
  BY <1>2
<1>4. [f EXCEPT !.from = at + 1] = g
  <2> DEFINE y == at + 1
  <2> HIDE DEF f, y
  <2>1. [f EXCEPT !.from = y] = [out |-> f.out, from |-> y, depth |-> f.depth]
    BY <1>2 DEF Frame
  <2> QED  BY <2>1 DEF y
<1>5. g \in Frame /\ g.out = f.out /\ g.from = at + 1 /\ g.depth = f.depth
  BY <1>2, <1>3 DEF Frame
<1>6. frames' = Topped(frames, g)
  <2> DEFINE y == at + 1
  <2>1. frames' = [frames EXCEPT ![l].from = y]
    BY DEF PassOver
  <2>2. [frames EXCEPT ![l].from = y] = [frames EXCEPT ![l] = [frames[l] EXCEPT !.from = y]]
    <3> HIDE DEF y, l
    <3> QED  OBVIOUS
  <2>3. [frames[l] EXCEPT !.from = y] = g
    BY <1>2, <1>4
  <2> HIDE DEF y, g
  <2> QED  BY <2>1, <2>2, <2>3 DEF Topped
<1> HIDE DEF g
<1>7. /\ Stack(Topped(frames, g)) /\ Len(Topped(frames, g)) = l /\ Topped(frames, g)[l] = g
      /\ \A x \in DOMAIN frames : x < l => Topped(frames, g)[x] = frames[x]
  BY <1>1, <1>2, <1>5, TopReplaced
<1> QED  BY <1>6, <1>7 DEF g

(* What a step leaves that descends. *)
LEMMA Descended ==
    ASSUME Typed, Descend
    PROVE  \E v \in ReferentIn(parent, byNode, node, F.out[at]) \intersect Value :
              LET l == Len(frames)
              IN /\ Stack(frames') /\ Len(frames') = l + 1 /\ frames'[l + 1] = Activation(v, l)
                 /\ \A x \in DOMAIN frames : frames'[x] = frames[x]
<1>1. Stack(frames) /\ frames # <<>> /\ Found /\ F.depth <= maxVarDepth
  <2>1. ~(F.depth > maxVarDepth) /\ F.depth \in Nat /\ maxVarDepth \in Nat
    BY FoundIs, PagesAssumption DEF Descend, CapReached, Frame
  <2> QED  BY <2>1 DEF Typed, Descend
<1>2. PICK v \in Referent(byNode, node, F.out[at]) : frames' = Append(frames, Activation(v, F.depth + 1))
  BY DEF Descend
<1>3. F = Last(frames) /\ at = Pending(F) /\ Usable(F.out[at]) /\ F.out[at] \in Piece /\ at # 0
  BY <1>1, FoundIs
<1>4. v \in ReferentIn(parent, byNode, node, F.out[at])
  BY <1>2, ReadsState
<1>5. Sound(parent, byNode)
  BY AgreesSound DEF Typed
<1>6. v \in Value
  BY <1>3, <1>4, <1>5, ReferentIs
<1>7. LET t == Append(frames, Activation(v, Last(frames).depth + 1))
      IN /\ Stack(t) /\ Len(t) = Len(frames) + 1 /\ t[Len(frames) + 1] = Activation(v, Len(frames))
         /\ \A x \in DOMAIN frames : t[x] = frames[x]
  BY <1>1, <1>3, <1>6, Pushed
<1>8. frames' = Append(frames, Activation(v, Last(frames).depth + 1))
  BY <1>2, <1>3
<1>9. /\ Stack(frames') /\ Len(frames') = Len(frames) + 1
      /\ frames'[Len(frames) + 1] = Activation(v, Len(frames))
      /\ \A x \in DOMAIN frames : frames'[x] = frames[x]
  BY <1>7, <1>8
<1> QED  BY <1>4, <1>6, <1>9

(* What a step leaves that ends the work on a slot. *)
LEMMA SlotFinished ==
    ASSUME Typed, FinishSlot
    PROVE  /\ Agrees(byNode', declared)
           /\ node \in DOMAIN byNode /\ slot \in DOMAIN byNode[node]
           /\ byNode'[node][slot].value = F.out
           /\ \A n \in DOMAIN byNode : \A x \in DOMAIN byNode[n] :
                 n # node \/ x # slot => byNode'[n][x] = byNode[n][x]
<1> DEFINE m == byNode'
           w == F.out
<1>1. frames # <<>> /\ node \in DOMAIN byNode /\ slot \in DOMAIN byNode[node]
      /\ byNode[node][slot].prop \notin CustomProperty
  BY DEF FinishSlot, Returns, Typed, Works
<1>2. w \in Value
  BY <1>1, FoundIs
<1> HIDE DEF w
<1>3. m = [byNode EXCEPT ![node] = [byNode[node] EXCEPT ![slot] = [byNode[node][slot] EXCEPT !.value = w]]]
  <2>1. m = [byNode EXCEPT ![node][slot].value = w]
    BY DEF FinishSlot, w
  <2> HIDE DEF m
  <2> QED  BY <2>1
<1> HIDE DEF m
<1> DEFINE r == [byNode[node][slot] EXCEPT !.value = w]
           q == [byNode[node] EXCEPT ![slot] = r]
<1>4. /\ r \in SlotOf /\ r.value = w /\ r.prop = byNode[node][slot].prop
      /\ r.dead = byNode[node][slot].dead
  <2>1. byNode[node][slot] \in SlotOf
    BY <1>1, SlotsAre
  <2> QED  BY <1>2, <2>1 DEF SlotOf
<1> HIDE DEF r
<1>5. /\ q \in Seq(SlotOf) /\ Len(q) = Len(byNode[node]) /\ DOMAIN q = DOMAIN byNode[node]
      /\ q[slot] = r /\ \A x \in DOMAIN byNode[node] : x # slot => q[x] = byNode[node][x]
  <2>1. byNode[node] \in Seq(SlotOf)
    BY <1>1, SlotsAre
  <2> DEFINE u == byNode[node]
  <2> HIDE DEF u
  <2>2. /\ [u EXCEPT ![slot] = r] \in Seq(SlotOf) /\ Len([u EXCEPT ![slot] = r]) = Len(u)
        /\ DOMAIN [u EXCEPT ![slot] = r] = DOMAIN u /\ [u EXCEPT ![slot] = r][slot] = r
        /\ \A x \in DOMAIN u : x # slot => [u EXCEPT ![slot] = r][x] = u[x]
    BY <1>1, <1>4, <2>1 DEF u
  <2> QED  BY <2>2 DEF u
<1>6. m = [byNode EXCEPT ![node] = q]
  BY <1>3 DEF r
<1> HIDE DEF q
<1>7. /\ DOMAIN m = DOMAIN byNode /\ m[node] = q
      /\ \A n \in DOMAIN byNode : n # node => m[n] = byNode[n]
  BY <1>1, <1>6
<1>8. Agrees(m, declared)
  <2>1. ASSUME NEW n \in DOMAIN declared
        PROVE  /\ m[n] \in Seq(SlotOf) /\ Len(m[n]) = Len(declared[n])
               /\ \A x \in DOMAIN declared[n] :
                     /\ m[n][x].prop = declared[n][x].prop
                     /\ m[n][x].dead = declared[n][x].dead
                     /\ declared[n][x].prop \in CustomProperty => m[n][x].value = declared[n][x].value
    <3>1. n \in DOMAIN byNode /\ DOMAIN byNode[n] = DOMAIN declared[n]
      BY <2>1, SlotsAre
    <3>2. /\ byNode[n] \in Seq(SlotOf) /\ Len(byNode[n]) = Len(declared[n])
          /\ \A x \in DOMAIN declared[n] :
                /\ byNode[n][x].prop = declared[n][x].prop
                /\ byNode[n][x].dead = declared[n][x].dead
                /\ declared[n][x].prop \in CustomProperty => byNode[n][x].value = declared[n][x].value
      BY <2>1 DEF Typed, Agrees
    <3>3. CASE n # node
      BY <1>7, <3>1, <3>2, <3>3
    <3>4. CASE n = node
      <4>1. ASSUME NEW x \in DOMAIN declared[n]
            PROVE  /\ q[x].prop = declared[n][x].prop
                   /\ q[x].dead = declared[n][x].dead
                   /\ declared[n][x].prop \in CustomProperty => q[x].value = declared[n][x].value
        <5>1. CASE x = slot
          BY <1>1, <1>4, <1>5, <3>2, <3>4, <4>1, <5>1
        <5>2. CASE x # slot
          BY <1>5, <3>1, <3>2, <3>4, <4>1, <5>2
        <5> QED  BY <5>1, <5>2
      <4> QED  BY <1>5, <1>7, <3>2, <3>4, <4>1
    <3> QED  BY <3>3, <3>4
  <2>2. DOMAIN m = DOMAIN declared
    BY <1>7, SlotsAre
  <2> QED  BY <2>1, <2>2 DEF Agrees
<1>9. m[node][slot].value = w
  BY <1>4, <1>5, <1>7
<1>10. ASSUME NEW n \in DOMAIN byNode, NEW x \in DOMAIN byNode[n], n # node \/ x # slot
       PROVE  m[n][x] = byNode[n][x]
  BY <1>5, <1>7, <1>10
<1> QED  BY <1>1, <1>8, <1>9, <1>10 DEF m, w

(* Resolution starts with the maps declared. *)
LEMMA TypedInit ==
    ASSUME Init
    PROVE  Typed
<1>1. PICK p \in Pages : parent = p.parent /\ declared = p.byNode
  BY DEF Init
<1>2. IsPage(p)
  BY <1>1, PagesAssumption
<1>3. Sound(parent, declared)
  BY <1>1, <1>2 DEF IsPage, Sound, OneLive
<1>4. Agrees(byNode, declared)
  BY <1>3 DEF Init, Agrees, Sound
<1>5. Stack(frames)
  <2>1. frames = <<>> /\ <<>> \in Seq(Frame) /\ Len(<<>>) = 0 /\ DOMAIN <<>> = {}
    BY DEF Init
  <2>2. 0 <= maxVarDepth + 2
    BY PagesAssumption
  <2> QED  BY <2>1, <2>2 DEF Stack
<1>6. node \in 1..(Len(parent) + 1) /\ slot \in Nat \ {0}
  <2>1. Len(parent) \in Nat
    BY <1>3 DEF Sound
  <2> QED  BY <2>1 DEF Init
<1> QED  BY <1>3, <1>4, <1>5, <1>6 DEF Typed, Works, Init

(* Every step keeps the shape of the state. *)
LEMMA TypedStep ==
    ASSUME Typed, [Next]_vars
    PROVE  Typed'
<1>1. /\ Sound(parent, declared) /\ Agrees(byNode, declared) /\ Stack(frames) /\ Works
      /\ node \in 1..(Len(parent) + 1) /\ slot \in Nat \ {0} /\ slot \in Nat
  BY DEF Typed
<1>2. Len(parent) \in Nat /\ DOMAIN parent = 1..Len(parent) /\ slot + 1 \in Nat \ {0}
  BY <1>1, SlotsAre
<1>3. CASE NextNode
  <2>1. frames' = <<>> /\ Stack(frames')
    BY <1>1, <1>3 DEF NextNode, Idle
  <2>2. node' \in 1..(Len(parent) + 1) /\ slot' \in Nat \ {0}
    BY <1>1, <1>2, <1>3 DEF NextNode, Idle
  <2> QED  BY <1>1, <1>3, <2>1, <2>2 DEF Typed, Works, NextNode
<1>4. CASE SkipSlot
  <2>1. frames' = <<>> /\ Stack(frames')
    BY <1>1, <1>4 DEF SkipSlot, Idle
  <2> QED  BY <1>1, <1>2, <1>4, <2>1 DEF Typed, Works, SkipSlot
<1>5. CASE StartSlot
  <2>1. slot \in 1..Len(Slots) /\ node \in DOMAIN byNode /\ slot \in DOMAIN byNode[node]
        /\ byNode[node][slot].prop \notin CustomProperty
    <3>1. slot <= Len(Slots) /\ slot >= 1
      BY <1>1, <1>5 DEF StartSlot
    <3>2. node \in DOMAIN byNode
      <4>1. node \notin DOMAIN byNode => Len(Slots) = 0
        BY DEF Slots
      <4> QED  BY <1>1, <3>1, <4>1
    <3>3. Slots = byNode[node] /\ Len(byNode[node]) \in Nat
          /\ DOMAIN byNode[node] = 1..Len(byNode[node])
      BY <3>2, SlotsAre DEF Slots
    <3>4. slot \in 1..Len(byNode[node])
      BY <1>1, <3>1, <3>3
    <3>5. byNode[node][slot].prop \notin CustomProperty
      BY <1>5 DEF StartSlot, Eligible, Current
    <3> QED  BY <3>2, <3>3, <3>4, <3>5
  <2>2. Stack(frames')
    <3> DEFINE g == Activation(byNode[node][slot].value, 0)
    <3>1. byNode[node][slot].value \in Value
      BY <2>1, SlotsAre
    <3>2. g \in Frame /\ g.from \in 1..(Len(g.out) + 1) /\ g.depth = 0
      <4>1. Len(byNode[node][slot].value) \in Nat
        BY <3>1 DEF Value
      <4> QED  BY <3>1, <4>1 DEF Activation, Frame
    <3>3. frames' = <<g>>
      BY <1>5 DEF StartSlot, Current
    <3> HIDE DEF g
    <3>4. /\ <<g>> \in Seq(Frame) /\ Len(<<g>>) = 1 /\ DOMAIN <<g>> = {1} /\ <<g>>[1] = g
      BY <3>2
    <3>5. 1 <= maxVarDepth + 2 /\ 1 - 1 = 0 /\ ~(1 < 1)
      BY PagesAssumption
    <3> QED  BY <3>2, <3>3, <3>4, <3>5 DEF Stack
  <2> QED  BY <1>1, <1>5, <2>1, <2>2 DEF Typed, Works, StartSlot
<1>6. CASE ReturnToCaller
  <2>1. Stack(frames')
    BY <1>6, Returned
  <2>2. frames # <<>>
    BY <1>6 DEF ReturnToCaller, Returns
  <2> QED  BY <1>1, <1>6, <2>1, <2>2 DEF Typed, Works, ReturnToCaller
<1>7. CASE FinishSlot
  <2>1. Agrees(byNode', declared)
    BY <1>7, SlotFinished
  <2>2. frames' = <<>> /\ Stack(frames')
    <3>1. <<>> \in Seq(Frame) /\ Len(<<>>) = 0 /\ DOMAIN <<>> = {} /\ 0 <= maxVarDepth + 2
      BY PagesAssumption
    <3> QED  BY <1>7, <3>1 DEF FinishSlot, Stack
  <2> QED  BY <1>1, <1>2, <1>7, <2>1, <2>2 DEF Typed, Works, FinishSlot
<1>8. CASE Descend
  <2>1. Stack(frames')
    BY <1>8, Descended
  <2> QED  BY <1>1, <1>8, <2>1 DEF Typed, Works, Descend
<1>9. CASE PassOver
  <2>1. Stack(frames')
    BY <1>9, PassedOver
  <2> QED  BY <1>1, <1>9, <2>1 DEF Typed, Works, PassOver
<1>10. CASE UNCHANGED vars
  BY <1>1, <1>10 DEF Typed, Works, vars
<1>11. CASE Done
  BY <1>10, <1>11 DEF Done
<1> QED  BY <1>3, <1>4, <1>5, <1>6, <1>7, <1>8, <1>9, <1>10, <1>11 DEF Next

(* The shape of the state in every reachable state: whatever custom properties
   refer to one another, substitute nests no deeper than one activation past
   the cap, and its positions stay within the text. *)
THEOREM TypeCorrect == Spec => []TypeOK
<1>1. Init => Typed
  BY TypedInit
<1>2. Typed /\ [Next]_vars => Typed'
  BY TypedStep
<1>3. Typed => TypeOK
  <2> SUFFICES ASSUME Typed PROVE TypeOK
    OBVIOUS
  <2>1. Stack(frames) /\ node \in 1..(Len(parent) + 1) /\ slot \in Nat \ {0}
    BY DEF Typed
  <2>2. DOMAIN byNode = DOMAIN declared
        /\ \A n \in DOMAIN byNode : byNode[n] \in Seq(SlotOf) /\ Len(byNode[n]) = Len(declared[n])
    BY SlotsAre
  <2>3. \A x \in DOMAIN frames : /\ frames[x].out \in Value
                                 /\ frames[x].from \in 1..(Len(frames[x].out) + 1)
                                 /\ frames[x].depth = x - 1
    BY <2>1, StackIs
  <2>4. Len(frames) <= maxVarDepth + 2
    BY <2>1 DEF Stack
  <2> QED  BY <2>1, <2>2, <2>3, <2>4 DEF TypeOK
<1> QED  BY <1>1, <1>2, <1>3, PTL DEF Spec

-----------------------------------------------------------------------------
(* Resolution computes the expansion *)

(* What an activation will return: past the cap the text it was given, and
   otherwise what the text stands for while it is scanned. *)
ResultOf(tree, dec, n, f) ==
    IF f.depth > maxVarDepth THEN f.out
    ELSE Meant(tree, dec, Levels(tree, dec, n)[maxVarDepth - f.depth], n, f.out, f.from)

(* What the activations are for: the outermost for the value declared, each
   other for what the reference its caller waits at stands for. *)
Wanted(tree, dec, n, k, s, x) ==
    IF x = 1 THEN {dec[n][k].value}
    ELSE ReferentIn(tree, dec, n, s[x - 1].out[Pending(s[x - 1])])

OwesAt(tree, dec, n, k, s, x) ==
    \E w \in Wanted(tree, dec, n, k, s, x) :
        /\ w \in TextsOf(dec)
        /\ ResultOf(tree, dec, n, s[x]) = Levels(tree, dec, n)[maxVarDepth + 2 - x][w]

Owes(tree, dec, n, k, s) == \A x \in DOMAIN s : OwesAt(tree, dec, n, k, s, x)

(* The ordinary declarations before the one being resolved have their
   expansions, the others the values declared. *)
Before(e, x, n, k) == e < n \/ (e = n /\ x < k)

RewrittenAt(tree, dec, m, n, k, e, x) ==
    dec[e][x].prop \notin CustomProperty =>
        m[e][x].value = IF Before(e, x, n, k)
                        THEN Levels(tree, dec, e)[maxVarDepth + 1][dec[e][x].value]
                        ELSE dec[e][x].value

Rewritten(tree, dec, m, n, k) ==
    \A e \in DOMAIN m : \A x \in DOMAIN m[e] : RewrittenAt(tree, dec, m, n, k, e, x)

(* The inductive invariant of resolution. *)
Resolving ==
    /\ Typed
    /\ Owes(parent, declared, node, slot, frames)
    /\ Rewritten(parent, declared, byNode, node, slot)

(* A new activation owes the expansion of the text it is given. *)
LEMMA FreshOwes ==
    ASSUME NEW tree, NEW dec, Sound(tree, dec), NEW n, NEW v \in TextsOf(dec) \intersect Value,
           NEW d \in 0..(maxVarDepth + 1)
    PROVE  ResultOf(tree, dec, n, Activation(v, d)) = Levels(tree, dec, n)[maxVarDepth + 1 - d][v]
<1> DEFINE L == Levels(tree, dec, n)
           f == Activation(v, d)
<1>1. maxVarDepth \in Nat /\ d \in Nat /\ d <= maxVarDepth + 1
  BY PagesAssumption
<1>2. f.out = v /\ f.from = 1 /\ f.depth = d
  BY DEF Activation
<1> HIDE DEF f
<1>3. CASE d > maxVarDepth
  <2>1. maxVarDepth + 1 - d = 0
    BY <1>1, <1>3
  <2>2. L[0][v] = v
    BY LevelsAre
  <2>3. ResultOf(tree, dec, n, f) = v
    BY <1>2, <1>3 DEF ResultOf
  <2> QED  BY <2>1, <2>2, <2>3 DEF f
<1>4. CASE ~(d > maxVarDepth)
  <2>1. /\ maxVarDepth - d \in 0..(maxVarDepth + 1) /\ maxVarDepth + 1 - d \in 1..(maxVarDepth + 1)
        /\ (maxVarDepth + 1 - d) - 1 = maxVarDepth - d
    BY <1>1, <1>4
  <2> DEFINE e == ExpandedIn(tree, dec, L[maxVarDepth - d], n, v)
  <2>2. L[maxVarDepth + 1 - d][v] = e
    <3>1. L[maxVarDepth + 1 - d][v] = ExpandedIn(tree, dec, L[(maxVarDepth + 1 - d) - 1], n, v)
      BY <2>1, LevelsAre
    <3> QED  BY <2>1, <3>1
  <2>3. e \in Value
    <3>1. Deeper(dec, L[maxVarDepth - d])
      BY <2>1, LevelsAre
    <3> QED  BY <3>1, ExpandedIs
  <2>4. Past(v, 1) = <<>> /\ Ahead(v, 1) = v
    <3>1. SubSeq(v, 1, Len(v)) = v
      BY SubSeqFull DEF Value
    <3>2. 1 \in Int /\ 1 - 1 \in Int /\ \A x \in 1..(1 - 1) : v[x] \in Piece
      OBVIOUS
    <3>3. SubSeq(v, 1, 1 - 1) \in Seq(Piece) /\ Len(SubSeq(v, 1, 1 - 1)) = IF 1 <= 1 - 1 THEN (1 - 1) - 1 + 1 ELSE 0
      BY <3>2, SubSeqProperties
    <3> DEFINE q == SubSeq(v, 1, 1 - 1)
    <3>4. q \in Seq(Piece) /\ Len(q) = 0
      BY <3>3
    <3> HIDE DEF q
    <3>5. q = <<>>
      BY <3>4
    <3> QED  BY <3>1, <3>5 DEF Past, Ahead, q
  <2>5. Meant(tree, dec, L[maxVarDepth - d], n, v, 1) = <<>> \o e
    BY <2>4 DEF Meant
  <2> HIDE DEF e
  <2>6. <<>> \o e = e
    BY <2>3 DEF Value
  <2>7. ResultOf(tree, dec, n, f) = Meant(tree, dec, L[maxVarDepth - d], n, v, 1)
    BY <1>2, <1>4 DEF ResultOf
  <2> QED  BY <2>2, <2>5, <2>6, <2>7 DEF f
<1> QED  BY <1>3, <1>4

(* An activation that returns has made its text what it owes. *)
LEMMA ReturnsResult ==
    ASSUME Typed, Returns
    PROVE  ResultOf(parent, declared, node, F) = F.out
<1>1. frames # <<>> /\ (F.depth > maxVarDepth \/ ~Found)
  BY DEF Returns, CapReached
<1>2. F.out \in Value /\ F.from \in 1..(Len(F.out) + 1) /\ (~Found => Exhausted(F))
  BY <1>1, FoundIs
<1>3. ~Found => \A deeper : Meant(parent, declared, deeper, node, F.out, F.from) = F.out
  BY <1>2, NothingLeft
<1> QED  BY <1>1, <1>3 DEF ResultOf

(* What a reference names is looked up as if nothing had been resolved yet: no
   ordinary property, and custom ones are not rewritten. *)
LEMMA ReferentsAgree ==
    ASSUME NEW tree, NEW dec, NEW m, Sound(tree, dec), Agrees(m, dec),
           NEW n, NEW ref \in Piece, Usable(ref)
    PROVE  ReferentIn(tree, m, n, ref) = ReferentIn(tree, dec, n, ref)
<1>1. ref.name \in Property => ref.name \in CustomProperty
  BY PieceAssumption, NameAssumption DEF Usable, Opening
<1>2. LookupIn(tree, m, n, ref.name) = LookupIn(tree, dec, n, ref.name)
  BY <1>1, LookupAgrees
<1> QED  BY <1>2 DEF ReferentIn

(* An activation that is left alone, with its caller, owes what it owed. *)
LEMMA OwesKept ==
    ASSUME NEW tree, NEW dec, NEW n, NEW k, NEW s, NEW t, NEW x,
           OwesAt(tree, dec, n, k, s, x), t[x] = s[x], x # 1 => t[x - 1] = s[x - 1]
    PROVE  OwesAt(tree, dec, n, k, t, x)
<1>1. Wanted(tree, dec, n, k, t, x) = Wanted(tree, dec, n, k, s, x)
  BY DEF Wanted
<1> QED  BY <1>1 DEF OwesAt

(* So does one whose text still stands for the same. *)
LEMMA OwesSame ==
    ASSUME NEW tree, NEW dec, NEW n, NEW k, NEW s, NEW t, NEW x,
           OwesAt(tree, dec, n, k, s, x), x # 1 => t[x - 1] = s[x - 1],
           ResultOf(tree, dec, n, t[x]) = ResultOf(tree, dec, n, s[x])
    PROVE  OwesAt(tree, dec, n, k, t, x)
<1>1. Wanted(tree, dec, n, k, t, x) = Wanted(tree, dec, n, k, s, x)
  BY DEF Wanted
<1> QED  BY <1>1 DEF OwesAt

(* Descending starts an activation for what the reference stands for. *)
LEMMA DescendOwes ==
    ASSUME Resolving, Descend
    PROVE  Owes(parent, declared, node, slot, frames')
<1> DEFINE l == Len(frames)
<1>1. Typed /\ Sound(parent, declared) /\ Agrees(byNode, declared) /\ Stack(frames)
      /\ frames # <<>> /\ Found
  BY DEF Resolving, Typed, Descend
<1>2. /\ F = frames[l] /\ at = Pending(F) /\ Usable(F.out[at]) /\ F.out[at] \in Piece
      /\ l \in Nat /\ l \in DOMAIN frames /\ DOMAIN frames = 1..l /\ l # 0
  BY <1>1, FoundIs, StackIs
<1>3. PICK v \in ReferentIn(parent, byNode, node, F.out[at]) \intersect Value :
         /\ Stack(frames') /\ Len(frames') = l + 1 /\ frames'[l + 1] = Activation(v, l)
         /\ \A x \in DOMAIN frames : frames'[x] = frames[x]
  BY <1>1, Descended
<1>4. v \in ReferentIn(parent, declared, node, F.out[at])
  BY <1>1, <1>2, <1>3, ReferentsAgree
<1>5. v \in TextsOf(declared) \intersect Value
  BY <1>1, <1>2, <1>4, ReferentIs
<1>6. DOMAIN frames' = 1..(l + 1) /\ l <= maxVarDepth + 1 /\ maxVarDepth \in Nat
  <2>1. Len(frames') <= maxVarDepth + 2 /\ DOMAIN frames' = 1..Len(frames')
    BY <1>3, StackIs DEF Stack
  <2> QED  BY <1>2, <1>3, <2>1, PagesAssumption
<1>7. ASSUME NEW x \in DOMAIN frames, OwesAt(parent, declared, node, slot, frames, x)
      PROVE  OwesAt(parent, declared, node, slot, frames', x)
  <2>1. frames'[x] = frames[x] /\ (x # 1 => frames'[x - 1] = frames[x - 1])
    BY <1>2, <1>3
  <2> QED  BY <1>7, <2>1, OwesKept
<1>8. OwesAt(parent, declared, node, slot, frames', l + 1)
  <2>1. (l + 1) - 1 = l /\ l + 1 # 1 /\ l \in 0..(maxVarDepth + 1)
        /\ maxVarDepth + 2 - (l + 1) = maxVarDepth + 1 - l
    BY <1>2, <1>6
  <2>2. frames'[l] = F
    BY <1>2, <1>3
  <2>3. Wanted(parent, declared, node, slot, frames', l + 1)
          = ReferentIn(parent, declared, node, F.out[at])
    BY <1>2, <2>1, <2>2 DEF Wanted
  <2>4. ResultOf(parent, declared, node, Activation(v, l))
          = Levels(parent, declared, node)[maxVarDepth + 1 - l][v]
    BY <1>1, <1>5, <2>1, FreshOwes
  <2> QED  BY <1>3, <1>4, <1>5, <2>1, <2>3, <2>4 DEF OwesAt
<1>9. \A x \in DOMAIN frames' : x \in DOMAIN frames \/ x = l + 1
  BY <1>2, <1>6
<1>10. \A x \in DOMAIN frames : OwesAt(parent, declared, node, slot, frames, x)
  BY DEF Resolving, Owes
<1> QED  BY <1>7, <1>8, <1>9, <1>10 DEF Owes

(* A reference left in place stands for itself. *)
LEMMA PassOverOwes ==
    ASSUME Resolving, PassOver
    PROVE  Owes(parent, declared, node, slot, frames')
<1> DEFINE l == Len(frames)
           g == [out |-> F.out, from |-> at + 1, depth |-> F.depth]
<1>1. Typed /\ Sound(parent, declared) /\ Agrees(byNode, declared) /\ Stack(frames)
      /\ frames # <<>> /\ Found /\ ~(F.depth > maxVarDepth)
  BY DEF Resolving, Typed, PassOver, CapReached
<1>2. /\ F = frames[l] /\ F.out \in Value /\ F.from \in 1..(Len(F.out) + 1) /\ F.depth = l - 1
      /\ Usable(F.out[at]) /\ F.out[at] \in Piece /\ at \in F.from..Len(F.out)
      /\ \A x \in F.from..(at - 1) : ~Opening(F.out[x])
      /\ l \in Nat /\ l \in DOMAIN frames /\ DOMAIN frames = 1..l /\ l # 0
  BY <1>1, FoundIs, StackIs
<1>3. /\ Stack(frames') /\ Len(frames') = l /\ frames'[l] = g
      /\ \A x \in DOMAIN frames : x < l => frames'[x] = frames[x]
  BY <1>1, PassedOver
<1>4. ReferentIn(parent, declared, node, F.out[at]) = {}
  <2>1. ReferentIn(parent, byNode, node, F.out[at]) = {}
    BY ReadsState DEF PassOver
  <2> QED  BY <1>1, <1>2, <2>1, ReferentsAgree
<1>5. ResultOf(parent, declared, node, g) = ResultOf(parent, declared, node, F)
  <2> DEFINE D == Levels(parent, declared, node)[maxVarDepth - F.depth]
  <2>1. maxVarDepth - F.depth \in 0..(maxVarDepth + 1)
    BY <1>1, <1>2, PagesAssumption
  <2>2. Deeper(declared, D)
    BY <1>1, <2>1, LevelsAre
  <2>3. ResultOf(parent, declared, node, F) = Meant(parent, declared, D, node, F.out, F.from)
    BY <1>1 DEF ResultOf
  <2>4. ResultOf(parent, declared, node, g) = Meant(parent, declared, D, node, F.out, at + 1)
    BY <1>1 DEF ResultOf
  <2> HIDE DEF D
  <2>5. Meant(parent, declared, D, node, F.out, at + 1)
          = Meant(parent, declared, D, node, F.out, F.from)
    <3> DEFINE o == F.out
               i == F.from
               k == at
    <3>1. /\ o \in Value /\ i \in 1..(Len(o) + 1) /\ k \in i..Len(o)
          /\ \A x \in i..(k - 1) : ~Opening(o[x])
          /\ Usable(o[k]) /\ ReferentIn(parent, declared, node, o[k]) = {}
      BY <1>2, <1>4
    <3> HIDE DEF o, i, k
    <3>2. Meant(parent, declared, D, node, o, k + 1) = Meant(parent, declared, D, node, o, i)
      BY <1>1, <2>2, <3>1, LeftInPlace
    <3> QED  BY <3>2 DEF o, i, k
  <2> QED  BY <2>3, <2>4, <2>5
<1> HIDE DEF g
<1>6. ASSUME NEW x \in DOMAIN frames, OwesAt(parent, declared, node, slot, frames, x)
      PROVE  OwesAt(parent, declared, node, slot, frames', x)
  <2>1. x # 1 => x - 1 \in DOMAIN frames /\ x - 1 < l
    BY <1>2
  <2>2. x # 1 => frames'[x - 1] = frames[x - 1]
    BY <1>3, <2>1
  <2>3. CASE x < l
    BY <1>3, <1>6, <2>2, <2>3, OwesKept
  <2>4. CASE x = l
    <3>1. ResultOf(parent, declared, node, frames'[x]) = ResultOf(parent, declared, node, frames[x])
      BY <1>2, <1>3, <1>5, <2>4
    <3> QED  BY <1>6, <2>2, <3>1, OwesSame
  <2> QED  BY <1>2, <2>3, <2>4
<1>7. DOMAIN frames' = DOMAIN frames
  BY <1>2, <1>3, StackIs
<1>8. \A x \in DOMAIN frames : OwesAt(parent, declared, node, slot, frames, x)
  BY DEF Resolving, Owes
<1> QED  BY <1>6, <1>7, <1>8 DEF Owes

(* What an activation returns is the expansion its caller has to put in the
   place of the reference. *)
LEMMA ReturnOwes ==
    ASSUME Resolving, ReturnToCaller
    PROVE  Owes(parent, declared, node, slot, frames')
<1> DEFINE l == Len(frames)
           c == frames[l - 1]
           k == Pending(c)
           g == [out |-> Splice(c.out, k, F.out), from |-> k + Len(F.out), depth |-> c.depth]
<1>1. Typed /\ Sound(parent, declared) /\ Stack(frames) /\ frames # <<>> /\ Returns /\ l > 1
  BY DEF Resolving, Typed, ReturnToCaller, Returns
<1>2. /\ F = frames[l] /\ F.out \in Value /\ F.depth = l - 1
      /\ l \in Nat /\ l \in DOMAIN frames /\ DOMAIN frames = 1..l /\ l # 0 /\ l # 1
  BY <1>1, FoundIs, StackIs
<1>3. /\ l - 1 \in DOMAIN frames /\ c.depth = l - 2 /\ c.depth <= maxVarDepth
      /\ k \in c.from..Len(c.out) /\ Usable(c.out[k])
      /\ \A x \in c.from..(k - 1) : ~Opening(c.out[x])
      /\ Stack(frames') /\ Len(frames') = l - 1 /\ frames'[l - 1] = g
      /\ \A x \in DOMAIN frames : x < l - 1 => frames'[x] = frames[x]
  BY <1>1, Returned
<1>4. c.out \in Value /\ c.from \in 1..(Len(c.out) + 1)
  BY <1>1, <1>3, StackIs
<1>5. PICK w \in ReferentIn(parent, declared, node, c.out[k]) :
         F.out = Levels(parent, declared, node)[maxVarDepth + 2 - l][w]
  <2>1. OwesAt(parent, declared, node, slot, frames, l)
    BY <1>2 DEF Resolving, Owes
  <2>2. ResultOf(parent, declared, node, frames[l]) = F.out
    BY <1>1, <1>2, ReturnsResult
  <2>3. Wanted(parent, declared, node, slot, frames, l) = ReferentIn(parent, declared, node, c.out[k])
    BY <1>2 DEF Wanted
  <2> QED  BY <2>1, <2>2, <2>3 DEF OwesAt
<1>6. ResultOf(parent, declared, node, g) = ResultOf(parent, declared, node, c)
  <2> DEFINE D == Levels(parent, declared, node)[maxVarDepth - c.depth]
  <2>1. /\ maxVarDepth - c.depth \in 0..(maxVarDepth + 1) /\ ~(c.depth > maxVarDepth)
        /\ maxVarDepth - c.depth = maxVarDepth + 2 - l
    BY <1>1, <1>2, <1>3, PagesAssumption
  <2>2. Deeper(declared, D)
    BY <1>1, <2>1, LevelsAre
  <2>3. ResultOf(parent, declared, node, c) = Meant(parent, declared, D, node, c.out, c.from)
    BY <2>1 DEF ResultOf
  <2>4. ResultOf(parent, declared, node, g)
          = Meant(parent, declared, D, node, Splice(c.out, k, F.out), k + Len(F.out))
    BY <2>1 DEF ResultOf
  <2>5. F.out = D[w]
    BY <1>5, <2>1
  <2> HIDE DEF D, c, k
  <2>6. Meant(parent, declared, D, node, Splice(c.out, k, F.out), k + Len(F.out))
          = Meant(parent, declared, D, node, c.out, c.from)
    <3> DEFINE r == F.out
               o == c.out
               i == c.from
    <3>1. /\ o \in Value /\ i \in 1..(Len(o) + 1) /\ k \in i..Len(o)
          /\ \A x \in i..(k - 1) : ~Opening(o[x])
          /\ Usable(o[k]) /\ w \in ReferentIn(parent, declared, node, o[k])
          /\ r \in Value /\ r = D[w]
      BY <1>2, <1>3, <1>4, <1>5, <2>5
    <3> HIDE DEF r, o, i
    <3>2. Meant(parent, declared, D, node, Splice(o, k, r), k + Len(r))
            = Meant(parent, declared, D, node, o, i)
      BY <1>1, <2>2, <3>1, Replaced
    <3> QED  BY <3>2 DEF r, o, i
  <2> QED  BY <2>3, <2>4, <2>6
<1> HIDE DEF g
<1>7. ASSUME NEW x \in DOMAIN frames', OwesAt(parent, declared, node, slot, frames, x)
      PROVE  OwesAt(parent, declared, node, slot, frames', x)
  <2>1. x \in 1..(l - 1) /\ x \in DOMAIN frames
    BY <1>2, <1>3, StackIs
  <2>2. x # 1 => x - 1 \in DOMAIN frames /\ x - 1 < l - 1
    BY <1>2, <2>1
  <2>3. x # 1 => frames'[x - 1] = frames[x - 1]
    BY <1>3, <2>2
  <2>4. CASE x < l - 1
    BY <1>3, <1>7, <2>1, <2>3, <2>4, OwesKept
  <2>5. CASE x = l - 1
    <3>1. ResultOf(parent, declared, node, frames'[x]) = ResultOf(parent, declared, node, frames[x])
      BY <1>3, <1>6, <2>5
    <3> QED  BY <1>7, <2>3, <3>1, OwesSame
  <2> QED  BY <1>2, <2>1, <2>4, <2>5
<1>8. \A x \in DOMAIN frames' : x \in DOMAIN frames
  BY <1>2, <1>3, StackIs
<1>9. \A x \in DOMAIN frames : OwesAt(parent, declared, node, slot, frames, x)
  BY DEF Resolving, Owes
<1> QED  BY <1>7, <1>8, <1>9 DEF Owes

(* Without an activation nothing is owed. *)
LEMMA IdleOwes ==
    ASSUME NEW tree, NEW dec, NEW n, NEW k
    PROVE  Owes(tree, dec, n, k, <<>>)
<1>1. DOMAIN <<>> = {}
  OBVIOUS
<1> QED  BY <1>1 DEF Owes

(* Resolving a declaration starts with the value declared. *)
LEMMA StartOwes ==
    ASSUME Resolving, StartSlot
    PROVE  Owes(parent, declared, node, slot, frames')
<1>1. Typed /\ Sound(parent, declared) /\ slot \in Nat /\ slot # 0
  BY DEF Resolving, Typed
<1>2. slot <= Len(Slots) /\ Eligible
  BY DEF StartSlot
<1>3. node \in DOMAIN byNode
  <2>1. node \notin DOMAIN byNode => Len(Slots) = 0
    BY DEF Slots
  <2> QED  BY <1>1, <1>2, <2>1
<1>4. slot \in DOMAIN byNode[node]
  <2>1. Slots = byNode[node] /\ Len(byNode[node]) \in Nat
        /\ DOMAIN byNode[node] = 1..Len(byNode[node])
    BY <1>1, <1>3, SlotsAre DEF Slots
  <2> QED  BY <1>1, <1>2, <2>1
<1> DEFINE v == declared[node][slot].value
<1>5. v \in TextsOf(declared) \intersect Value
  BY <1>1, <1>3, <1>4, SlotsAre
<1>6. byNode[node][slot].value = v
  <2>1. RewrittenAt(parent, declared, byNode, node, slot, node, slot)
    BY <1>3, <1>4 DEF Resolving, Rewritten
  <2>2. declared[node][slot].prop \notin CustomProperty
    BY <1>1, <1>2, <1>3, <1>4, SlotsAre DEF Eligible, Current
  <2>3. ~Before(node, slot, node, slot)
    BY <1>1, SlotsAre DEF Before
  <2> QED  BY <2>1, <2>2, <2>3 DEF RewrittenAt
<1>7. frames' = <<Activation(v, 0)>>
  BY <1>6 DEF StartSlot, Current
<1> HIDE DEF v
<1>8. ResultOf(parent, declared, node, Activation(v, 0))
        = Levels(parent, declared, node)[maxVarDepth + 2 - 1][v]
  <2>1. 0 \in 0..(maxVarDepth + 1) /\ maxVarDepth + 1 - 0 = maxVarDepth + 2 - 1
    BY PagesAssumption
  <2>2. ResultOf(parent, declared, node, Activation(v, 0))
          = Levels(parent, declared, node)[maxVarDepth + 1 - 0][v]
    BY <1>1, <1>5, <2>1, FreshOwes
  <2> QED  BY <2>1, <2>2
<1>9. DOMAIN frames' = {1} /\ frames'[1] = Activation(v, 0)
  BY <1>7
<1>10. OwesAt(parent, declared, node, slot, frames', 1)
  BY <1>5, <1>8, <1>9 DEF OwesAt, Wanted, v
<1> QED  BY <1>9, <1>10 DEF Owes

(* Once all slots of an element are resolved, so is everything before the
   next element. *)
LEMMA NextNodeRewrites ==
    ASSUME Resolving, NextNode
    PROVE  Rewritten(parent, declared, byNode, node + 1, 1)
<1>1. Typed /\ node \in Nat /\ slot \in Nat
  BY SlotsAre DEF Resolving, Typed
<1>2. ASSUME NEW e \in DOMAIN byNode, NEW x \in DOMAIN byNode[e]
      PROVE  RewrittenAt(parent, declared, byNode, node + 1, 1, e, x)
  <2>1. e \in Nat /\ x \in Nat /\ x >= 1 /\ x <= Len(byNode[e]) /\ Len(byNode[e]) \in Nat
    BY <1>1, <1>2, SlotsAre
  <2>2. e = node => x < slot
    <3> SUFFICES ASSUME e = node PROVE x < slot
      OBVIOUS
    <3>1. Slots = byNode[e]
      BY <1>2 DEF Slots
    <3> QED  BY <1>1, <2>1, <3>1 DEF NextNode
  <2>3. Before(e, x, node + 1, 1) <=> Before(e, x, node, slot)
    BY <1>1, <2>1, <2>2 DEF Before
  <2>4. RewrittenAt(parent, declared, byNode, node, slot, e, x)
    BY <1>2 DEF Resolving, Rewritten
  <2> QED  BY <2>3, <2>4, Zenon DEF RewrittenAt
<1> QED  BY <1>2 DEF Rewritten

(* Past slot k of element n, when that slot has what it must. *)
LEMMA SlotRewrites ==
    ASSUME NEW tree, NEW dec, NEW m, NEW n \in Nat, NEW k \in Nat, NEW e \in Nat, NEW x \in Nat,
           e = n /\ x = k => RewrittenAt(tree, dec, m, n, k + 1, n, k),
           e # n \/ x # k => RewrittenAt(tree, dec, m, n, k, e, x)
    PROVE  RewrittenAt(tree, dec, m, n, k + 1, e, x)
<1>1. CASE e = n /\ x = k
  BY <1>1
<1>2. CASE ~(e = n /\ x = k)
  <2>1. Before(e, x, n, k + 1) <=> Before(e, x, n, k)
    BY <1>2 DEF Before
  <2>2. RewrittenAt(tree, dec, m, n, k, e, x)
    BY <1>2
  <2> QED  BY <2>1, <2>2, Zenon DEF RewrittenAt
<1> QED  BY <1>1, <1>2

(* A slot that is skipped has its expansion: without an opening there is
   nothing to replace. *)
LEMMA SkipRewrites ==
    ASSUME Resolving, SkipSlot
    PROVE  Rewritten(parent, declared, byNode, node, slot + 1)
<1>1. Typed /\ Sound(parent, declared) /\ node \in Nat /\ slot \in Nat /\ ~Eligible
  BY SlotsAre DEF Resolving, Typed, SkipSlot
<1>2. ASSUME node \in DOMAIN byNode, slot \in DOMAIN byNode[node],
             declared[node][slot].prop \notin CustomProperty
      PROVE  byNode[node][slot].value
               = Levels(parent, declared, node)[maxVarDepth + 1][declared[node][slot].value]
  <2> DEFINE v == declared[node][slot].value
             L == Levels(parent, declared, node)
  <2>1. v \in TextsOf(declared) /\ v \in Value
    BY <1>1, <1>2, SlotsAre
  <2>2. byNode[node][slot].value = v
    <3>1. RewrittenAt(parent, declared, byNode, node, slot, node, slot)
      BY <1>2 DEF Resolving, Rewritten
    <3>2. ~Before(node, slot, node, slot)
      BY <1>1 DEF Before
    <3> QED  BY <1>2, <3>1, <3>2 DEF RewrittenAt
  <2>3. Inert(v)
    <3>1. ~HasVar(byNode[node][slot].value)
      <4>1. byNode[node][slot].prop \notin CustomProperty
        BY <1>1, <1>2, SlotsAre
      <4> QED  BY <1>1, <4>1 DEF Eligible, Current
    <3>2. ~HasVar(v)
      BY <2>2, <3>1
    <3> QED  BY <3>2 DEF HasVar, Inert, Opening, Usable
  <2>4. maxVarDepth + 1 \in 1..(maxVarDepth + 1)
    BY PagesAssumption
  <2>5. L[maxVarDepth + 1][v] = ExpandedIn(parent, declared, L[(maxVarDepth + 1) - 1], node, v)
    BY <1>1, <2>1, <2>4, LevelsAre
  <2>6. \A deeper : ExpandedIn(parent, declared, deeper, node, v) = v
    BY <2>1, <2>3, InertExpands
  <2>7. L[maxVarDepth + 1][v] = v
    BY <2>5, <2>6, Zenon
  <2> QED  BY <2>2, <2>7
<1>3. ASSUME NEW e \in DOMAIN byNode, NEW x \in DOMAIN byNode[e]
      PROVE  RewrittenAt(parent, declared, byNode, node, slot + 1, e, x)
  <2>1. e \in Nat /\ x \in Nat
    BY <1>1, <1>3, SlotsAre
  <2>2. RewrittenAt(parent, declared, byNode, node, slot, e, x)
    BY <1>3 DEF Resolving, Rewritten
  <2>3. Before(node, slot, node, slot + 1)
    BY <1>1 DEF Before
  <2>4. e = node /\ x = slot => RewrittenAt(parent, declared, byNode, node, slot + 1, node, slot)
    BY <1>2, <1>3, <2>3 DEF RewrittenAt
  <2> QED  BY <1>1, <2>1, <2>2, <2>4, SlotRewrites
<1> QED  BY <1>3 DEF Rewritten

(* What the outermost activation returns is the expansion of the value
   declared. *)
LEMMA FinishRewrites ==
    ASSUME Resolving, FinishSlot
    PROVE  Rewritten(parent, declared, byNode', node, slot + 1)
<1>1. Typed /\ Sound(parent, declared) /\ node \in Nat /\ slot \in Nat
      /\ frames # <<>> /\ Returns /\ Len(frames) = 1
  BY SlotsAre DEF Resolving, Typed, FinishSlot, Returns
<1>2. /\ Agrees(byNode', declared)
      /\ node \in DOMAIN byNode /\ slot \in DOMAIN byNode[node]
      /\ byNode'[node][slot].value = F.out
      /\ \A n \in DOMAIN byNode : \A x \in DOMAIN byNode[n] :
            n # node \/ x # slot => byNode'[n][x] = byNode[n][x]
  BY <1>1, SlotFinished
<1>3. F.out = Levels(parent, declared, node)[maxVarDepth + 1][declared[node][slot].value]
  <2>1. F = frames[1] /\ 1 \in DOMAIN frames /\ maxVarDepth + 2 - 1 = maxVarDepth + 1
    BY <1>1, StackIs, PagesAssumption DEF F, Typed
  <2>2. OwesAt(parent, declared, node, slot, frames, 1)
    BY <2>1 DEF Resolving, Owes
  <2>3. ResultOf(parent, declared, node, F) = F.out
    BY <1>1, ReturnsResult
  <2> QED  BY <2>1, <2>2, <2>3 DEF OwesAt, Wanted
<1>4. /\ DOMAIN byNode' = DOMAIN byNode
      /\ \A n \in DOMAIN byNode : DOMAIN byNode'[n] = DOMAIN byNode[n]
  <2>1. DOMAIN byNode' = DOMAIN declared /\ DOMAIN byNode = DOMAIN declared
    BY <1>1, <1>2, SlotsAre DEF Agrees
  <2>2. ASSUME NEW n \in DOMAIN byNode
        PROVE  DOMAIN byNode'[n] = DOMAIN byNode[n]
    <3>1. byNode'[n] \in Seq(SlotOf) /\ Len(byNode'[n]) = Len(declared[n])
      BY <1>2, <2>1, <2>2 DEF Agrees
    <3>2. Len(byNode[n]) = Len(declared[n]) /\ DOMAIN byNode[n] = 1..Len(byNode[n])
      BY <1>1, <2>2, SlotsAre
    <3> QED  BY <3>1, <3>2
  <2> QED  BY <2>1, <2>2
<1> DEFINE m == byNode'
<1> HIDE DEF m
<1>5. ASSUME NEW e \in DOMAIN byNode, NEW x \in DOMAIN byNode[e]
      PROVE  RewrittenAt(parent, declared, m, node, slot + 1, e, x)
  <2>1. e \in Nat /\ x \in Nat
    BY <1>1, <1>5, SlotsAre
  <2>2. RewrittenAt(parent, declared, byNode, node, slot, e, x)
    BY <1>5 DEF Resolving, Rewritten
  <2>3. Before(node, slot, node, slot + 1)
    BY <1>1 DEF Before
  <2>4. RewrittenAt(parent, declared, m, node, slot + 1, node, slot)
    BY <1>2, <1>3, <2>3 DEF RewrittenAt, m
  <2>5. e # node \/ x # slot => RewrittenAt(parent, declared, m, node, slot, e, x)
    <3> SUFFICES ASSUME e # node \/ x # slot PROVE m[e][x] = byNode[e][x]
      BY <2>2 DEF RewrittenAt
    <3> QED  BY <1>2, <1>5 DEF m
  <2> QED  BY <1>1, <2>1, <2>4, <2>5, SlotRewrites
<1>6. Rewritten(parent, declared, m, node, slot + 1)
  BY <1>4, <1>5 DEF Rewritten, m
<1> QED  BY <1>6 DEF m

(* The invariant starts out true: nothing has been resolved. *)
LEMMA ResolvingInit ==
    ASSUME Init
    PROVE  Resolving
<1>1. Typed /\ frames = <<>> /\ byNode = declared /\ node = 1 /\ slot = 1
  BY TypedInit DEF Init
<1>2. Owes(parent, declared, node, slot, frames)
  BY <1>1, IdleOwes
<1>3. ASSUME NEW e \in DOMAIN byNode, NEW x \in DOMAIN byNode[e]
      PROVE  RewrittenAt(parent, declared, byNode, node, slot, e, x)
  <2>1. e \in Nat /\ x \in Nat /\ e >= 1 /\ x >= 1
    BY <1>1, <1>3, SlotsAre
  <2>2. ~Before(e, x, node, slot)
    BY <1>1, <2>1 DEF Before
  <2> QED  BY <1>1, <2>2 DEF RewrittenAt
<1> QED  BY <1>1, <1>2, <1>3 DEF Resolving, Rewritten

(* And every step keeps it. *)
LEMMA ResolvingStep ==
    ASSUME Resolving, [Next]_vars
    PROVE  Resolving'
<1>1. Typed' /\ Owes(parent, declared, node, slot, frames)
      /\ Rewritten(parent, declared, byNode, node, slot)
  BY TypedStep DEF Resolving
<1>2. CASE NextNode
  <2>1. parent' = parent /\ declared' = declared /\ byNode' = byNode
        /\ node' = node + 1 /\ slot' = 1 /\ frames' = <<>>
    BY <1>2 DEF NextNode, Idle
  <2> QED  BY <1>1, <1>2, <2>1, IdleOwes, NextNodeRewrites DEF Resolving
<1>3. CASE SkipSlot
  <2>1. parent' = parent /\ declared' = declared /\ byNode' = byNode
        /\ node' = node /\ slot' = slot + 1 /\ frames' = <<>>
    BY <1>3 DEF SkipSlot, Idle
  <2> QED  BY <1>1, <1>3, <2>1, IdleOwes, SkipRewrites DEF Resolving
<1>4. CASE StartSlot
  <2>1. parent' = parent /\ declared' = declared /\ byNode' = byNode /\ node' = node /\ slot' = slot
    BY <1>4 DEF StartSlot
  <2> QED  BY <1>1, <1>4, <2>1, StartOwes DEF Resolving
<1>5. CASE ReturnToCaller
  <2>1. parent' = parent /\ declared' = declared /\ byNode' = byNode /\ node' = node /\ slot' = slot
    BY <1>5 DEF ReturnToCaller
  <2> QED  BY <1>1, <1>5, <2>1, ReturnOwes DEF Resolving
<1>6. CASE FinishSlot
  <2>1. parent' = parent /\ declared' = declared /\ node' = node /\ slot' = slot + 1 /\ frames' = <<>>
    BY <1>6 DEF FinishSlot
  <2> QED  BY <1>1, <1>6, <2>1, IdleOwes, FinishRewrites DEF Resolving
<1>7. CASE Descend
  <2>1. parent' = parent /\ declared' = declared /\ byNode' = byNode /\ node' = node /\ slot' = slot
    BY <1>7 DEF Descend
  <2> QED  BY <1>1, <1>7, <2>1, DescendOwes DEF Resolving
<1>8. CASE PassOver
  <2>1. parent' = parent /\ declared' = declared /\ byNode' = byNode /\ node' = node /\ slot' = slot
    BY <1>8 DEF PassOver
  <2> QED  BY <1>1, <1>8, <2>1, PassOverOwes DEF Resolving
<1>9. CASE UNCHANGED vars
  BY <1>1, <1>9 DEF Resolving, vars
<1>10. CASE Done
  BY <1>9, <1>10 DEF Done
<1> QED  BY <1>2, <1>3, <1>4, <1>5, <1>6, <1>7, <1>8, <1>9, <1>10 DEF Next

(* When resolution ends, every slot has been passed. *)
LEMMA ResolvedAtEnd ==
    ASSUME Resolving, Finished
    PROVE  \A n \in DOMAIN byNode : \A x \in DOMAIN byNode[n] :
              byNode[n][x].value =
                  IF declared[n][x].prop \in CustomProperty THEN declared[n][x].value
                  ELSE Expansion(n)[declared[n][x].value]
<1> TAKE n \in DOMAIN byNode
<1> TAKE x \in DOMAIN byNode[n]
<1>1. Typed
  BY DEF Resolving
<1>2. /\ n \in 1..Len(parent) /\ Len(parent) \in Nat /\ node \in Nat
      /\ DOMAIN parent = 1..Len(parent) /\ n \in DOMAIN declared /\ x \in DOMAIN declared[n]
  BY <1>1, SlotsAre
<1>3. node \in 1..(Len(parent) + 1)
  BY <1>1 DEF Typed
<1>4. Before(n, x, node, slot)
  BY <1>2, <1>3 DEF Finished, Before
<1>5. CASE declared[n][x].prop \in CustomProperty
  BY <1>1, <1>2, <1>5 DEF Typed, Agrees
<1>6. CASE declared[n][x].prop \notin CustomProperty
  <2>1. RewrittenAt(parent, declared, byNode, node, slot, n, x)
    BY DEF Resolving, Rewritten
  <2>2. Expansion(n) = Levels(parent, declared, n)[maxVarDepth + 1]
    BY ReadsState
  <2> QED  BY <1>4, <1>6, <2>1, <2>2 DEF RewrittenAt
<1> QED  BY <1>5, <1>6

(* Resolution leaves every ordinary declaration with the expansion of the
   value declared, on every page and for every cap, if no reference names an
   ordinary property: splicing in place, resuming behind what was spliced in,
   taking a var( never closed for one that is when a ")" happens to end the
   value, and the order in which slots are visited make no difference
   (variables.go, substitute). *)
THEOREM ResolvedEverywhere == Spec => []ResolvedIsExpansion
<1>1. Init => Resolving
  BY ResolvingInit
<1>2. Resolving /\ [Next]_vars => Resolving'
  BY ResolvingStep
<1>3. Resolving => ResolvedIsExpansion
  <2>1. Resolving /\ Finished =>
           \A n \in DOMAIN byNode : \A x \in DOMAIN byNode[n] :
              byNode[n][x].value =
                  IF declared[n][x].prop \in CustomProperty THEN declared[n][x].value
                  ELSE Expansion(n)[declared[n][x].value]
    BY ResolvedAtEnd
  <2> QED  BY <2>1 DEF ResolvedIsExpansion
<1> QED  BY <1>1, <1>2, <1>3, PTL DEF Spec

-----------------------------------------------------------------------------
(* Expansion leaves no reference it could have replaced *)

(* A reference in v stands for nothing, or comes after a var( never closed. *)
Clean(tree, dec, n, v) ==
    \A y \in DOMAIN v :
        Usable(v[y]) /\ (\A z \in 1..y : ~Stuck(v[z]))
        => ReferentIn(tree, dec, n, v[y]) = {}

(* Two texts in a row, the second of which may be what it likes behind a var(
   never closed in the first. *)
LEMMA CleanConcat ==
    ASSUME NEW tree, NEW dec, NEW n, NEW u \in Value, NEW v \in Value,
           Clean(tree, dec, n, u),
           Clean(tree, dec, n, v) \/ \E z \in DOMAIN u : Stuck(u[z])
    PROVE  Clean(tree, dec, n, u \o v)
<1> DEFINE w == u \o v
<1>1. /\ Len(u) \in Nat /\ DOMAIN u = 1..Len(u) /\ Len(v) \in Nat /\ DOMAIN v = 1..Len(v)
      /\ DOMAIN w = 1..(Len(u) + Len(v))
      /\ \A y \in 1..Len(u) : w[y] = u[y]
      /\ \A y \in 1..Len(v) : w[Len(u) + y] = v[y]
  BY DEF Value
<1> HIDE DEF w
<1> SUFFICES ASSUME NEW y \in DOMAIN w, Usable(w[y]), \A z \in 1..y : ~Stuck(w[z])
             PROVE  ReferentIn(tree, dec, n, w[y]) = {}
  BY DEF Clean, w
<1>2. CASE y \in 1..Len(u)
  <2>1. \A z \in 1..y : z \in 1..Len(u)
    BY <1>1, <1>2
  <2>2. \A z \in 1..y : ~Stuck(u[z])
    BY <1>1, <2>1
  <2> QED  BY <1>1, <1>2, <2>2 DEF Clean
<1>3. CASE y \notin 1..Len(u)
  <2>1. y - Len(u) \in 1..Len(v) /\ Len(u) + (y - Len(u)) = y
    BY <1>1, <1>3
  <2>2. w[y] = v[y - Len(u)]
    BY <1>1, <2>1
  <2>3. \A z \in 1..Len(u) : z \in 1..y
    BY <1>1, <1>3
  <2>4. \A z \in DOMAIN u : ~Stuck(u[z])
    BY <1>1, <2>3
  <2>5. ASSUME NEW z \in 1..(y - Len(u))
        PROVE  ~Stuck(v[z])
    <3>1. z \in 1..Len(v) /\ Len(u) + z \in 1..y
      BY <1>1, <2>1
    <3> QED  BY <1>1, <3>1
  <2> QED  BY <1>1, <2>1, <2>2, <2>4, <2>5 DEF Clean
<1> QED  BY <1>2, <1>3

(* Expanding leaves a text clean, if what its references stand for is. *)
LEMMA ExpandedClean ==
    ASSUME NEW tree, NEW dec, Sound(tree, dec), NEW n, NEW deeper, Deeper(dec, deeper),
           NEW v \in Value,
           \A x \in DOMAIN v : Usable(v[x]) =>
               \A w \in ReferentIn(tree, dec, n, v[x]) : Clean(tree, dec, n, deeper[w])
    PROVE  Clean(tree, dec, n, ExpandedIn(tree, dec, deeper, n, v))
<1> DEFINE p == Parts(tree, dec, deeper, n, v)
           C(u) == Clean(tree, dec, n, u)
           Broken(u) == \E z \in DOMAIN u : Stuck(u[z])
           Upto(k) == FlattenSeq(SubSeq(p, 1, k))
           G == {k \in Nat : k <= Len(v) =>
                    C(Upto(k)) /\ ((\E y \in 1..k : Stuck(v[y])) => Broken(Upto(k)))}
<1>1. /\ Len(v) \in Nat /\ DOMAIN v = 1..Len(v)
      /\ \A x \in DOMAIN v : v[x] \in Piece /\ <<v[x]>> \in Value
  BY ElementOfSeq DEF Value
<1>2. p \in Seq(Seq(Piece)) /\ Len(p) = Len(v)
  <2>1. p \in Seq(Value)
    BY PartsAre
  <2>2. DOMAIN p = DOMAIN v
    BY DEF Parts
  <2> HIDE DEF p
  <2> QED  BY <1>1, <2>1, <2>2 DEF Value
<1>3. \A x \in DOMAIN v :
         p[x] = IF \/ \E y \in 1..x : Stuck(v[y])
                   \/ ~Usable(v[x]) \/ ReferentIn(tree, dec, n, v[x]) = {}
                THEN <<v[x]>>
                ELSE deeper[CHOOSE w \in ReferentIn(tree, dec, n, v[x]) : TRUE]
  BY DEF Parts
<1>4. \A x \in DOMAIN v :
         (ReferentIn(tree, dec, n, v[x]) # {} =>
             (CHOOSE w \in ReferentIn(tree, dec, n, v[x]) : TRUE) \in ReferentIn(tree, dec, n, v[x]))
  OBVIOUS
<1> HIDE DEF p
<1>5. 0 \in G
  <2>1. SubSeq(p, 1, 0) = <<>>
    BY <1>2
  <2>2. FlattenSeq(<<>>) = <<>>
    BY DEF FlattenSeq
  <2>3. Upto(0) = <<>>
    BY <2>1, <2>2, Zenon
  <2> HIDE DEF Upto
  <2>4. DOMAIN <<>> = {} /\ 1..0 = {}
    OBVIOUS
  <2> QED  BY <2>3, <2>4 DEF Clean
<1>6. ASSUME NEW k \in Nat, k \in G
      PROVE  k + 1 \in G
  <2> SUFFICES ASSUME k + 1 <= Len(v)
               PROVE  C(Upto(k + 1))
                      /\ ((\E y \in 1..(k + 1) : Stuck(v[y])) => Broken(Upto(k + 1)))
    OBVIOUS
  <2> DEFINE a == Upto(k)
             b == p[k + 1]
  <2>1. k + 1 \in DOMAIN v /\ \A y \in 1..(k + 1) : y \in 1..k \/ y = k + 1
    BY <1>1
  <2>2. C(a) /\ ((\E y \in 1..k : Stuck(v[y])) => Broken(a))
    BY <1>1, <1>6
  <2>3. Upto(k + 1) = a \o b /\ a \in Value /\ b \in Value
    <3>1. /\ SubSeq(p, 1, k) \in Seq(Seq(Piece)) /\ SubSeq(p, 1, k + 1) \in Seq(Seq(Piece))
          /\ Len(SubSeq(p, 1, k)) = k /\ Len(SubSeq(p, 1, k + 1)) = k + 1
      BY <1>1, <1>2
    <3>2. SubSeq(p, 1, k + 1)[k + 1] = p[k + 1]
      BY <1>1, <1>2
    <3>3. p[k + 1] \in Seq(Piece)
      <4>1. k + 1 \in DOMAIN p
        BY <1>1, <1>2
      <4> QED  BY <1>2, <4>1, ElementOfSeq
    <3>4. \A i \in DOMAIN SubSeq(p, 1, k) : SubSeq(p, 1, k + 1)[i] = SubSeq(p, 1, k)[i]
      BY <1>1, <1>2
    <3>5. FlattenSeq(SubSeq(p, 1, k + 1)) = FlattenSeq(SubSeq(p, 1, k)) \o p[k + 1]
      <4> HIDE DEF b
      <4> DEFINE q == SubSeq(p, 1, k)
                 r == SubSeq(p, 1, k + 1)
      <4>1. /\ q \in Seq(Seq(Piece)) /\ r \in Seq(Seq(Piece)) /\ Len(r) = Len(q) + 1
            /\ \A i \in DOMAIN q : r[i] = q[i]
            /\ r[Len(r)] = p[k + 1]
        BY <3>1, <3>2, <3>4
      <4> HIDE DEF q, r
      <4>2. FlattenSeq(r) = FlattenSeq(q) \o r[Len(r)]
        BY <4>1, FlattenAppend
      <4> QED  BY <4>1, <4>2 DEF q, r
    <3>6. FlattenSeq(SubSeq(p, 1, k)) \in Seq(Piece)
      BY <3>1, FlattenIs
    <3> QED  BY <3>3, <3>5, <3>6 DEF Value
  <2> HIDE DEF a, Upto
  <2>4. CASE b = <<v[k + 1]>> /\ \E y \in 1..(k + 1) : Stuck(v[y])
    <3>1. DOMAIN b = {1} /\ b[1] = v[k + 1]
      BY <2>4
    <3>2. Broken(a) \/ Stuck(v[k + 1])
      BY <2>1, <2>2, <2>4
    <3>3. Stuck(v[k + 1]) => C(b) /\ Stuck(b[1])
      BY <3>1 DEF Clean, Usable
    <3>4. C(a \o b)
      BY <2>2, <2>3, <3>2, <3>3, CleanConcat
    <3>5. Broken(a \o b)
      <4>1. /\ Len(a) \in Nat /\ DOMAIN a = 1..Len(a) /\ DOMAIN (a \o b) = 1..(Len(a) + 1)
            /\ \A z \in 1..Len(a) : (a \o b)[z] = a[z]
            /\ (a \o b)[Len(a) + 1] = v[k + 1]
        BY <2>3, <2>4 DEF Value
      <4>2. \A z \in 1..Len(a) : z \in 1..(Len(a) + 1)
        BY <4>1
      <4>3. Len(a) + 1 \in 1..(Len(a) + 1)
        BY <4>1
      <4> QED  BY <3>2, <4>1, <4>2, <4>3
    <3> QED  BY <2>3, <3>4, <3>5
  <2>5. CASE ~\E y \in 1..(k + 1) : Stuck(v[y])
    <3>1. C(b)
      <4>1. CASE ~Usable(v[k + 1]) \/ ReferentIn(tree, dec, n, v[k + 1]) = {}
        <5>1. b = <<v[k + 1]>>
          BY <1>3, <2>1, <4>1
        <5>2. DOMAIN b = {1} /\ b[1] = v[k + 1]
          BY <5>1
        <5> QED  BY <4>1, <5>2 DEF Clean
      <4>2. CASE Usable(v[k + 1]) /\ ReferentIn(tree, dec, n, v[k + 1]) # {}
        <5> DEFINE c == CHOOSE w \in ReferentIn(tree, dec, n, v[k + 1]) : TRUE
        <5>1. b = deeper[c]
          BY <1>3, <2>1, <2>5, <4>2
        <5>2. c \in ReferentIn(tree, dec, n, v[k + 1])
          BY <1>4, <2>1, <4>2
        <5> HIDE DEF c
        <5> QED  BY <2>1, <4>2, <5>1, <5>2
      <4> QED  BY <4>1, <4>2
    <3>2. C(a \o b)
      BY <2>2, <2>3, <3>1, CleanConcat
    <3> QED  BY <2>3, <2>5, <3>2
  <2>6. (\E y \in 1..(k + 1) : Stuck(v[y])) => b = <<v[k + 1]>>
    BY <1>3, <2>1
  <2> QED  BY <2>4, <2>5, <2>6
<1>7. \A k \in Nat : k \in G
  <2> HIDE DEF G
  <2> QED  BY <1>5, <1>6, SetInduction
<1>8. C(Upto(Len(v)))
  BY <1>1, <1>7
<1>9. SubSeq(p, 1, Len(v)) = p
  BY <1>1, <1>2
<1> QED  BY <1>8, <1>9 DEF ExpandedIn, p

(* Every text starts a chain of none, and one more reference can be followed
   from a text than from one that a reference in it stands for. *)
LEMMA ChainedIs ==
    ASSUME NEW n
    PROVE  /\ \A v \in Texts : v \in Chained(n)[0]
           /\ \A k \in 0..(maxVarDepth + 1) : \A v \in Texts : \A x \in DOMAIN v :
                 Usable(v[x]) /\ v \notin Chained(n)[k + 1]
                 => \A w \in Referent(declared, n, v[x]) : w \notin Chained(n)[k]
<1> DEFINE M == maxVarDepth + 2
           D == Texts
           Follows(u, S) == \E y \in DOMAIN u : /\ Usable(u[y])
                                                /\ \E w \in Referent(declared, n, u[y]) : w \in S
           Step(f, j) == {u \in D : j > 0 => Follows(u, f[j - 1])}
           H(m, f) == f = [j \in 0..m |-> Step(f, j)]
           G == {m \in Nat : \E f : H(m, f)}
<1>1. 0 \in G
  <2> DEFINE f == [j \in 0..0 |-> D]
  <2>1. \A j \in 0..0 : ~(j > 0)
    OBVIOUS
  <2>2. \A j \in 0..0 : Step(f, j) = D
    BY <2>1
  <2> HIDE DEF Step, D
  <2>3. H(0, f)
    BY <2>2
  <2> QED  BY <2>3
<1>2. ASSUME NEW m \in Nat, m \in G
      PROVE  m + 1 \in G
  <2>1. PICK f : H(m, f)
    BY <1>2
  <2> DEFINE g == [j \in 0..(m + 1) |-> Step(f, j)]
  <2>2. \A j \in 0..(m + 1) : Step(g, j) = Step(f, j)
    <3>1. \A j \in 0..m : g[j] = f[j]
      <4> HIDE DEF Step
      <4>1. \A j \in 0..m : j \in 0..(m + 1)
        OBVIOUS
      <4> QED  BY <2>1, <4>1
    <3> HIDE DEF g
    <3>2. \A j \in 0..(m + 1) : j > 0 => g[j - 1] = f[j - 1]
      BY <3>1
    <3> HIDE DEF Follows, D
    <3> QED  BY <3>2
  <2>3. H(m + 1, g)
    <3> HIDE DEF Step
    <3> QED  BY <2>2
  <2> HIDE DEF H, g
  <2> QED  BY <2>3
<1>3. \A m \in Nat : m \in G
  <2> HIDE DEF G
  <2> QED  BY <1>1, <1>2, SetInduction
<1>4. M \in Nat /\ 0 \in 0..M
  BY PagesAssumption
<1>5. \E f : H(M, f)
  BY <1>3, <1>4
<1> DEFINE c == CHOOSE f : H(M, f)
<1>6. Chained(n) = c
  BY Zenon DEF Chained
<1>7. H(M, c)
  <2> HIDE DEF H
  <2> QED  BY <1>5
<1> HIDE DEF c
<1>8. \A j \in 0..M : c[j] = Step(c, j)
  <2> HIDE DEF Step, M
  <2> QED  BY <1>7
<1>9. \A v \in Texts : v \in c[0]
  <2> HIDE DEF Follows
  <2>1. Step(c, 0) = D
    OBVIOUS
  <2> QED  BY <1>4, <1>8, <2>1
<1>10. ASSUME NEW k \in 0..(maxVarDepth + 1), NEW v \in Texts, v \notin c[k + 1]
       PROVE  ~Follows(v, c[k])
  <2>1. k + 1 \in 0..M /\ k + 1 > 0 /\ (k + 1) - 1 = k
    BY PagesAssumption
  <2> HIDE DEF Follows
  <2>2. v \notin Step(c, k + 1)
    BY <1>8, <1>10, <2>1
  <2> QED  BY <2>1, <2>2
<1> QED  BY <1>6, <1>9, <1>10

(* A text from which no chain longer than the cap leads is expanded to the
   end. *)
LEMMA LevelsClean ==
    ASSUME Sound(parent, declared), NEW n
    PROVE  \A k \in 0..(maxVarDepth + 1) : \A v \in Texts \intersect Value :
               v \notin Chained(n)[k + 1] =>
                   Clean(parent, declared, n, Levels(parent, declared, n)[k][v])
<1> DEFINE L == Levels(parent, declared, n)
           M == maxVarDepth + 1
           Cl(u) == Clean(parent, declared, n, u)
           G == {k \in Nat : k \in 0..M => \A v \in Texts \intersect Value :
                                v \notin Chained(n)[k + 1] => Cl(L[k][v])}
<1>1. /\ Texts = TextsOf(declared) /\ \A ref : Referent(declared, n, ref) = ReferentIn(parent, declared, n, ref)
      /\ M \in Nat
  BY ReadsState, PagesAssumption DEF Texts, TextsOf, DeclaredIn
<1>2. /\ \A v \in Texts : L[0][v] = v
      /\ \A k \in 1..M : \A v \in Texts : L[k][v] = ExpandedIn(parent, declared, L[k - 1], n, v)
      /\ \A k \in 0..M : Deeper(declared, L[k])
  BY <1>1, LevelsAre
<1>3. ASSUME NEW v \in Texts \intersect Value, NEW x \in DOMAIN v, Usable(v[x])
      PROVE  \A w \in Referent(declared, n, v[x]) : w \in Texts \intersect Value
  <2>1. v[x] \in Piece
    BY ElementOfSeq DEF Value
  <2> QED  BY <1>1, <1>3, <2>1, ReferentIs
<1>4. ASSUME NEW k \in 0..M, NEW v \in Texts \intersect Value, v \notin Chained(n)[k + 1],
             NEW x \in DOMAIN v, Usable(v[x])
      PROVE  \A w \in Referent(declared, n, v[x]) : w \notin Chained(n)[k]
  BY <1>4, ChainedIs
<1> HIDE DEF L
<1>5. 0 \in G
  <2> SUFFICES ASSUME NEW v \in Texts \intersect Value, v \notin Chained(n)[1], 0 \in 0..M
               PROVE  Cl(v)
    BY <1>2
  <2> SUFFICES ASSUME NEW x \in DOMAIN v, Usable(v[x])
               PROVE  ReferentIn(parent, declared, n, v[x]) = {}
    BY DEF Clean
  <2>1. \A w \in Referent(declared, n, v[x]) : w \notin Chained(n)[0] /\ w \in Texts
    BY <1>3, <1>4
  <2>2. \A w \in Texts : w \in Chained(n)[0]
    BY ChainedIs
  <2> QED  BY <1>1, <2>1, <2>2
<1>6. ASSUME NEW k \in Nat, k \in G
      PROVE  k + 1 \in G
  <2> SUFFICES ASSUME k + 1 \in 0..M, NEW v \in Texts \intersect Value,
                      v \notin Chained(n)[(k + 1) + 1]
               PROVE  Cl(L[k + 1][v])
    OBVIOUS
  <2>1. k \in 0..M /\ k + 1 \in 1..M /\ (k + 1) - 1 = k
    BY <1>1
  <2>2. ASSUME NEW x \in DOMAIN v, Usable(v[x])
        PROVE  \A w \in ReferentIn(parent, declared, n, v[x]) : Cl(L[k][w])
    <3>1. \A w \in Referent(declared, n, v[x]) : w \notin Chained(n)[k + 1] /\ w \in Texts \intersect Value
      BY <1>3, <1>4, <2>2
    <3> HIDE DEF Cl
    <3> QED  BY <1>1, <1>6, <2>1, <3>1
  <2>3. Cl(ExpandedIn(parent, declared, L[k], n, v))
    BY <1>2, <2>1, <2>2, ExpandedClean
  <2> QED  BY <1>2, <2>1, <2>3
<1>7. \A k \in Nat : k \in G
  <2> HIDE DEF G
  <2> QED  BY <1>5, <1>6, SetInduction
<1> QED  BY <1>1, <1>7 DEF L

(* Resolution leaves a client no var() it could have replaced, on every page
   and for every cap: what survives is at the end of a chain longer than the
   cap, behind a var( never closed in a value that does not end in ")", or
   stands for nothing; one never closed in a value that does is no exception
   (variables.go, substitute). *)
THEOREM NothingResolvableLeft == Spec => []NoneResolvableLeft
<1>1. Init => Resolving
  BY ResolvingInit
<1>2. Resolving /\ [Next]_vars => Resolving'
  BY ResolvingStep
<1>3. Resolving => NoneResolvableLeft
  <2> SUFFICES ASSUME Resolving, Finished,
                      NEW n \in DOMAIN byNode, NEW x \in DOMAIN byNode[n],
                      declared[n][x].prop \notin CustomProperty,
                      declared[n][x].value \notin TooDeep(n)
               PROVE  \A y \in DOMAIN byNode[n][x].value :
                         LET v == byNode[n][x].value IN
                         Usable(v[y]) /\ (\A z \in 1..y : ~Stuck(v[z]))
                             => Referent(declared, n, v[y]) = {}
    BY DEF NoneResolvableLeft
  <2>1. Typed /\ Sound(parent, declared) /\ maxVarDepth \in Nat
    BY PagesAssumption DEF Resolving, Typed
  <2> DEFINE d == declared[n][x].value
             v == byNode[n][x].value
  <2>2. v = Levels(parent, declared, n)[maxVarDepth + 1][d]
    BY ResolvedAtEnd, ReadsState
  <2>3. d \in Texts \intersect Value
    BY <2>1, SlotsAre DEF Texts, TextsOf, DeclaredIn
  <2>4. d \notin Chained(n)[(maxVarDepth + 1) + 1]
    BY <2>1 DEF TooDeep
  <2>5. maxVarDepth + 1 \in 0..(maxVarDepth + 1)
    BY <2>1
  <2>6. Clean(parent, declared, n, v)
    BY <2>1, <2>2, <2>3, <2>4, <2>5, LevelsClean
  <2> QED  BY <2>6, ReadsState DEF Clean
<1> QED  BY <1>1, <1>2, <1>3, PTL DEF Spec

=============================================================================
