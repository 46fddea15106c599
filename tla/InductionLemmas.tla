-------------------------- MODULE InductionLemmas --------------------------
(***************************************************************************)
(* Facts about sequences that rest on induction. The induction principles  *)
(* of the library take an operator as a parameter, which the provers       *)
(* cannot instantiate; every induction here goes by the least              *)
(* counterexample instead, which exists because < is well founded.         *)
(***************************************************************************)
EXTENDS Integers, Sequences, SequencesExt,
        SequenceTheorems, NaturalsInduction, WellFoundedInduction, TLAPS

(* A non-empty set of natural numbers has a least element. *)
LEMMA Least ==
    ASSUME NEW S \in SUBSET Nat, S # {}
    PROVE  \E x \in S : \A y \in S : x <= y
<1>1. IsWellFoundedOn(OpToRel(<, Nat), Nat)
  BY NatLessThanWellFounded
<1>2. PICK x \in S : \A y \in S : <<y, x>> \notin OpToRel(<, Nat)
  BY <1>1, WFMin, Zenon
<1>3. \A y \in S : x <= y
  <2> SUFFICES ASSUME NEW y \in S, y < x PROVE FALSE
    OBVIOUS
  <2>1. <<y, x>> \in OpToRel(<, Nat)
    BY DEF OpToRel
  <2> QED  BY <1>2, <2>1
<1> QED  BY <1>3

(* A non-empty set of natural numbers has a minimum. *)
LEMMA MinIs ==
    ASSUME NEW S \in SUBSET Nat, S # {}
    PROVE  Min(S) \in S /\ \A y \in S : Min(S) <= y
<1>1. \E x \in S : \A y \in S : x =< y
  BY Least
<1> QED  BY <1>1, Zenon DEF Min

(* Induction, with the property as a set: what holds of 0, and of n + 1
   whenever it holds of n, holds of every natural number. *)
LEMMA SetInduction ==
    ASSUME NEW G, 0 \in G, \A n \in Nat : n \in G => n + 1 \in G
    PROVE  \A n \in Nat : n \in G
<1> DEFINE T == {n \in Nat : n \notin G}
<1> SUFFICES ASSUME T # {} PROVE FALSE
  OBVIOUS
<1>1. T \in SUBSET Nat
  OBVIOUS
<1> HIDE DEF T
<1>2. PICK n \in T : \A y \in T : n <= y
  BY <1>1, Least
<1>3. n \in Nat /\ n \notin G /\ n # 0
  BY DEF T
<1>4. n - 1 \in Nat /\ n - 1 \notin T
  BY <1>1, <1>2, <1>3
<1>5. n - 1 \in G
  BY <1>4 DEF T
<1>6. (n - 1) + 1 \in G
  BY <1>4, <1>5
<1> QED  BY <1>3, <1>6

(* A non-empty sequence of integers has a first maximum. *)
LEMMA FirstMaximum ==
    ASSUME NEW m \in Nat, m > 0, NEW f, \A i \in 1..m : f[i] \in Int
    PROVE  \E r \in 1..m : \A i \in 1..m : /\ i < r => f[r] > f[i]
                                           /\ i > r => f[i] <= f[r]
<1> DEFINE P(n) == n \in 1..m => \E r \in 1..n : \A i \in 1..n : /\ i < r => f[r] > f[i]
                                                                 /\ i > r => f[i] <= f[r]
           G == {n \in Nat : P(n)}
<1>1. 0 \in G
  OBVIOUS
<1>2. ASSUME NEW n \in Nat, P(n), n + 1 \in 1..m
      PROVE  P(n + 1)
  <2>1. CASE n = 0
    BY <1>2, <2>1
  <2>2. CASE n # 0
    <3>1. PICK r \in 1..n : \A i \in 1..n : (i < r => f[r] > f[i]) /\ (i > r => f[i] <= f[r])
      BY <1>2, <2>2
    <3>2. f[r] \in Int /\ f[n + 1] \in Int /\ \A i \in 1..n : f[i] \in Int
      BY <1>2
    <3>3. \A i \in 1..(n + 1) : i \in 1..n \/ i = n + 1
      OBVIOUS
    <3>4. CASE f[n + 1] > f[r]
      <4>1. \A i \in 1..n : f[i] <= f[r]
        BY <3>1, <3>2
      <4>2. \A i \in 1..(n + 1) : (i < n + 1 => f[n + 1] > f[i]) /\ (i > n + 1 => f[i] <= f[n + 1])
        BY <3>2, <3>3, <3>4, <4>1
      <4> QED  BY <4>2
    <3>5. CASE ~(f[n + 1] > f[r])
      <4>1. \A i \in 1..(n + 1) : (i < r => f[r] > f[i]) /\ (i > r => f[i] <= f[r])
        BY <3>1, <3>2, <3>3, <3>5
      <4> QED  BY <4>1
    <3> QED  BY <3>4, <3>5
  <2> QED  BY <2>1, <2>2
<1>3. ASSUME NEW n \in Nat, n \in G
      PROVE  n + 1 \in G
  BY <1>2, <1>3
<1> HIDE DEF G
<1>4. m \in G
  BY <1>1, <1>3, SetInduction
<1>5. P(m)
  BY <1>4 DEF G
<1> QED  BY <1>5

-----------------------------------------------------------------------------
(* FlattenSeq of the community modules *)

(* What the recursive function in FlattenSeq is, up to position n. *)
FlattenUpTo(seqs, n, f) == f = [i \in 1..n |-> IF i = 1 THEN seqs[i] ELSE f[i - 1] \o seqs[i]]

(* The recursive function inside FlattenSeq exists for every length. *)
LEMMA FlattenExists ==
    ASSUME NEW seqs, NEW m \in Nat
    PROVE  \E f : FlattenUpTo(seqs, m, f)
<1> DEFINE G == {n \in Nat : \E f : FlattenUpTo(seqs, n, f)}
<1>1. 0 \in G
  <2>1. FlattenUpTo(seqs, 0, <<>>)
    BY DEF FlattenUpTo
  <2> QED  BY <2>1
<1>2. ASSUME NEW n \in Nat, n \in G
      PROVE  n + 1 \in G
  <2>1. PICK f : FlattenUpTo(seqs, n, f)
    BY <1>2
  <2> DEFINE g == [i \in 1..(n + 1) |->
                     IF i = n + 1 THEN (IF i = 1 THEN seqs[i] ELSE f[i - 1] \o seqs[i]) ELSE f[i]]
  <2>2. \A i \in 1..n : f[i] = IF i = 1 THEN seqs[i] ELSE f[i - 1] \o seqs[i]
    BY <2>1 DEF FlattenUpTo
  <2>3. \A i \in 1..(n + 1) : g[i] = IF i = 1 THEN seqs[i] ELSE g[i - 1] \o seqs[i]
    BY <2>2
  <2>4. FlattenUpTo(seqs, n + 1, g)
    BY <2>3 DEF FlattenUpTo
  <2> QED  BY <2>4
<1> HIDE DEF G
<1>3. m \in G
  BY <1>1, <1>2, SetInduction
<1> QED  BY <1>3 DEF G

(* FlattenSeq is the last value of a function that satisfies its recursion. *)
LEMMA FlattenRecursion ==
    ASSUME NEW seqs, Len(seqs) \in Nat, Len(seqs) # 0
    PROVE  \E f : /\ FlattenSeq(seqs) = f[Len(seqs)]
                  /\ \A i \in 1..Len(seqs) : f[i] = IF i = 1 THEN seqs[i] ELSE f[i - 1] \o seqs[i]
<1> DEFINE F == CHOOSE f : FlattenUpTo(seqs, Len(seqs), f)
<1>1. FlattenUpTo(seqs, Len(seqs), F)
  BY FlattenExists, Zenon
<1>2. FlattenSeq(seqs) = F[Len(seqs)]
  BY Zenon DEF FlattenSeq, FlattenUpTo
<1> HIDE DEF F
<1>3. \A i \in 1..Len(seqs) : F[i] = IF i = 1 THEN seqs[i] ELSE F[i - 1] \o seqs[i]
  BY <1>1 DEF FlattenUpTo
<1> QED  BY <1>2, <1>3

(***************************************************************************)
(* What FlattenSeq returns is a sequence of the elements of the sequences  *)
(* flattened: every one of its elements comes from one of them, in their   *)
(* order, and none is left out.                                            *)
(***************************************************************************)
THEOREM FlattenIs ==
    ASSUME NEW S, NEW seqs \in Seq(Seq(S))
    PROVE  /\ FlattenSeq(seqs) \in Seq(S)
           /\ \E from \in [DOMAIN FlattenSeq(seqs) -> DOMAIN seqs] :
                 /\ \A i \in DOMAIN FlattenSeq(seqs) :
                       \E j \in DOMAIN seqs[from[i]] : FlattenSeq(seqs)[i] = seqs[from[i]][j]
                 /\ \A i, k \in DOMAIN FlattenSeq(seqs) : i < k => from[i] <= from[k]
                 /\ \A k \in DOMAIN seqs : \A j \in DOMAIN seqs[k] :
                       \E i \in DOMAIN FlattenSeq(seqs) : FlattenSeq(seqs)[i] = seqs[k][j]
<1> DEFINE Comes(s, from, n) ==
              /\ \A i \in DOMAIN s : /\ from[i] \in 1..n
                                     /\ \E j \in DOMAIN seqs[from[i]] : s[i] = seqs[from[i]][j]
              /\ \A i, k \in DOMAIN s : i < k => from[i] <= from[k]
              /\ \A k \in 1..n : \A j \in DOMAIN seqs[k] : \E i \in DOMAIN s : s[i] = seqs[k][j]
<1>1. Len(seqs) \in Nat /\ DOMAIN seqs = 1..Len(seqs) /\ \A n \in 1..Len(seqs) : seqs[n] \in Seq(S)
  OBVIOUS
<1>2. CASE Len(seqs) = 0
  <2>1. FlattenSeq(seqs) = seqs /\ seqs = <<>>
    BY <1>2 DEF FlattenSeq
  <2>2. <<>> \in Seq(S) /\ DOMAIN <<>> = {} /\ <<>> \in [{} -> {}]
    OBVIOUS
  <2> QED  BY <2>1, <2>2
<1>3. CASE Len(seqs) # 0
  <2>1. PICK f : /\ FlattenSeq(seqs) = f[Len(seqs)]
                 /\ \A i \in 1..Len(seqs) : f[i] = IF i = 1 THEN seqs[i] ELSE f[i - 1] \o seqs[i]
    BY <1>1, <1>3, FlattenRecursion
  <2> DEFINE P(n) == n \in 1..Len(seqs) =>
                        /\ f[n] \in Seq(S)
                        /\ \E from \in [DOMAIN f[n] -> Nat] : Comes(f[n], from, n)
             G == {n \in Nat : P(n)}
  <2>2. 0 \in G
    <3>1. 0 \notin 1..Len(seqs)
      BY <1>1
    <3> HIDE DEF Comes
    <3> QED  BY <3>1
  <2>3. ASSUME NEW n \in Nat, P(n), n + 1 \in 1..Len(seqs)
        PROVE  P(n + 1)
    <3>1. CASE n = 0
      <4>1. f[1] = seqs[1] /\ seqs[1] \in Seq(S)
        BY <1>1, <2>1, <2>3, <3>1
      <4> DEFINE s1 == seqs[1]
                 from == [i \in DOMAIN s1 |-> 1]
      <4>2. \A i \in DOMAIN s1 : /\ from[i] = 1
                                 /\ \E j \in DOMAIN seqs[1] : s1[i] = seqs[1][j]
        OBVIOUS
      <4>3. from \in [DOMAIN f[1] -> Nat]
        BY <4>1
      <4> HIDE DEF from, s1
      <4>4. Comes(s1, from, 1)
        <5>1. \A i \in DOMAIN s1 : from[i] \in 1..1 /\ \E j \in DOMAIN seqs[from[i]] : s1[i] = seqs[from[i]][j]
          <6> TAKE i \in DOMAIN s1
          <6>1. from[i] = 1
            BY <4>2
          <6>2. seqs[from[i]] = seqs[1]
            BY <6>1
          <6> QED  BY <4>2, <6>1, <6>2
        <5>2. \A i, k \in DOMAIN s1 : i < k => from[i] <= from[k]
          BY <4>2
        <5>3. \A k \in 1..1 : \A j \in DOMAIN seqs[k] : \E i \in DOMAIN s1 : s1[i] = seqs[k][j]
          <6> TAKE k \in 1..1
          <6>1. k = 1
            OBVIOUS
          <6>2. \A j \in DOMAIN seqs[1] : \E i \in DOMAIN s1 : s1[i] = seqs[1][j]
            BY Zenon DEF s1
          <6> QED  BY <6>1, <6>2
        <5> QED  BY <5>1, <5>2, <5>3
      <4>5. s1 = f[1]
        BY <4>1 DEF s1
      <4> HIDE DEF Comes
      <4>6. f[1] \in Seq(S) /\ Comes(f[1], from, 1)
        BY <4>1, <4>4, <4>5
      <4>7. P(1)
        BY <4>3, <4>6
      <4> QED  BY <3>1, <4>7
    <3>2. CASE n # 0
      <4>1. n \in 1..Len(seqs)
        BY <1>1, <2>3, <3>2
      <4>2. PICK a \in [DOMAIN f[n] -> Nat] : Comes(f[n], a, n)
        <5> HIDE DEF Comes
        <5> QED  BY <2>3, <4>1
      <4> DEFINE u == f[n]
                 v == seqs[n + 1]
                 w == f[n + 1]
                 b == [i \in DOMAIN w |-> IF i <= Len(u) THEN a[i] ELSE n + 1]
      <4>3. u \in Seq(S)
        <5> HIDE DEF Comes
        <5> QED  BY <2>3, <4>1
      <4>4. v \in Seq(S) /\ w = u \o v
        <5>1. n + 1 # 1 /\ (n + 1) - 1 = n
          BY <3>2
        <5> QED  BY <1>1, <2>1, <2>3, <5>1
      <4>5. /\ \A i \in DOMAIN u : a[i] \in 1..n /\ \E j \in DOMAIN seqs[a[i]] : u[i] = seqs[a[i]][j]
            /\ \A i, k \in DOMAIN u : i < k => a[i] <= a[k]
            /\ \A k \in 1..n : \A j \in DOMAIN seqs[k] : \E i \in DOMAIN u : u[i] = seqs[k][j]
        BY <4>2
      <4> HIDE DEF P, u, v, w
      <4>6. /\ w \in Seq(S) /\ Len(u) \in Nat /\ Len(v) \in Nat
            /\ DOMAIN u = 1..Len(u) /\ DOMAIN v = 1..Len(v) /\ DOMAIN w = 1..(Len(u) + Len(v))
            /\ \A i \in DOMAIN u : w[i] = u[i]
            /\ \A i \in DOMAIN w : i > Len(u) => i - Len(u) \in DOMAIN v /\ w[i] = v[i - Len(u)]
            /\ \A i \in DOMAIN u : i \in DOMAIN w
            /\ \A j \in DOMAIN v : Len(u) + j \in DOMAIN w /\ w[Len(u) + j] = v[j]
        BY <4>3, <4>4
      <4>7. /\ \A i \in DOMAIN w : i <= Len(u) => i \in DOMAIN u /\ b[i] = a[i]
            /\ \A i \in DOMAIN w : ~(i <= Len(u)) => b[i] = n + 1
        BY <4>6
      <4> HIDE DEF b
      <4>8. ASSUME NEW i \in DOMAIN w
            PROVE  b[i] \in 1..(n + 1) /\ \E j \in DOMAIN seqs[b[i]] : w[i] = seqs[b[i]][j]
        <5>1. CASE i <= Len(u)
          <6>1. i \in DOMAIN u /\ b[i] = a[i] /\ w[i] = u[i] /\ a[i] \in 1..n
            BY <4>5, <4>6, <4>7, <5>1
          <6>2. PICK j \in DOMAIN seqs[a[i]] : u[i] = seqs[a[i]][j]
            BY <4>5, <6>1
          <6>3. j \in DOMAIN seqs[b[i]] /\ w[i] = seqs[b[i]][j]
            BY <6>1, <6>2, Zenon
          <6> QED  BY <6>1, <6>3
        <5>2. CASE ~(i <= Len(u))
          <6>1. b[i] = n + 1 /\ i - Len(u) \in DOMAIN v /\ w[i] = v[i - Len(u)]
            BY <4>6, <4>7, <5>2
          <6>2. i - Len(u) \in DOMAIN seqs[b[i]] /\ w[i] = seqs[b[i]][i - Len(u)]
            BY <6>1, Zenon DEF v
          <6> QED  BY <6>1, <6>2
        <5> QED  BY <5>1, <5>2
      <4>9. ASSUME NEW i \in DOMAIN w, NEW k \in DOMAIN w, i < k
            PROVE  b[i] <= b[k]
        <5>1. CASE k <= Len(u)
          <6>1. i <= Len(u)
            BY <4>6, <4>9, <5>1
          <6>2. i \in DOMAIN u /\ k \in DOMAIN u /\ b[i] = a[i] /\ b[k] = a[k]
            BY <4>7, <5>1, <6>1
          <6> QED  BY <4>5, <4>9, <6>2
        <5>2. CASE ~(k <= Len(u))
          <6>1. b[k] = n + 1
            BY <4>7, <5>2
          <6>2. b[i] \in 1..(n + 1)
            BY <4>8
          <6> QED  BY <6>1, <6>2
        <5> QED  BY <5>1, <5>2
      <4>10. b \in [DOMAIN w -> Nat]
        BY <4>8 DEF b
      <4>11. Comes(w, b, n + 1)
        <5>1. ASSUME NEW k \in 1..(n + 1), NEW j \in DOMAIN seqs[k]
              PROVE  \E i \in DOMAIN w : w[i] = seqs[k][j]
          <6>1. CASE k \in 1..n
            <7>1. PICK i \in DOMAIN u : u[i] = seqs[k][j]
              BY <4>5, <6>1
            <7> QED  BY <4>6, <7>1
          <6>2. CASE k = n + 1
            <7>1. j \in DOMAIN v /\ seqs[k][j] = v[j]
              BY <6>2 DEF v
            <7> QED  BY <4>6, <7>1
          <6> QED  BY <6>1, <6>2
        <5> QED  BY <4>8, <4>9, <5>1
      <4> HIDE DEF Comes
      <4>12. f[n + 1] \in Seq(S) /\ b \in [DOMAIN f[n + 1] -> Nat] /\ Comes(f[n + 1], b, n + 1)
        BY <4>6, <4>10, <4>11, Zenon DEF w
      <4> QED  BY <4>12 DEF P
    <3> HIDE DEF P
    <3> QED  BY <3>1, <3>2
  <2>4. ASSUME NEW n \in Nat, n \in G
        PROVE  n + 1 \in G
    <3>1. P(n) /\ n + 1 \in Nat
      <4> HIDE DEF P
      <4> QED  BY <2>4
    <3>2. CASE n + 1 \in 1..Len(seqs)
      <4> HIDE DEF P
      <4> QED  BY <2>3, <3>1, <3>2
    <3>3. CASE n + 1 \notin 1..Len(seqs)
      <4> HIDE DEF Comes
      <4> QED  BY <3>1, <3>3
    <3> QED  BY <3>2, <3>3
  <2>5. Len(seqs) \in G
    <3> HIDE DEF G
    <3> QED  BY <1>1, <2>2, <2>4, SetInduction
  <2> DEFINE flat == FlattenSeq(seqs)
  <2>6. f[Len(seqs)] \in Seq(S) /\ \E from \in [DOMAIN f[Len(seqs)] -> Nat] : Comes(f[Len(seqs)], from, Len(seqs))
    <3>1. Len(seqs) \in 1..Len(seqs)
      BY <1>1, <1>3
    <3> HIDE DEF Comes
    <3> QED  BY <2>5, <3>1
  <2>7. flat = f[Len(seqs)]
    BY <2>1
  <2> HIDE DEF flat
  <2>8. PICK from \in [DOMAIN flat -> Nat] : Comes(flat, from, Len(seqs))
    <3> HIDE DEF Comes
    <3> QED  BY <2>6, <2>7
  <2>9. from \in [DOMAIN flat -> DOMAIN seqs]
    BY <1>1, <2>8
  <2>10. flat \in Seq(S)
    BY <2>6, <2>7
  <2>11. \A k \in DOMAIN seqs : \A j \in DOMAIN seqs[k] : \E i \in DOMAIN flat : flat[i] = seqs[k][j]
    BY <1>1, <2>8
  <2> QED  BY <2>8, <2>9, <2>10, <2>11 DEF flat
<1> QED  BY <1>2, <1>3

(* The part that says where elements come from. *)
THEOREM FlattenOrigins ==
    ASSUME NEW S, NEW seqs \in Seq(Seq(S))
    PROVE  /\ FlattenSeq(seqs) \in Seq(S)
           /\ \E from \in [DOMAIN FlattenSeq(seqs) -> DOMAIN seqs] :
                 /\ \A i \in DOMAIN FlattenSeq(seqs) :
                       \E j \in DOMAIN seqs[from[i]] : FlattenSeq(seqs)[i] = seqs[from[i]][j]
                 /\ \A i, k \in DOMAIN FlattenSeq(seqs) : i < k => from[i] <= from[k]
  BY FlattenIs, Zenon

(* Flattening one sequence more appends it. *)
LEMMA FlattenAppend ==
    ASSUME NEW S, NEW u \in Seq(Seq(S)), NEW v \in Seq(Seq(S)),
           Len(v) = Len(u) + 1, \A i \in DOMAIN u : v[i] = u[i]
    PROVE  FlattenSeq(v) = FlattenSeq(u) \o v[Len(v)]
<1>1. /\ Len(u) \in Nat /\ DOMAIN u = 1..Len(u) /\ DOMAIN v = 1..(Len(u) + 1)
      /\ \A i \in DOMAIN v : v[i] \in Seq(S)
  OBVIOUS
<1>2. PICK g : /\ FlattenSeq(v) = g[Len(v)]
               /\ \A i \in 1..Len(v) : g[i] = IF i = 1 THEN v[i] ELSE g[i - 1] \o v[i]
  BY <1>1, FlattenRecursion
<1>3. CASE Len(u) = 0
  <2>1. u = <<>> /\ FlattenSeq(u) = u
    BY <1>3 DEF FlattenSeq
  <2>2. g[Len(v)] = v[Len(v)] /\ v[Len(v)] \in Seq(S)
    BY <1>1, <1>2, <1>3
  <2> DEFINE last == v[Len(v)]
  <2>3. <<>> \o last = last
    BY <2>2
  <2> QED  BY <1>2, <2>1, <2>2, <2>3
<1>4. CASE Len(u) # 0
  <2>1. PICK f : /\ FlattenSeq(u) = f[Len(u)]
                 /\ \A i \in 1..Len(u) : f[i] = IF i = 1 THEN u[i] ELSE f[i - 1] \o u[i]
    BY <1>1, <1>4, FlattenRecursion
  <2> DEFINE G == {n \in Nat : n \in 1..Len(u) => f[n] = g[n]}
  <2>2. 0 \in G
    OBVIOUS
  <2>3. ASSUME NEW n \in Nat, n \in G
        PROVE  n + 1 \in G
    <3> SUFFICES ASSUME n + 1 \in 1..Len(u) PROVE f[n + 1] = g[n + 1]
      OBVIOUS
    <3>1. n + 1 \in 1..Len(v) /\ v[n + 1] = u[n + 1] /\ (n + 1) - 1 = n
      <4>1. n + 1 \in DOMAIN u
        BY <1>1
      <4>2. n + 1 \in 1..(Len(u) + 1) /\ (n + 1) - 1 = n
        BY <1>1
      <4> QED  BY <4>1, <4>2
    <3>2. f[n + 1] = IF n + 1 = 1 THEN u[n + 1] ELSE f[n] \o u[n + 1]
      BY <2>1, <3>1
    <3>3. g[n + 1] = IF n + 1 = 1 THEN u[n + 1] ELSE g[n] \o u[n + 1]
      BY <1>2, <3>1
    <3>4. n + 1 # 1 => f[n] = g[n]
      BY <1>1, <2>3
    <3> QED  BY <3>2, <3>3, <3>4
  <2> HIDE DEF G
  <2>4. Len(u) \in G
    BY <1>1, <2>2, <2>3, SetInduction
  <2>5. f[Len(u)] = g[Len(u)]
    BY <1>1, <1>4, <2>4 DEF G
  <2>6. g[Len(v)] = g[Len(u)] \o v[Len(v)]
    <3>1. Len(v) \in 1..Len(v) /\ Len(v) # 1 /\ Len(v) - 1 = Len(u)
      BY <1>1, <1>4
    <3> QED  BY <1>2, <3>1
  <2> QED  BY <1>2, <2>1, <2>5, <2>6
<1> QED  BY <1>3, <1>4

(* One sequence is itself. *)
LEMMA FlattenOne ==
    ASSUME NEW S, NEW u \in Seq(S)
    PROVE  FlattenSeq(<<u>>) = u
<1>1. <<>> \in Seq(Seq(S)) /\ <<u>> \in Seq(Seq(S)) /\ Len(<<u>>) = Len(<<>>) + 1 /\ DOMAIN <<>> = {}
  OBVIOUS
<1>2. FlattenSeq(<<u>>) = FlattenSeq(<<>>) \o <<u>>[Len(<<u>>)]
  BY <1>1, FlattenAppend
<1>3. FlattenSeq(<<>>) = <<>>
  BY DEF FlattenSeq
<1> QED  BY <1>2, <1>3

(* Elements one by one are the sequence of them. *)
LEMMA FlattenSingles ==
    ASSUME NEW S, NEW u \in Seq(S)
    PROVE  FlattenSeq([x \in DOMAIN u |-> <<u[x]>>]) = u
<1> DEFINE Upto(n) == SubSeq(u, 1, n)
           Parts(n) == [x \in 1..n |-> <<u[x]>>]
           G == {n \in Nat : n <= Len(u) => FlattenSeq(Parts(n)) = Upto(n)}
<1>1. Len(u) \in Nat /\ DOMAIN u = 1..Len(u)
  OBVIOUS
<1>2. 0 \in G
  <2>1. Parts(0) = <<>> /\ Upto(0) = <<>>
    OBVIOUS
  <2>2. FlattenSeq(<<>>) = <<>>
    BY DEF FlattenSeq
  <2> QED  BY <2>1, <2>2
<1>3. ASSUME NEW n \in Nat, n \in G
      PROVE  n + 1 \in G
  <2> HIDE DEF Parts, Upto
  <2> SUFFICES ASSUME n + 1 <= Len(u) PROVE FlattenSeq(Parts(n + 1)) = Upto(n + 1)
    OBVIOUS
  <2>1. n <= Len(u) /\ FlattenSeq(Parts(n)) = Upto(n)
    BY <1>1, <1>3
  <2>2. ASSUME NEW m \in Nat, m <= Len(u)
        PROVE  Parts(m) \in Seq(Seq(S)) /\ Len(Parts(m)) = m /\ DOMAIN Parts(m) = 1..m
    <3>1. \A x \in 1..m : u[x] \in S
      BY <1>1, <2>2
    <3> QED  BY <2>2, <3>1, SeqDef DEF Parts
  <2>3. /\ Parts(n) \in Seq(Seq(S)) /\ Parts(n + 1) \in Seq(Seq(S))
        /\ Len(Parts(n + 1)) = Len(Parts(n)) + 1
        /\ \A x \in DOMAIN Parts(n) : Parts(n + 1)[x] = Parts(n)[x]
        /\ Parts(n + 1)[Len(Parts(n + 1))] = <<u[n + 1]>>
    <3>1. n + 1 \in Nat /\ n + 1 \in 1..(n + 1) /\ \A x \in 1..n : x \in 1..(n + 1)
      OBVIOUS
    <3>2. /\ \A x \in 1..n : Parts(n + 1)[x] = Parts(n)[x]
          /\ Parts(n + 1)[n + 1] = <<u[n + 1]>>
      BY <3>1 DEF Parts
    <3> QED  BY <2>1, <2>2, <3>1, <3>2
  <2>4. FlattenSeq(Parts(n + 1)) = Upto(n) \o <<u[n + 1]>>
    <3> HIDE DEF Parts, Upto
    <3> QED  BY <2>1, <2>3, FlattenAppend
  <2>5. Upto(n + 1) = Upto(n) \o <<u[n + 1]>>
    BY <1>1 DEF Upto
  <2> QED  BY <2>4, <2>5
<1> HIDE DEF G
<1>4. Len(u) \in G
  BY <1>1, <1>2, <1>3, SetInduction
<1>5. FlattenSeq(Parts(Len(u))) = Upto(Len(u))
  BY <1>1, <1>4 DEF G
<1>6. Upto(Len(u)) = u /\ Parts(Len(u)) = [x \in DOMAIN u |-> <<u[x]>>]
  BY <1>1
<1> QED  BY <1>5, <1>6

(* Sequences over S may be concatenated from either end. *)
Associative(S) == \A a, b, c \in Seq(S) : (a \o b) \o c = a \o (b \o c)

(* Concatenation is associative. *)
LEMMA Associates == \A S : Associative(S)
  BY ConcatAssociative DEF Associative

(* The sequences v up to n, behind those of u. *)
Behind(u, v, n) == u \o SubSeq(v, 1, n)

(* Flattening two lists of sequences in a row is flattening each. *)
LEMMA FlattenConcat ==
    ASSUME NEW S, NEW u \in Seq(Seq(S)), NEW v \in Seq(Seq(S))
    PROVE  FlattenSeq(u \o v) = FlattenSeq(u) \o FlattenSeq(v)
<1>0. Associative(S)
  BY Associates
<1> DEFINE Upto(n) == SubSeq(v, 1, n)
           G == {n \in Nat : n <= Len(v) =>
                    FlattenSeq(Behind(u, v, n)) = FlattenSeq(u) \o FlattenSeq(Upto(n))}
<1>1. Len(u) \in Nat /\ Len(v) \in Nat /\ DOMAIN v = 1..Len(v)
  OBVIOUS
<1>2. ASSUME NEW n \in Nat, n <= Len(v)
      PROVE  /\ Upto(n) \in Seq(Seq(S)) /\ Len(Upto(n)) = n /\ DOMAIN Upto(n) = 1..n
             /\ \A x \in 1..n : Upto(n)[x] = v[x]
             /\ Behind(u, v, n) \in Seq(Seq(S)) /\ Len(Behind(u, v, n)) = Len(u) + n
             /\ DOMAIN Behind(u, v, n) = 1..(Len(u) + n)
             /\ \A x \in 1..(Len(u) + n) :
                   Behind(u, v, n)[x] = IF x <= Len(u) THEN u[x] ELSE v[x - Len(u)]
  <2>1. /\ Upto(n) \in Seq(Seq(S)) /\ Len(Upto(n)) = n /\ DOMAIN Upto(n) = 1..n
        /\ \A x \in 1..n : Upto(n)[x] = v[x]
    BY <1>1, <1>2
  <2>2. Behind(u, v, n) = u \o Upto(n)
    BY DEF Behind
  <2> HIDE DEF Upto
  <2>3. /\ Behind(u, v, n) \in Seq(Seq(S)) /\ Len(Behind(u, v, n)) = Len(u) + n
        /\ DOMAIN Behind(u, v, n) = 1..(Len(u) + n)
    <3>1. \A w \in Seq(Seq(S)) : u \o w \in Seq(Seq(S)) /\ Len(u \o w) = Len(u) + Len(w)
                                                        /\ DOMAIN (u \o w) = 1..(Len(u) + Len(w))
      OBVIOUS
    <3> QED  BY <2>1, <2>2, <3>1
  <2>4. \A x \in 1..(Len(u) + n) :
           Behind(u, v, n)[x] = IF x <= Len(u) THEN u[x] ELSE v[x - Len(u)]
    BY <1>1, <2>1, <2>2, ConcatProperties
  <2> QED  BY <2>1, <2>3, <2>4
<1>3. 0 \in G
  <2>1. Upto(0) = <<>> /\ Behind(u, v, 0) = u
    BY DEF Behind
  <2>2. FlattenSeq(<<>>) = <<>>
    BY DEF FlattenSeq
  <2>3. FlattenSeq(u) \in Seq(S)
    BY FlattenIs
  <2>4. FlattenSeq(u) \o <<>> = FlattenSeq(u)
    BY <2>3
  <2> QED  BY <2>1, <2>2, <2>4
<1> HIDE DEF Upto
<1>4. ASSUME NEW n \in Nat, n \in G
      PROVE  n + 1 \in G
  <2> SUFFICES ASSUME n + 1 <= Len(v)
               PROVE  FlattenSeq(Behind(u, v, n + 1)) = FlattenSeq(u) \o FlattenSeq(Upto(n + 1))
    OBVIOUS
  <2>1. n <= Len(v) /\ n + 1 \in Nat /\ n + 1 \in 1..Len(v)
    BY <1>1
  <2>2. FlattenSeq(Behind(u, v, n)) = FlattenSeq(u) \o FlattenSeq(Upto(n))
    BY <1>4, <2>1
  <2>3. /\ Upto(n) \in Seq(Seq(S)) /\ Upto(n + 1) \in Seq(Seq(S))
        /\ Len(Upto(n + 1)) = Len(Upto(n)) + 1
        /\ \A x \in DOMAIN Upto(n) : Upto(n + 1)[x] = Upto(n)[x]
        /\ Upto(n + 1)[Len(Upto(n + 1))] = v[n + 1]
    <3>1. /\ Upto(n) \in Seq(Seq(S)) /\ Len(Upto(n)) = n /\ DOMAIN Upto(n) = 1..n
          /\ \A x \in 1..n : Upto(n)[x] = v[x]
      BY <1>2, <2>1
    <3>2. /\ Upto(n + 1) \in Seq(Seq(S)) /\ Len(Upto(n + 1)) = n + 1
          /\ \A x \in 1..(n + 1) : Upto(n + 1)[x] = v[x]
      BY <1>2, <2>1
    <3>3. n + 1 \in 1..(n + 1) /\ \A x \in 1..n : x \in 1..(n + 1)
      OBVIOUS
    <3> QED  BY <3>1, <3>2, <3>3
  <2>4. FlattenSeq(Upto(n + 1)) = FlattenSeq(Upto(n)) \o v[n + 1]
    BY <2>3, FlattenAppend
  <2>5. /\ Behind(u, v, n) \in Seq(Seq(S)) /\ Behind(u, v, n + 1) \in Seq(Seq(S))
        /\ Len(Behind(u, v, n + 1)) = Len(Behind(u, v, n)) + 1
        /\ \A x \in DOMAIN Behind(u, v, n) : Behind(u, v, n + 1)[x] = Behind(u, v, n)[x]
        /\ Behind(u, v, n + 1)[Len(Behind(u, v, n + 1))] = v[n + 1]
    <3>1. /\ Behind(u, v, n) \in Seq(Seq(S)) /\ Len(Behind(u, v, n)) = Len(u) + n
          /\ DOMAIN Behind(u, v, n) = 1..(Len(u) + n)
          /\ \A x \in 1..(Len(u) + n) :
                Behind(u, v, n)[x] = IF x <= Len(u) THEN u[x] ELSE v[x - Len(u)]
      BY <1>2, <2>1
    <3>2. /\ Behind(u, v, n + 1) \in Seq(Seq(S)) /\ Len(Behind(u, v, n + 1)) = Len(u) + (n + 1)
          /\ \A x \in 1..(Len(u) + (n + 1)) :
                Behind(u, v, n + 1)[x] = IF x <= Len(u) THEN u[x] ELSE v[x - Len(u)]
      BY <1>2, <2>1
    <3>3. /\ Len(u) + (n + 1) \in 1..(Len(u) + (n + 1)) /\ ~(Len(u) + (n + 1) <= Len(u))
          /\ Len(u) + (n + 1) - Len(u) = n + 1 /\ Len(u) + (n + 1) = (Len(u) + n) + 1
          /\ \A x \in 1..(Len(u) + n) : x \in 1..(Len(u) + (n + 1))
      BY <1>1
    <3>4. Behind(u, v, n + 1)[Len(u) + (n + 1)] = v[n + 1]
      <4> DEFINE y == Len(u) + (n + 1)
      <4>1. y \in 1..y /\ ~(y <= Len(u)) /\ y - Len(u) = n + 1
        BY <3>3
      <4>2. Behind(u, v, n + 1)[y] = IF y <= Len(u) THEN u[y] ELSE v[y - Len(u)]
        BY <3>2, <4>1
      <4> HIDE DEF y
      <4>3. Behind(u, v, n + 1)[y] = v[n + 1]
        BY <4>1, <4>2
      <4> QED  BY <4>3 DEF y
    <3>5. ASSUME NEW x \in 1..(Len(u) + n)
          PROVE  Behind(u, v, n + 1)[x] = Behind(u, v, n)[x]
      <4>1. Behind(u, v, n)[x] = IF x <= Len(u) THEN u[x] ELSE v[x - Len(u)]
        BY <3>1
      <4>2. x \in 1..(Len(u) + (n + 1))
        BY <3>3, <3>5
      <4>3. Behind(u, v, n + 1)[x] = IF x <= Len(u) THEN u[x] ELSE v[x - Len(u)]
        BY <3>2, <4>2
      <4> QED  BY <4>1, <4>3, SMTT(30)
    <3> QED  BY <3>1, <3>2, <3>3, <3>4, <3>5
  <2>6. FlattenSeq(Behind(u, v, n + 1)) = FlattenSeq(Behind(u, v, n)) \o v[n + 1]
    BY <2>5, FlattenAppend
  <2>7. /\ FlattenSeq(u) \in Seq(S) /\ FlattenSeq(Upto(n)) \in Seq(S) /\ v[n + 1] \in Seq(S)
    <3>1. FlattenSeq(u) \in Seq(S)
      BY FlattenIs
    <3>2. FlattenSeq(Upto(n)) \in Seq(S)
      BY <2>3, FlattenIs
    <3>3. v[n + 1] \in Seq(S)
      BY <1>1, <2>1
    <3> QED  BY <3>1, <3>2, <3>3
  <2>8. (FlattenSeq(u) \o FlattenSeq(Upto(n))) \o v[n + 1]
          = FlattenSeq(u) \o (FlattenSeq(Upto(n)) \o v[n + 1])
    BY <1>0, <2>7 DEF Associative
  <2> QED  BY <2>2, <2>4, <2>6, <2>8
<1> HIDE DEF G
<1>5. Len(v) \in G
  BY <1>1, <1>3, <1>4, SetInduction
<1>6. FlattenSeq(Behind(u, v, Len(v))) = FlattenSeq(u) \o FlattenSeq(Upto(Len(v)))
  BY <1>1, <1>5 DEF G
<1>7. Upto(Len(v)) = v
  BY <1>1 DEF Upto
<1>8. Behind(u, v, Len(v)) = u \o v
  BY <1>7 DEF Behind, Upto
<1> QED  BY <1>6, <1>7, <1>8

=============================================================================
