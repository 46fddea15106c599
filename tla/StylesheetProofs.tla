-------------------------- MODULE StylesheetProofs --------------------------
(***************************************************************************)
(* Proofs about module Stylesheet, for any stylesheet the parser can       *)
(* deliver, however long and however deep its blocks are nested.           *)
(***************************************************************************)
EXTENDS Stylesheet, InductionLemmas

-----------------------------------------------------------------------------
(* The numbers of a set in ascending order *)

Single(S, k) == IF k \in S THEN <<k>> ELSE <<>>

Listing(n, S) == FlattenSeq([k \in 1..n |-> Single(S, k)])

(* One number more is appended if it is in the set. *)
LEMMA ListingStep ==
    ASSUME NEW n \in Nat, NEW S
    PROVE  /\ Listing(n, S) \in Seq(Nat)
           /\ Listing(n + 1, S) = IF n + 1 \in S THEN Append(Listing(n, S), n + 1) ELSE Listing(n, S)
<1> DEFINE u == [k \in 1..n |-> Single(S, k)]
           v == [k \in 1..(n + 1) |-> Single(S, k)]
<1>1. \A k \in Nat : Single(S, k) \in Seq(Nat)
  <2> TAKE k \in Nat
  <2>1. <<k>> \in Seq(Nat) /\ <<>> \in Seq(Nat)
    OBVIOUS
  <2> QED  BY <2>1 DEF Single
<1>2. u \in Seq(Seq(Nat)) /\ Len(u) = n
  <2>1. u \in [1..n -> Seq(Nat)]
    BY <1>1
  <2> HIDE DEF u
  <2> QED  BY <2>1, SeqDef
<1>3. v \in Seq(Seq(Nat)) /\ Len(v) = n + 1
  <2>1. v \in [1..(n + 1) -> Seq(Nat)] /\ n + 1 \in Nat
    BY <1>1
  <2> HIDE DEF v
  <2> QED  BY <2>1, SeqDef
<1>4. (\A k \in DOMAIN u : v[k] = u[k]) /\ v[n + 1] = Single(S, n + 1)
  OBVIOUS
<1>5. Listing(n, S) = FlattenSeq(u) /\ Listing(n + 1, S) = FlattenSeq(v)
  BY DEF Listing
<1> HIDE DEF u, v
<1>6. FlattenSeq(u) \in Seq(Nat)
  BY <1>2, FlattenIs
<1>7. FlattenSeq(v) = FlattenSeq(u) \o Single(S, n + 1)
  BY <1>2, <1>3, <1>4, FlattenAppend
<1>8. \A w \in Seq(Nat) : w \o <<n + 1>> = Append(w, n + 1) /\ w \o <<>> = w
  OBVIOUS
<1> QED  BY <1>5, <1>6, <1>7, <1>8 DEF Single

(* Below the first position there is nothing to list. *)
LEMMA ListingOfNone == \A S : Listing(0, S) = <<>>
<1> TAKE S
<1>1. [k \in 1..0 |-> Single(S, k)] = <<>>
  OBVIOUS
<1>2. FlattenSeq(<<>>) = <<>>
  BY DEF FlattenSeq
<1> QED  BY <1>1, <1>2 DEF Listing

(* A listing holds the numbers of the set and no others. *)
LEMMA ListingIs ==
    ASSUME NEW n \in Nat, NEW S
    PROVE  /\ Listing(n, S) \in Seq(1..n)
           /\ \A x \in DOMAIN Listing(n, S) : Listing(n, S)[x] \in S
           /\ \A k \in 1..n : k \in S => \E x \in DOMAIN Listing(n, S) : Listing(n, S)[x] = k
<1> DEFINE P(m) == /\ Listing(m, S) \in Seq(1..m)
                   /\ \A x \in DOMAIN Listing(m, S) : Listing(m, S)[x] \in S
                   /\ \A k \in 1..m : k \in S => \E x \in DOMAIN Listing(m, S) : Listing(m, S)[x] = k
           G == {m \in Nat : P(m)}
<1>1. 0 \in G
  <2>1. Listing(0, S) = <<>>
    BY ListingOfNone
  <2>2. <<>> \in Seq(1..0) /\ DOMAIN <<>> = {} /\ 1..0 = {}
    OBVIOUS
  <2> QED  BY <2>1, <2>2
<1>2. ASSUME NEW m \in Nat, m \in G
      PROVE  m + 1 \in G
  <2> DEFINE u == Listing(m, S)
             v == Listing(m + 1, S)
  <2>1. /\ u \in Seq(1..m)
        /\ \A x \in DOMAIN u : u[x] \in S
        /\ \A k \in 1..m : k \in S => \E x \in DOMAIN u : u[x] = k
    BY <1>2
  <2>2. v = IF m + 1 \in S THEN Append(u, m + 1) ELSE u
    BY ListingStep
  <2> HIDE DEF u, v
  <2>3. u \in Seq(1..(m + 1))
    <3>1. 1..m \subseteq 1..(m + 1)
      OBVIOUS
    <3> QED  BY <2>1, <3>1, SeqDef
  <2>4. CASE m + 1 \notin S
    <3>1. v = u /\ \A k \in 1..(m + 1) : k \in S => k \in 1..m
      BY <2>2, <2>4
    <3>2. P(m + 1)
      BY <2>1, <2>3, <3>1 DEF v
    <3> QED  BY <3>2
  <2>5. CASE m + 1 \in S
    <3>1. v = Append(u, m + 1)
      BY <2>2, <2>5
    <3>2. /\ v \in Seq(1..(m + 1)) /\ Len(v) = Len(u) + 1 /\ Len(u) \in Nat /\ DOMAIN u = 1..Len(u)
          /\ DOMAIN v = 1..(Len(u) + 1)
          /\ v[Len(u) + 1] = m + 1 /\ \A x \in DOMAIN u : v[x] = u[x]
      BY <2>3, <3>1
    <3>3. \A x \in DOMAIN v : x = Len(u) + 1 \/ x \in DOMAIN u
      BY <3>2
    <3>4. \A x \in DOMAIN v : v[x] \in S
      BY <2>1, <2>5, <3>2, <3>3
    <3>5. \A k \in 1..(m + 1) : k = m + 1 \/ k \in 1..m
      OBVIOUS
    <3>6. Len(u) + 1 \in DOMAIN v /\ \A x \in DOMAIN u : x \in DOMAIN v
      BY <3>2
    <3>7. \A k \in 1..(m + 1) : k \in S => \E x \in DOMAIN v : v[x] = k
      BY <2>1, <3>2, <3>5, <3>6
    <3>8. P(m + 1)
      BY <3>2, <3>4, <3>7 DEF v
    <3> QED  BY <3>8
  <2> QED  BY <2>4, <2>5
<1>3. n \in G
  <2> HIDE DEF G
  <2> QED  BY <1>1, <1>2, SetInduction
<1> QED  BY <1>3

(* Numbers beyond the greatest of the set add nothing to the listing. *)
LEMMA ListingSkips ==
    ASSUME NEW m \in Nat, NEW n \in Nat, m <= n, NEW S, \A k \in (m + 1)..n : k \notin S
    PROVE  Listing(n, S) = Listing(m, S)
<1> DEFINE G == {l \in Nat : m + l <= n => Listing(m + l, S) = Listing(m, S)}
<1>1. 0 \in G
  OBVIOUS
<1>2. ASSUME NEW l \in Nat, l \in G
      PROVE  l + 1 \in G
  <2> SUFFICES ASSUME m + (l + 1) <= n PROVE Listing(m + (l + 1), S) = Listing(m, S)
    OBVIOUS
  <2>1. Listing(m + l, S) = Listing(m, S) /\ m + l \in Nat /\ m + (l + 1) = (m + l) + 1
    BY <1>2
  <2>2. (m + l) + 1 \notin S
    OBVIOUS
  <2>3. Listing((m + l) + 1, S) = Listing(m + l, S)
    BY <2>1, <2>2, ListingStep
  <2> QED  BY <2>1, <2>3
<1> HIDE DEF G
<1>3. n - m \in G
  <2>1. n - m \in Nat
    OBVIOUS
  <2> QED  BY <1>1, <1>2, <2>1, SetInduction
<1>4. m + (n - m) = n
  OBVIOUS
<1> QED  BY <1>3, <1>4 DEF G

(* Only the numbers within reach count. *)
LEMMA ListingSame ==
    ASSUME NEW n \in Nat, NEW S, NEW T, \A k \in 1..n : k \in S <=> k \in T
    PROVE  Listing(n, S) = Listing(n, T)
<1>1. [k \in 1..n |-> Single(S, k)] = [k \in 1..n |-> Single(T, k)]
  BY DEF Single
<1> QED  BY <1>1 DEF Listing

(* A number greater than all of the set goes to the end of its listing. *)
LEMMA ListingAdds ==
    ASSUME NEW n \in Nat, NEW b \in 1..n, NEW S, NEW T, \A k \in b..n : k \notin S,
           \A k \in 1..n : k \in T <=> k \in S \/ k = b
    PROVE  Listing(n, T) = Append(Listing(n, S), b)
<1>1. b \in Nat /\ b - 1 \in Nat /\ (b - 1) + 1 = b /\ b <= n /\ b - 1 <= n
  OBVIOUS
<1>2. Listing(n, T) = Listing(b, T)
  <2>1. \A k \in (b + 1)..n : k \notin T
    OBVIOUS
  <2> QED  BY <1>1, <2>1, ListingSkips
<1>3. Listing((b - 1) + 1, T) = Append(Listing(b - 1, T), (b - 1) + 1)
  <2>1. (b - 1) + 1 \in T
    BY <1>1
  <2> QED  BY <1>1, <2>1, ListingStep
<1>4. Listing(b - 1, T) = Listing(b - 1, S)
  <2>1. \A k \in 1..(b - 1) : k \in T <=> k \in S
    OBVIOUS
  <2> QED  BY <1>1, <2>1, ListingSame
<1>5. Listing(n, S) = Listing(b - 1, S)
  <2>1. \A k \in ((b - 1) + 1)..n : k \notin S
    BY <1>1
  <2> QED  BY <1>1, <2>1, ListingSkips
<1> QED  BY <1>1, <1>2, <1>3, <1>4, <1>5

-----------------------------------------------------------------------------
(* The text and the nesting of its blocks *)

(* Front and Last of the community modules. *)
LEMMA FrontIs ==
    ASSUME NEW S, NEW s \in Seq(S), s # <<>>
    PROVE  /\ Front(s) \in Seq(S)
           /\ Len(s) \in Nat \ {0}
           /\ Len(Front(s)) = Len(s) - 1
           /\ DOMAIN Front(s) = 1..(Len(s) - 1)
           /\ \A x \in 1..(Len(s) - 1) : Front(s)[x] = s[x]
           /\ Last(s) = s[Len(s)] /\ Last(s) \in S
           /\ Len(s) \in DOMAIN s
<1>1. Len(s) \in Nat /\ DOMAIN s = 1..Len(s) /\ Len(s) # 0
  OBVIOUS
<1>2. Len(s) - 1 \in Nat /\ Len(s) \in DOMAIN s
  BY <1>1
<1>3. /\ SubSeq(s, 1, Len(s) - 1) \in Seq(S)
      /\ Len(SubSeq(s, 1, Len(s) - 1)) = Len(s) - 1
      /\ \A x \in 1..(Len(s) - 1) : SubSeq(s, 1, Len(s) - 1)[x] = s[x]
  BY <1>1, <1>2
<1>4. s[Len(s)] \in S
  BY <1>2, ElementOfSeq
<1> QED  BY <1>1, <1>2, <1>3, <1>4 DEF Front, Last

(* Event k of text l is written in block b, at any depth. *)
Inside(l, b, k) == \E x \in DOMAIN l[k].path : l[k].path[x] = b

(* Every entry of the text fits where it stands. *)
Entries(l) ==
    /\ l \in Seq(Entry)
    /\ \A k \in DOMAIN l :
          /\ \A x \in DOMAIN l[k].path : l[k].path[x] \in 1..(k - 1)
          /\ l[k].event = "ruleset" => l[k].head \in Selectors
          /\ l[k].event \in {"at-rule", "bodyless"} => l[k].head \in AtKind
          /\ l[k].event = "decl" => l[k].path # <<>>
    /\ \A k \in DOMAIN l : \A b : Inside(l, b, k) => \A a : Inside(l, a, b) => Inside(l, a, k)

(* The blocks o the parser is in: at-rules around at most one ruleset, each
   written in the ones before it, and the text after the outermost one is all
   inside it. *)
Blocks(l, o) ==
    /\ o \in Seq(DOMAIN l)
    /\ \A x \in DOMAIN o :
          /\ l[o[x]].event \in {"at-rule", "ruleset"}
          /\ x < Len(o) => l[o[x]].event = "at-rule"
          /\ Len(l[o[x]].path) = x - 1
          /\ \A y \in 1..(x - 1) : l[o[x]].path[y] = o[y]
    /\ \A x, y \in DOMAIN o : x < y => o[x] < o[y]
    /\ o # <<>> => \A k \in DOMAIN l : k > o[1] => l[k].path # <<>>

(* Text m is text l with one event more, delivered inside the blocks o. *)
Grown(l, o, m) ==
    /\ m \in Seq(Entry)
    /\ Len(m) = Len(l) + 1
    /\ \A k \in DOMAIN l : m[k] = l[k]
    /\ m[Len(m)].path = o
    /\ m[Len(m)].event = "ruleset" => m[Len(m)].head \in Selectors
    /\ m[Len(m)].event \in {"at-rule", "bodyless"} => m[Len(m)].head \in AtKind
    /\ m[Len(m)].event = "decl" => o # <<>>

(* One more entry in the log: its length, and which positions are old. *)
LEMMA GrownIs ==
    ASSUME NEW l, NEW o, NEW m, Entries(l), Blocks(l, o), Grown(l, o, m)
    PROVE  /\ Len(l) \in Nat /\ DOMAIN l = 1..Len(l)
           /\ DOMAIN m = 1..Len(m) /\ Len(m) \in Nat /\ Len(m) \in DOMAIN m /\ Len(m) # 0
           /\ \A k \in DOMAIN m : k = Len(m) \/ k \in DOMAIN l
           /\ \A k \in DOMAIN l : k \in DOMAIN m /\ k \in Nat /\ k < Len(m) /\ k # Len(m)
           /\ Len(o) \in Nat /\ DOMAIN o = 1..Len(o)
           /\ \A x \in DOMAIN o : o[x] \in DOMAIN l
  BY ElementOfSeq DEF Grown, Entries, Blocks

(* What was written in a block still is, and the new event is in the blocks
   that are open. *)
LEMMA InsideGrown ==
    ASSUME NEW l, NEW o, NEW m, Entries(l), Blocks(l, o), Grown(l, o, m)
    PROVE  /\ \A k \in DOMAIN l : \A b : Inside(m, b, k) <=> Inside(l, b, k)
           /\ \A b : Inside(m, b, Len(m)) <=> \E x \in DOMAIN o : o[x] = b
  BY DEF Grown, Inside

(* The text stays in order when an event is added. *)
LEMMA EntriesGrow ==
    ASSUME NEW l, NEW o, NEW m, Entries(l), Blocks(l, o), Grown(l, o, m)
    PROVE  Entries(m)
<1> DEFINE h == Len(m)
<1>1. /\ Len(l) \in Nat /\ DOMAIN l = 1..Len(l)
      /\ DOMAIN m = 1..h /\ h \in Nat /\ h \in DOMAIN m
      /\ \A k \in DOMAIN m : k = h \/ k \in DOMAIN l
      /\ \A k \in DOMAIN l : k \in DOMAIN m /\ k \in Nat /\ k < h
      /\ Len(o) \in Nat /\ DOMAIN o = 1..Len(o)
      /\ \A x \in DOMAIN o : o[x] \in DOMAIN l
  BY GrownIs
<1>2. /\ m \in Seq(Entry)
      /\ \A k \in DOMAIN l : m[k] = l[k]
      /\ m[h].path = o
      /\ m[h].event = "ruleset" => m[h].head \in Selectors
      /\ m[h].event \in {"at-rule", "bodyless"} => m[h].head \in AtKind
      /\ m[h].event = "decl" => o # <<>>
  BY DEF Grown
<1> HIDE DEF h
<1>3. \A k \in DOMAIN m :
          /\ \A x \in DOMAIN m[k].path : m[k].path[x] \in 1..(k - 1)
          /\ m[k].event = "ruleset" => m[k].head \in Selectors
          /\ m[k].event \in {"at-rule", "bodyless"} => m[k].head \in AtKind
          /\ m[k].event = "decl" => m[k].path # <<>>
  <2> TAKE k \in DOMAIN m
  <2>1. CASE k \in DOMAIN l
    BY <1>2, <2>1 DEF Entries
  <2>2. CASE k = h
    <3>1. \A x \in DOMAIN o : o[x] \in 1..(h - 1)
      BY <1>1
    <3> QED  BY <1>2, <2>2, <3>1
  <2> QED  BY <1>1, <2>1, <2>2
<1>4. /\ \A k \in DOMAIN l : \A b : Inside(m, b, k) <=> Inside(l, b, k)
      /\ \A b : Inside(m, b, h) <=> \E x \in DOMAIN o : o[x] = b
  BY InsideGrown DEF h
<1>5. ASSUME NEW k \in DOMAIN m, NEW b, Inside(m, b, k), NEW a, Inside(m, a, b)
      PROVE  Inside(m, a, k)
  <2>1. CASE k \in DOMAIN l
    <3>1. Inside(l, b, k)
      BY <1>4, <1>5, <2>1
    <3>2. b \in DOMAIN l
      <4>1. PICK x \in DOMAIN l[k].path : l[k].path[x] = b
        BY <3>1 DEF Inside
      <4>2. b \in 1..(k - 1)
        BY <2>1, <4>1 DEF Entries
      <4> QED  BY <1>1, <2>1, <4>2
    <3>3. Inside(l, a, b)
      BY <1>4, <1>5, <3>2
    <3>4. Inside(l, a, k)
      BY <2>1, <3>1, <3>3 DEF Entries
    <3> QED  BY <1>4, <2>1, <3>4
  <2>2. CASE k = h
    <3>1. PICK x \in DOMAIN o : o[x] = b
      BY <1>4, <1>5, <2>2
    <3>2. Inside(l, a, b)
      BY <1>1, <1>4, <1>5, <3>1
    <3>3. PICK y \in DOMAIN l[b].path : l[b].path[y] = a
      BY <3>2 DEF Inside
    <3>4. l[b] \in Entry
      BY <1>1, <3>1, ElementOfSeq DEF Entries
    <3>5. y \in 1..(x - 1)
      <4>1. l[b].path \in Seq(Nat) /\ Len(l[b].path) = x - 1
        BY <3>1, <3>4 DEF Entry, Blocks
      <4> QED  BY <3>3, <4>1
    <3>6. o[y] = a
      BY <3>1, <3>3, <3>5 DEF Blocks
    <3>7. y \in DOMAIN o
      BY <1>1, <3>1, <3>5
    <3> QED  BY <1>4, <2>2, <3>6, <3>7
  <2> QED  BY <1>1, <2>1, <2>2
<1> QED  BY <1>2, <1>3, <1>5 DEF Entries

(* The innermost block is a ruleset. *)
InRuleset(l, o) == o # <<>> /\ l[o[Len(o)]].event = "ruleset"

(* The nesting stays in order when something is written in the innermost
   block. *)
LEMMA BlocksStay ==
    ASSUME NEW l, NEW o, NEW m, Entries(l), Blocks(l, o), Grown(l, o, m)
    PROVE  Blocks(m, o)
<1> DEFINE h == Len(m)
<1>1. /\ Len(l) \in Nat /\ DOMAIN l = 1..Len(l)
      /\ \A k \in DOMAIN m : k = h \/ k \in DOMAIN l
      /\ \A k \in DOMAIN l : k \in DOMAIN m
      /\ \A x \in DOMAIN o : o[x] \in DOMAIN l
  BY GrownIs
<1>2. (\A k \in DOMAIN l : m[k] = l[k]) /\ m[h].path = o
  BY DEF Grown
<1> HIDE DEF h
<1>3. o \in Seq(DOMAIN m)
  <2>1. o \in Seq(DOMAIN l) /\ DOMAIN l \subseteq DOMAIN m
    BY <1>1 DEF Blocks
  <2> QED  BY <2>1, SeqDef
<1>4. \A x \in DOMAIN o : m[o[x]] = l[o[x]]
  BY <1>1, <1>2
<1>5. \A x \in DOMAIN o :
          /\ m[o[x]].event \in {"at-rule", "ruleset"}
          /\ x < Len(o) => m[o[x]].event = "at-rule"
          /\ Len(m[o[x]].path) = x - 1
          /\ \A y \in 1..(x - 1) : m[o[x]].path[y] = o[y]
  BY <1>4 DEF Blocks
<1>6. o # <<>> => \A k \in DOMAIN m : k > o[1] => m[k].path # <<>>
  <2> HAVE o # <<>>
  <2> TAKE k \in DOMAIN m
  <2>1. CASE k = h
    BY <1>2, <2>1
  <2>2. CASE k \in DOMAIN l
    BY <1>2, <2>2 DEF Blocks
  <2> QED  BY <1>1, <2>1, <2>2
<1>7. \A x, y \in DOMAIN o : x < y => o[x] < o[y]
  BY DEF Blocks
<1> QED  BY <1>3, <1>5, <1>6, <1>7 DEF Blocks

(* The nesting stays in order when a block opens. *)
LEMMA BlocksOpen ==
    ASSUME NEW l, NEW o, NEW m, Entries(l), Blocks(l, o), Grown(l, o, m),
           m[Len(m)].event \in {"at-rule", "ruleset"}, ~InRuleset(l, o)
    PROVE  Blocks(m, Append(o, Len(m)))
<1> DEFINE h == Len(m)
           p == Append(o, h)
           n == Len(o)
<1>1. /\ Len(l) \in Nat /\ DOMAIN l = 1..Len(l) /\ h \in DOMAIN m /\ h \in Nat
      /\ \A k \in DOMAIN m : k = h \/ k \in DOMAIN l
      /\ DOMAIN m = 1..h
      /\ \A k \in DOMAIN l : k \in DOMAIN m /\ k < h
      /\ n \in Nat /\ DOMAIN o = 1..n
      /\ \A x \in DOMAIN o : o[x] \in DOMAIN l
  BY GrownIs
<1>2. (\A k \in DOMAIN l : m[k] = l[k]) /\ m[h].path = o /\ m[h].event \in {"at-rule", "ruleset"}
  BY DEF Grown
<1>3. Blocks(m, o)
  BY BlocksStay
<1> HIDE DEF h
<1>4. /\ p \in Seq(DOMAIN m) /\ Len(p) = n + 1 /\ DOMAIN p = 1..(n + 1)
      /\ p[n + 1] = h /\ \A x \in 1..n : p[x] = o[x]
  <2>1. o \in Seq(DOMAIN m)
    BY <1>3 DEF Blocks
  <2> QED  BY <1>1, <2>1
<1>5. \A x \in 1..n : m[o[x]].event = "at-rule"
  <2> TAKE x \in 1..n
  <2>1. CASE x < n
    BY <1>1, <1>3, <2>1 DEF Blocks
  <2>2. CASE x = n
    <3>1. l[o[n]].event # "ruleset"
      BY <1>1, <2>2 DEF InRuleset
    <3>2. l[o[n]].event \in {"at-rule", "ruleset"} /\ m[o[n]] = l[o[n]]
      BY <1>1, <1>2, <2>2 DEF Blocks
    <3> QED  BY <2>2, <3>1, <3>2
  <2>3. x < n \/ x = n
    <3> HIDE DEF n
    <3> QED  BY <1>1
  <2> QED  BY <2>1, <2>2, <2>3
<1> HIDE DEF p, n
<1>6. \A x \in DOMAIN p : x = n + 1 \/ x \in 1..n
  BY <1>1, <1>4
<1>7. ASSUME NEW x \in DOMAIN p
      PROVE  /\ m[p[x]].event \in {"at-rule", "ruleset"}
             /\ x < Len(p) => m[p[x]].event = "at-rule"
             /\ Len(m[p[x]].path) = x - 1
             /\ \A y \in 1..(x - 1) : m[p[x]].path[y] = p[y]
  <2>1. CASE x = n + 1
    <3>1. m[p[x]].path = o /\ p[x] = h /\ x - 1 = n /\ Len(p) = x
      BY <1>1, <1>2, <1>4, <2>1
    <3> QED  BY <1>1, <1>2, <1>4, <3>1 DEF n
  <2>2. CASE x \in 1..n
    <3>1. \A y \in 1..(x - 1) : y \in 1..n
      BY <1>1, <2>2
    <3>2. Len(m[o[x]].path) = x - 1 /\ \A y \in 1..(x - 1) : m[o[x]].path[y] = o[y]
      BY <1>1, <1>3, <2>2 DEF Blocks
    <3> QED  BY <1>4, <1>5, <2>2, <3>1, <3>2
  <2> QED  BY <1>6, <2>1, <2>2
<1>8. ASSUME NEW x \in DOMAIN p, NEW y \in DOMAIN p, x < y
      PROVE  p[x] < p[y]
  <2>1. x \in 1..n
    BY <1>1, <1>4, <1>8
  <2>2. CASE y = n + 1
    BY <1>1, <1>4, <2>1, <2>2
  <2>3. CASE y \in 1..n
    BY <1>1, <1>3, <1>4, <1>8, <2>1, <2>3 DEF Blocks
  <2> QED  BY <1>6, <2>2, <2>3
<1>9. ASSUME NEW k \in DOMAIN m, k > p[1]
      PROVE  m[k].path # <<>>
  <2>1. CASE n = 0
    <3>1. p[1] = h
      BY <1>4, <2>1
    <3> QED  BY <1>1, <1>9, <3>1
  <2>2. CASE n # 0
    <3>1. p[1] = o[1] /\ o # <<>>
      BY <1>1, <1>4, <2>2 DEF n
    <3> QED  BY <1>3, <1>9, <3>1 DEF Blocks
  <2> QED  BY <2>1, <2>2
<1>10. p # <<>>
  BY <1>1, <1>4
<1>11. Blocks(m, p)
  BY <1>4, <1>7, <1>8, <1>9, <1>10 DEF Blocks
<1> QED  BY <1>11 DEF p, h

(* The nesting stays in order when the innermost block ends. *)
LEMMA BlocksShrink ==
    ASSUME NEW l, NEW o, Entries(l), Blocks(l, o), o # <<>>
    PROVE  Blocks(l, Front(o))
<1> DEFINE p == Front(o)
           n == Len(o) - 1
<1>1. /\ p \in Seq(DOMAIN l) /\ n \in Nat /\ Len(p) = n
      /\ DOMAIN p = 1..n /\ DOMAIN o = 1..(n + 1) /\ n < Len(o)
      /\ \A x \in 1..n : p[x] = o[x]
  <2>1. o \in Seq(DOMAIN l)
    BY DEF Blocks
  <2> QED  BY <2>1, FrontIs
<1> HIDE DEF p
<1>2. \A x \in 1..n : x \in DOMAIN o /\ x < Len(o) /\ \A y \in 1..(x - 1) : y \in 1..n
  BY <1>1
<1> HIDE DEF n
<1>3. ASSUME NEW x \in DOMAIN p
      PROVE  /\ l[p[x]].event \in {"at-rule", "ruleset"}
             /\ x < Len(p) => l[p[x]].event = "at-rule"
             /\ Len(l[p[x]].path) = x - 1
             /\ \A y \in 1..(x - 1) : l[p[x]].path[y] = p[y]
  <2>1. x \in 1..n /\ p[x] = o[x]
    BY <1>1
  <2>2. /\ l[o[x]].event = "at-rule"
        /\ Len(l[o[x]].path) = x - 1
        /\ \A y \in 1..(x - 1) : l[o[x]].path[y] = o[y]
    BY <1>2, <2>1 DEF Blocks
  <2>3. \A y \in 1..(x - 1) : p[y] = o[y]
    BY <1>1, <1>2, <2>1
  <2> QED  BY <2>1, <2>2, <2>3
<1>4. \A x, y \in DOMAIN p : x < y => p[x] < p[y]
  BY <1>1, <1>2 DEF Blocks
<1>5. p # <<>> => \A k \in DOMAIN l : k > p[1] => l[k].path # <<>>
  <2> HAVE p # <<>>
  <2>1. p[1] = o[1] /\ o # <<>>
    BY <1>1
  <2> QED  BY <2>1 DEF Blocks
<1> QED  BY <1>1, <1>3, <1>4, <1>5 DEF Blocks, p

-----------------------------------------------------------------------------
(* The stack of blocks being preserved *)

(* A block takes note of something, or of a block within it. *)
LEMMA PutIs ==
    ASSUME NEW b \in Opened, NEW k \in Nat
    PROVE  /\ Put(b, k) \in Opened
           /\ Put(b, k).id = b.id
           /\ Put(b, k).holds = b.holds \union {<<b.id, k>>}
<1> DEFINE h == b.holds \union {<<b.id, k>>}
<1>1. b.id \in Nat /\ b.holds \in Holds
  BY DEF Opened
<1>2. h \in Holds
  BY <1>1 DEF Holds
<1>3. Put(b, k) = [b EXCEPT !.holds = h]
  BY DEF Put
<1> HIDE DEF h
<1>4. Put(b, k) \in Opened /\ Put(b, k).id = b.id /\ Put(b, k).holds = h
  BY <1>2, <1>3 DEF Opened
<1> QED  BY <1>4 DEF h

(* Nesting a finished block keeps it a block and unites what both hold. *)
LEMMA NestIs ==
    ASSUME NEW b \in Opened, NEW d \in Opened
    PROVE  /\ Nest(b, d) \in Opened
           /\ Nest(b, d).id = b.id
           /\ Nest(b, d).holds = b.holds \union {<<b.id, d.id>>} \union d.holds
<1> DEFINE q == Put(b, d.id)
           h == q.holds \union d.holds
<1>1. d.id \in Nat /\ d.holds \in Holds
  BY DEF Opened
<1>2. q \in Opened /\ q.id = b.id /\ q.holds = b.holds \union {<<b.id, d.id>>}
  BY <1>1, PutIs
<1>3. Nest(b, d) = [q EXCEPT !.holds = h]
  BY DEF Nest
<1> HIDE DEF q
<1>4. h \in Holds
  BY <1>1, <1>2 DEF Opened, Holds
<1> HIDE DEF h
<1>5. Nest(b, d) \in Opened /\ Nest(b, d).id = q.id /\ Nest(b, d).holds = h
  BY <1>2, <1>3, <1>4 DEF Opened
<1> QED  BY <1>2, <1>5 DEF h

(* Folding the innermost block into the one around it. *)
LEMMA FoldIs ==
    ASSUME NEW s \in Seq(Opened), Len(s) > 1
    PROVE  /\ Fold(s) \in Seq(Opened)
           /\ Len(Fold(s)) = Len(s) - 1
           /\ \A x \in 1..(Len(s) - 1) : Fold(s)[x].id = s[x].id
           /\ \A x \in 1..(Len(s) - 2) : Fold(s)[x].holds = s[x].holds
           /\ Fold(s)[Len(s) - 1].holds = s[Len(s) - 1].holds
                 \union {<<s[Len(s) - 1].id, s[Len(s)].id>>} \union s[Len(s)].holds
<1> DEFINE n == Len(s) - 1
           rest == Front(s)
           last == Last(s)
           new == Nest(rest[n], last)
<1>1. /\ rest \in Seq(Opened) /\ Len(rest) = n /\ n \in Nat /\ n # 0 /\ DOMAIN rest = 1..n
      /\ \A x \in 1..n : rest[x] = s[x]
      /\ last = s[Len(s)] /\ last \in Opened
  <2>1. s # <<>>
    OBVIOUS
  <2> QED  BY <2>1, FrontIs
<1>2. Fold(s) = [rest EXCEPT ![n] = new]
  <2>1. Len(rest) = n
    BY <1>1
  <2> QED  BY <2>1 DEF Fold
<1>3. rest[n] \in Opened /\ rest[n] = s[n]
  BY <1>1, ElementOfSeq
<1> HIDE DEF rest, last, n
<1>4. /\ new.id = rest[n].id
      /\ new.holds = rest[n].holds \union {<<rest[n].id, last.id>>} \union last.holds
      /\ new \in Opened
  BY <1>1, <1>3, NestIs
<1> HIDE DEF new
<1>5. /\ Fold(s) \in Seq(Opened) /\ Len(Fold(s)) = n
      /\ Fold(s)[n] = new /\ \A x \in 1..n : x # n => Fold(s)[x] = rest[x]
  BY <1>1, <1>2, <1>4
<1>6. Len(s) - 1 = n /\ \A x \in 1..(Len(s) - 2) : x \in 1..n /\ x # n
  BY DEF n
<1> QED  BY <1>1, <1>3, <1>4, <1>5, <1>6

(* Noting something in the innermost block. *)
LEMMA PutInLastIs ==
    ASSUME NEW s \in Seq(Opened), s # <<>>, NEW k \in Nat
    PROVE  /\ PutInLast(s, k) \in Seq(Opened)
           /\ Len(PutInLast(s, k)) = Len(s)
           /\ \A x \in 1..Len(s) : PutInLast(s, k)[x].id = s[x].id
           /\ \A x \in 1..(Len(s) - 1) : PutInLast(s, k)[x].holds = s[x].holds
           /\ PutInLast(s, k)[Len(s)].holds = s[Len(s)].holds \union {<<s[Len(s)].id, k>>}
<1> DEFINE n == Len(s)
           new == Put(s[n], k)
<1>1. n \in Nat /\ n # 0 /\ DOMAIN s = 1..n /\ s[n] \in Opened
  BY ElementOfSeq
<1>2. PutInLast(s, k) = [s EXCEPT ![n] = new]
  BY DEF PutInLast
<1>3. new.id = s[n].id /\ new.holds = s[n].holds \union {<<s[n].id, k>>} /\ new \in Opened
  BY <1>1, PutIs
<1> HIDE DEF new, n
<1>4. /\ PutInLast(s, k) \in Seq(Opened) /\ Len(PutInLast(s, k)) = n
      /\ PutInLast(s, k)[n] = new /\ \A x \in 1..n : x # n => PutInLast(s, k)[x] = s[x]
  <2>1. Len(s) = n
    BY DEF n
  <2> QED  BY <1>1, <1>2, <1>3, <2>1
<1>5. Len(s) = n
  BY DEF n
<1>6. \A x \in 1..(n - 1) : x \in 1..n /\ x # n
  BY <1>1
<1> QED  BY <1>3, <1>4, <1>5, <1>6

(* The stack s follows the nesting o of text l, and a is the kind of the
   outermost block. *)
Stacked(l, o, s, a) ==
    IF o # <<>> /\ l[o[1]].event = "at-rule"
    THEN /\ [x \in DOMAIN s |-> s[x].id] = o
         /\ a = l[o[1]].head
    ELSE s = <<>>

(* Either nothing is being preserved and at most one ruleset is open, or each
   open block has its place on the stack. *)
Shallow(l, o, s) == s = <<>> /\ (o = <<>> \/ (Len(o) = 1 /\ l[o[1]].event = "ruleset"))

Deep(l, o, s, a) ==
    /\ o # <<>>
    /\ l[o[1]].event = "at-rule"
    /\ Len(s) = Len(o)
    /\ \A x \in 1..Len(o) : s[x].id = o[x]
    /\ a = l[o[1]].head

(* The stack follows the open blocks in one of two ways: none preserved, or all of them. *)
LEMMA StackedIs ==
    ASSUME NEW l, NEW o, NEW s \in Seq(Opened), NEW a, Entries(l), Blocks(l, o)
    PROVE  Stacked(l, o, s, a) <=> Shallow(l, o, s) \/ Deep(l, o, s, a)
<1>1. /\ o \in Seq(DOMAIN l) /\ Len(o) \in Nat /\ DOMAIN o = 1..Len(o)
      /\ Len(s) \in Nat /\ DOMAIN s = 1..Len(s)
  BY DEF Blocks
<1>2. o # <<>> => 1 \in DOMAIN o
  BY <1>1
<1>3. o # <<>> /\ l[o[1]].event # "at-rule" => Len(o) = 1 /\ l[o[1]].event = "ruleset"
  BY <1>1, <1>2 DEF Blocks
<1>4. [x \in DOMAIN s |-> s[x].id] = o <=> Len(s) = Len(o) /\ \A x \in 1..Len(o) : s[x].id = o[x]
  <2>1. ASSUME [x \in DOMAIN s |-> s[x].id] = o
        PROVE  Len(s) = Len(o) /\ \A x \in 1..Len(o) : s[x].id = o[x]
    <3>1. DOMAIN s = DOMAIN o
      BY <2>1
    <3>2. Len(s) = Len(o)
      <4>1. ~(Len(s) < Len(o))
        <5>1. Len(s) < Len(o) => Len(o) \in 1..Len(o) /\ Len(o) \notin 1..Len(s)
          BY <1>1
        <5> QED  BY <1>1, <3>1, <5>1
      <4>2. ~(Len(o) < Len(s))
        <5>1. Len(o) < Len(s) => Len(s) \in 1..Len(s) /\ Len(s) \notin 1..Len(o)
          BY <1>1
        <5> QED  BY <1>1, <3>1, <5>1
      <4>3. \A m, n \in Nat : ~(m < n) /\ ~(n < m) => m = n
        OBVIOUS
      <4> QED  BY <1>1, <4>1, <4>2, <4>3
    <3>3. \A x \in DOMAIN s : s[x].id = o[x]
      BY <2>1
    <3> QED  BY <1>1, <3>2, <3>3
  <2>2. ASSUME Len(s) = Len(o), \A x \in 1..Len(o) : s[x].id = o[x]
        PROVE  [x \in DOMAIN s |-> s[x].id] = o
    <3>1. o = [x \in DOMAIN o |-> o[x]]
      BY <1>1
    <3> QED  BY <1>1, <2>2, <3>1
  <2> QED  BY <2>1, <2>2
<1> QED  BY <1>3, <1>4 DEF Stacked, Shallow, Deep

-----------------------------------------------------------------------------
(* Type correctness *)

(* The state has its type, and the text and the nesting are in order; the
   selector read last is that of the ruleset the parser is in. *)
Nesting ==
    /\ Entries(log)
    /\ Blocks(log, open)
    /\ InRuleset(log, open) => sel = Last(open)

Shape == TypeOK /\ Nesting

(* What each kind of event does to the text and the nesting. *)
Writes == Grown(log, open, log') /\ Len(log') = Here /\ open' = open
OpensBlock == Grown(log, open, log') /\ Len(log') = Here /\ open' = Append(open, Here)
Closes == log' = log /\ open # <<>> /\ open' = Front(open)
Rests == log' = log /\ open' = open

(* What the shape says of log, open blocks and stack, one fact at a time. *)
LEMMA ShapeIs ==
    ASSUME Shape
    PROVE  /\ Len(log) \in Nat /\ DOMAIN log = 1..Len(log) /\ Here = Len(log) + 1 /\ Here \in Nat
           /\ open \in Seq(DOMAIN log) /\ Len(open) \in Nat /\ DOMAIN open = 1..Len(open)
           /\ \A x \in DOMAIN open : open[x] \in DOMAIN log /\ open[x] \in Nat
           /\ stack \in Seq(Opened)
           /\ Shallow(log, open, stack) \/ Deep(log, open, stack, atKind)
           /\ \A ev : In(ev) <=> open # <<>> /\ log[open[Len(open)]].event = ev
           /\ open # <<>> => Last(open) = open[Len(open)] /\ Len(open) \in DOMAIN open
<1>1. /\ Entries(log) /\ Blocks(log, open)
  BY DEF Shape, Nesting
<1>2. Stacked(log, open, stack, atKind) /\ stack \in Seq(Opened)
  BY DEF Shape, TypeOK, Stacked, AtTop
<1>3. open \in Seq(DOMAIN log) /\ log \in Seq(Entry)
  BY <1>1 DEF Blocks, Entries
<1>4. \A x \in DOMAIN open : open[x] \in DOMAIN log
  BY <1>3, ElementOfSeq
<1> QED  BY <1>1, <1>2, <1>3, <1>4, StackedIs DEF In, AtTop, Here, Last

(* An event that is delivered grows the text. *)
LEMMA DeliverGrows ==
    ASSUME Shape, NEW ev \in {"at-rule", "bodyless", "ruleset", "decl"},
           NEW hd \in AtKind \union Selectors \union Form, Deliver(ev, hd),
           ev = "ruleset" => hd \in Selectors,
           ev \in {"at-rule", "bodyless"} => hd \in AtKind,
           ev = "decl" => open # <<>>
    PROVE  /\ Grown(log, open, log') /\ Len(log') = Here
           /\ log'[Here].event = ev /\ log'[Here].head = hd
<1> DEFINE e == Event(ev, hd)
<1>1. log' = Append(log, e)
  BY DEF Deliver
<1>2. open \in Seq(Nat)
  <2>1. open \in Seq(DOMAIN log) /\ DOMAIN log \subseteq Nat
    BY ShapeIs
  <2> QED  BY <2>1, SeqDef
<1>3. e \in Entry /\ e.path = open /\ e.event = ev /\ e.head = hd
  BY <1>2 DEF Event, Entry
<1>4. log \in Seq(Entry)
  BY DEF Shape, TypeOK
<1> HIDE DEF e
<1>5. log' \in Seq(Entry) /\ Len(log') = Len(log) + 1 /\ log'[Len(log) + 1] = e
      /\ \A k \in DOMAIN log : log'[k] = log[k]
  BY <1>1, <1>3, <1>4
<1> QED  BY <1>3, <1>5 DEF Grown, Here

(* The text and the nesting stay in order, whatever happens. *)
LEMMA TextStep ==
    ASSUME Shape, Writes \/ OpensBlock \/ Closes \/ Rests,
           OpensBlock => log'[Here].event \in {"at-rule", "ruleset"} /\ ~InRuleset(log, open)
    PROVE  /\ Entries(log') /\ Blocks(log', open')
           /\ log' \in Seq(Entry) /\ open' \in Seq(DOMAIN log')
           /\ DOMAIN log \subseteq DOMAIN log' /\ Len(log) <= Len(log') /\ Len(log') \in Nat
           /\ \A k \in DOMAIN log : log'[k] = log[k]
<1>1. Entries(log) /\ Blocks(log, open)
  BY DEF Shape, Nesting
<1>2. Entries(log') /\ Blocks(log', open')
  <2>1. CASE Writes
    BY <1>1, <2>1, EntriesGrow, BlocksStay DEF Writes
  <2>2. CASE OpensBlock
    BY <1>1, <2>2, EntriesGrow, BlocksOpen DEF OpensBlock
  <2>3. CASE Closes
    BY <1>1, <2>3, BlocksShrink DEF Closes
  <2> QED  BY <1>1, <2>1, <2>2, <2>3 DEF Rests
<1>3. log' \in Seq(Entry) /\ open' \in Seq(DOMAIN log') /\ Len(log') \in Nat
  BY <1>2 DEF Entries, Blocks
<1>4. Len(log) \in Nat /\ DOMAIN log = 1..Len(log)
  BY ShapeIs
<1>5. DOMAIN log \subseteq DOMAIN log' /\ Len(log) <= Len(log') /\ \A k \in DOMAIN log : log'[k] = log[k]
  <2>1. CASE Grown(log, open, log')
    BY <1>1, <1>4, <2>1, GrownIs DEF Grown
  <2>2. CASE log' = log
    BY <1>4, <2>2
  <2> QED  BY <2>1, <2>2 DEF Writes, OpensBlock, Closes, Rests
<1> QED  BY <1>2, <1>3, <1>5

(* What is left of Shape once the text is in order. *)
LEMMA ShapeFrom ==
    ASSUME Shape, Writes \/ OpensBlock \/ Closes \/ Rests,
           OpensBlock => log'[Here].event \in {"at-rule", "ruleset"} /\ ~InRuleset(log, open),
           Shallow(log', open', stack') \/ Deep(log', open', stack', atKind'),
           InRuleset(log', open') => sel' = Last(open'),
           stack' \in Seq(Opened), atKind' \in AtKind \union {"none"},
           sel' \in 0..Len(log'),
           decls' \in Seq(Numbered), \A x \in DOMAIN decls' : decls'[x].id \in DOMAIN log',
           rules' \in Seq(Compiled),
           keep' \in Seq(PreservedBlock), \A x \in DOMAIN keep' : keep'[x].id \in DOMAIN log',
           base' \in Nat, ord' \in Nat, ended' \in BOOLEAN
    PROVE  Shape'
<1>1. /\ Entries(log') /\ Blocks(log', open')
      /\ log' \in Seq(Entry) /\ open' \in Seq(DOMAIN log')
  BY TextStep
<1>2. Stacked(log', open', stack', atKind')
  BY <1>1, StackedIs
<1>3. \A k \in DOMAIN log' : \A x \in DOMAIN log'[k].path : log'[k].path[x] \in 1..(k - 1)
  BY <1>1 DEF Entries
<1>4. TypeOK'
  BY <1>1, <1>2, <1>3 DEF TypeOK, Stacked, AtTop
<1> QED  BY <1>1, <1>4 DEF Shape, Nesting

(* Blocks are opened in a list of rules, which no ruleset is. *)
LEMMA RuleListIs ==
    ASSUME Shape, InRuleList
    PROVE  /\ ~InRuleset(log, open)
           /\ stack = <<>> => open = <<>>
<1>1. ~InRuleset(log, open)
  BY ShapeIs DEF InRuleList, AtTop, InRuleset
<1>2. stack = <<>> => open = <<>>
  <2>1. CASE Shallow(log, open, stack)
    BY <1>1, <2>1 DEF Shallow, InRuleset
  <2>2. CASE Deep(log, open, stack, atKind)
    BY <2>2, ShapeIs DEF Deep
  <2> QED  BY <2>1, <2>2, ShapeIs
<1> QED  BY <1>1, <1>2

(* Declarations stand in a ruleset, or in an at-rule that is on the stack. *)
LEMMA DeclListIs ==
    ASSUME Shape, InDeclList
    PROVE  /\ open # <<>>
           /\ stack = <<>> => InRuleset(log, open) /\ Len(open) = 1
<1>1. open # <<>>
  BY ShapeIs DEF InDeclList
<1>2. CASE Shallow(log, open, stack)
  BY <1>1, <1>2 DEF Shallow, InRuleset
<1>3. CASE Deep(log, open, stack, atKind)
  BY <1>1, <1>3, ShapeIs DEF Deep
<1> QED  BY <1>1, <1>2, <1>3, ShapeIs

(* A block opened in an at-rule joins the stack. *)
LEMMA StackOpens ==
    ASSUME Shape, OpensBlock, log'[Here].event \in {"at-rule", "ruleset"}, InRuleList,
           stack # <<>> \/ log'[Here].event = "at-rule",
           stack' = Append(stack, Block(Here)),
           atKind' = IF stack = <<>> THEN log'[Here].head ELSE atKind
    PROVE  /\ Deep(log', open', stack', atKind')
           /\ stack' \in Seq(Opened)
<1> DEFINE h == Here
           n == Len(open)
           b == Block(h)
<1>1. /\ Len(log) \in Nat /\ DOMAIN log = 1..Len(log) /\ h \in Nat
      /\ open \in Seq(DOMAIN log) /\ n \in Nat /\ DOMAIN open = 1..n
      /\ \A x \in DOMAIN open : open[x] \in DOMAIN log
      /\ stack \in Seq(Opened)
      /\ Shallow(log, open, stack) \/ Deep(log, open, stack, atKind)
  BY ShapeIs
<1>2. /\ \A k \in DOMAIN log : log'[k] = log[k]
      /\ open' = Append(open, h)
  BY DEF OpensBlock, Grown
<1>3. b \in Opened /\ b.id = h
  BY <1>1 DEF Block, Opened, Holds
<1> HIDE DEF h, b
<1>4. /\ stack' \in Seq(Opened) /\ Len(stack') = Len(stack) + 1 /\ stack'[Len(stack) + 1].id = h
      /\ \A x \in 1..Len(stack) : stack'[x] = stack[x]
  BY <1>1, <1>3 DEF b, h
<1>5. /\ Len(open') = n + 1 /\ open'[n + 1] = h /\ \A x \in 1..n : open'[x] = open[x]
      /\ open' # <<>>
  <2>1. open' = Append(open, h) /\ open \in Seq(DOMAIN log)
    BY <1>1, <1>2
  <2> QED  BY <2>1
<1>6. CASE stack = <<>>
  <2>1. open = <<>>
    BY <1>6, RuleListIs
  <2>2. n = 0 /\ Len(stack) = 0
    BY <1>6, <2>1
  <2>3. \A x \in 1..(n + 1) : x = n + 1
    BY <2>2
  <2>4. log'[open'[1]].event = "at-rule" /\ atKind' = log'[open'[1]].head
    BY <1>5, <1>6, <2>2 DEF h
  <2> QED  BY <1>4, <1>5, <2>2, <2>3, <2>4 DEF Deep
<1>7. CASE stack # <<>>
  <2>1. Deep(log, open, stack, atKind)
    BY <1>1, <1>7 DEF Shallow
  <2>2. open # <<>> /\ Len(stack) = n /\ \A x \in 1..n : stack[x].id = open[x]
    BY <2>1 DEF Deep
  <2>3. 1 \in 1..n
    BY <1>1, <2>2
  <2>4. log'[open'[1]] = log[open[1]]
    BY <1>1, <1>2, <1>5, <2>3
  <2>5. \A x \in 1..(n + 1) : x = n + 1 \/ x \in 1..n
    BY <1>1
  <2>6. \A x \in 1..(n + 1) : stack'[x].id = open'[x]
    BY <1>4, <1>5, <2>2, <2>5
  <2>7. atKind' = log'[open'[1]].head /\ log'[open'[1]].event = "at-rule"
    BY <1>7, <2>1, <2>4 DEF Deep
  <2> QED  BY <1>4, <1>5, <2>2, <2>6, <2>7 DEF Deep
<1> QED  BY <1>6, <1>7

(* What is written in the innermost block leaves the stack as it is, but for
   what its blocks hold. *)
LEMMA StackWrites ==
    ASSUME Shape, Writes, stack' \in Seq(Opened), Len(stack') = Len(stack),
           \A x \in 1..Len(stack) : stack'[x].id = stack[x].id, atKind' = atKind
    PROVE  /\ Shallow(log', open', stack') \/ Deep(log', open', stack', atKind')
           /\ InRuleset(log', open') <=> InRuleset(log, open)
<1>1. /\ DOMAIN open = 1..Len(open) /\ Len(open) \in Nat
      /\ \A x \in DOMAIN open : open[x] \in DOMAIN log
      /\ stack \in Seq(Opened)
      /\ Shallow(log, open, stack) \/ Deep(log, open, stack, atKind)
  BY ShapeIs
<1>2. open' = open /\ \A k \in DOMAIN log : log'[k] = log[k]
  BY DEF Writes, Grown
<1>3. open # <<>> => 1 \in DOMAIN open /\ Len(open) \in DOMAIN open
  BY <1>1
<1>4. open # <<>> => log'[open[1]] = log[open[1]] /\ log'[open[Len(open)]] = log[open[Len(open)]]
  BY <1>1, <1>2, <1>3
<1>5. CASE Shallow(log, open, stack)
  <2>1. stack' = <<>>
    BY <1>5 DEF Shallow
  <2>2. open # <<>> <=> Len(open) # 0
    BY <1>1
  <2> QED  BY <1>2, <1>4, <1>5, <2>1, <2>2 DEF Shallow, InRuleset
<1>6. CASE Deep(log, open, stack, atKind)
  BY <1>2, <1>4, <1>6 DEF Deep, InRuleset
<1> QED  BY <1>1, <1>5, <1>6

(* A ruleset outside every at-rule opens without a block. *)
LEMMA ShallowOpens ==
    ASSUME Shape, OpensBlock, log'[Here].event = "ruleset", open = <<>>, stack' = <<>>
    PROVE  Shallow(log', open', stack')
<1>1. open' = <<Here>>
  BY DEF OpensBlock
<1> QED  BY <1>1 DEF Shallow

(* The end of a block takes it off the stack, and leaves a list of rules. *)
LEMMA StackCloses ==
    ASSUME Shape, Closes, atKind' = atKind,
           \/ stack' = <<>> /\ Len(stack) <= 1
           \/ /\ Len(stack) > 1
              /\ stack' \in Seq(Opened) /\ Len(stack') = Len(stack) - 1
              /\ \A x \in 1..(Len(stack) - 1) : stack'[x].id = stack[x].id
    PROVE  /\ Shallow(log', open', stack') \/ Deep(log', open', stack', atKind')
           /\ ~InRuleset(log', open')
<1> DEFINE n == Len(open)
           p == Front(open)
<1>1. /\ DOMAIN open = 1..n /\ n \in Nat /\ open \in Seq(DOMAIN log)
      /\ \A x \in DOMAIN open : open[x] \in DOMAIN log
      /\ stack \in Seq(Opened) /\ Len(stack) \in Nat
      /\ Shallow(log, open, stack) \/ Deep(log, open, stack, atKind)
  BY ShapeIs
<1>2. log' = log /\ open' = p /\ open # <<>>
  BY DEF Closes
<1>3. /\ p \in Seq(DOMAIN log) /\ Len(p) = n - 1 /\ n # 0
      /\ \A x \in 1..(n - 1) : p[x] = open[x]
  BY <1>1, <1>2, FrontIs
<1> HIDE DEF p, n
<1>4. ~InRuleset(log, p)
  <2> SUFFICES ASSUME p # <<>>, log[p[Len(p)]].event = "ruleset" PROVE FALSE
    BY DEF InRuleset
  <2>1. n - 1 \in 1..(n - 1) /\ n - 1 \in DOMAIN open
    BY <1>1, <1>3
  <2>2. p[Len(p)] = open[n - 1]
    BY <1>3, <2>1
  <2>3. n - 1 < Len(open)
    BY <1>1 DEF n
  <2>4. log[open[n - 1]].event = "at-rule"
    BY <2>1, <2>3 DEF Shape, Nesting, Blocks
  <2> QED  BY <2>2, <2>4
<1>5. CASE Len(stack) <= 1
  <2>1. n = 1
    <3>1. CASE Shallow(log, open, stack)
      BY <1>2, <3>1 DEF Shallow, n
    <3>2. CASE Deep(log, open, stack, atKind)
      <4>1. Len(stack) = n
        BY <3>2 DEF Deep, n
      <4> QED  BY <1>1, <1>3, <1>5, <4>1
    <3> QED  BY <1>1, <3>1, <3>2
  <2>2. p = <<>>
    BY <1>3, <2>1
  <2> QED  BY <1>2, <1>4, <1>5, <2>2 DEF Shallow
<1>6. CASE Len(stack) > 1
  <2>1. Deep(log, open, stack, atKind)
    BY <1>1, <1>6 DEF Shallow
  <2>2. n = Len(stack) /\ \A x \in 1..n : stack[x].id = open[x]
    BY <2>1 DEF Deep, n
  <2>3. 1 \in 1..(n - 1) /\ \A x \in 1..(n - 1) : x \in 1..n
    BY <1>1, <1>6, <2>2
  <2>4. p # <<>> /\ log[p[1]] = log[open[1]]
    BY <1>1, <1>3, <2>3
  <2>5. /\ Len(stack') = Len(p) /\ \A x \in 1..Len(p) : stack'[x].id = p[x]
    BY <1>1, <1>3, <1>6, <2>2, <2>3
  <2>6. Deep(log, p, stack', atKind)
    BY <2>1, <2>4, <2>5 DEF Deep
  <2> QED  BY <1>2, <1>4, <2>6
<1> QED  BY <1>1, <1>5, <1>6

(* What compileRule makes of the arms of a selector: rules of that ruleset
   with its declarations. *)
LEMMA CompileIs ==
    ASSUME NEW b \in Nat, NEW arms \in Seq(Arm), NEW ds \in Seq(Numbered)
    PROVE  /\ compile(b, arms, ds) \in Seq(Compiled)
           /\ \A x \in DOMAIN compile(b, arms, ds) :
                 compile(b, arms, ds)[x].sel = b /\ compile(b, arms, ds)[x].decls = ds
<1> DEFINE S == {r \in Compiled : r.sel = b /\ r.decls = ds}
           of(a) == IF arms[a].ignored THEN <<>>
                    ELSE [v \in 1..arms[a].variants |-> [sel |-> b, arm |-> a, decls |-> ds]]
           all == [a \in DOMAIN arms |-> of(a)]
<1>1. DOMAIN arms = 1..Len(arms) /\ Len(arms) \in Nat
  OBVIOUS
<1>2. \A a \in 1..Len(arms) : of(a) \in Seq(S)
  <2> TAKE a \in 1..Len(arms)
  <2>1. arms[a] \in Arm
    BY <1>1, ElementOfSeq
  <2>2. arms[a].variants \in Nat
    BY <2>1 DEF Arm
  <2>3. [sel |-> b, arm |-> a, decls |-> ds] \in S
    <3>1. a \in Nat
      BY <1>1
    <3> QED  BY <3>1 DEF Compiled
  <2> DEFINE w == [v \in 1..arms[a].variants |-> [sel |-> b, arm |-> a, decls |-> ds]]
  <2>4. w \in Seq(S)
    <3>1. w \in [1..arms[a].variants -> S]
      BY <2>3
    <3> HIDE DEF w, S
    <3> QED  BY <2>2, <3>1, SeqDef
  <2>5. <<>> \in Seq(S)
    OBVIOUS
  <2> HIDE DEF S
  <2> QED  BY <2>4, <2>5
<1>3. all \in Seq(Seq(S))
  <2>1. all \in [1..Len(arms) -> Seq(S)]
    <3> HIDE DEF of, S
    <3> QED  BY <1>1, <1>2
  <2> HIDE DEF all, S
  <2> QED  BY <1>1, <2>1, SeqDef
<1>4. compile(b, arms, ds) = FlattenSeq(all)
  BY DEF compile
<1> HIDE DEF all, S
<1>5. FlattenSeq(all) \in Seq(S)
  BY <1>3, FlattenIs
<1>6. S \subseteq Compiled /\ \A r \in S : r.sel = b /\ r.decls = ds
  BY DEF S
<1>7. compile(b, arms, ds) \in Seq(Compiled)
  BY <1>4, <1>5, <1>6, SeqDef
<1>8. \A x \in DOMAIN compile(b, arms, ds) : compile(b, arms, ds)[x] \in S
  BY <1>4, <1>5, ElementOfSeq
<1> QED  BY <1>6, <1>7, <1>8

(* What a finished ruleset adds to the results. *)
LEMMA FinishIs ==
    ASSUME Shape, InRuleset(log, open), sel = Last(open), FinishRuleset
    PROVE  /\ sel \in DOMAIN log /\ log[sel].head \in Selectors /\ Arms[log[sel].head] \in Seq(Arm)
           /\ compile(sel, Arms[log[sel].head], decls) \in Seq(Compiled)
           /\ rules' \in Seq(Compiled)
           /\ keep' \in Seq(PreservedBlock)
           /\ \A x \in DOMAIN keep' : keep'[x].id \in DOMAIN log
<1>1. open # <<>> /\ sel = open[Len(open)] /\ sel \in DOMAIN log /\ sel \in Nat
  BY ShapeIs DEF InRuleset
<1>2. log[sel].head \in Selectors
  BY <1>1 DEF InRuleset, Shape, Nesting, Entries
<1>3. Arms[log[sel].head] \in Seq(Arm)
  BY <1>2, SheetAssumption
<1> DEFINE new == compile(sel, Arms[log[sel].head], decls)
           w == Written(sel, decls)
<1>4. /\ rules \in Seq(Compiled) /\ decls \in Seq(Numbered) /\ keep \in Seq(PreservedBlock)
      /\ \A x \in DOMAIN decls : decls[x].id \in Nat
      /\ \A x \in DOMAIN keep : keep[x].id \in DOMAIN log
  <2>1. /\ rules \in Seq(Compiled) /\ decls \in Seq(Numbered) /\ keep \in Seq(PreservedBlock)
        /\ \A x \in DOMAIN keep : keep[x].id \in DOMAIN log
    BY DEF Shape, TypeOK
  <2>2. \A x \in DOMAIN decls : decls[x] \in Numbered
    BY <2>1, ElementOfSeq
  <2> QED  BY <2>1, <2>2 DEF Numbered
<1>5. new \in Seq(Compiled)
  BY <1>1, <1>3, <1>4, CompileIs
<1>6. w \in PreservedBlock /\ w.id = sel
  BY <1>1, <1>4 DEF Written, PreservedBlock, Holds
<1>7. rules' = rules \/ rules' = rules \o new
  BY DEF FinishRuleset
<1>8. keep' = keep \/ keep' = Append(keep, w)
  BY DEF FinishRuleset
<1> HIDE DEF new, w
<1>9. rules' \in Seq(Compiled)
  <2>1. rules \o new \in Seq(Compiled)
    BY <1>4, <1>5
  <2> QED  BY <1>4, <1>7, <2>1
<1>10. keep' \in Seq(PreservedBlock) /\ \A x \in DOMAIN keep' : keep'[x].id \in DOMAIN log
  <2>1. CASE keep' = keep
    BY <1>4, <2>1
  <2>2. CASE keep' = Append(keep, w)
    BY <1>1, <1>4, <1>6, <2>2
  <2> QED  BY <1>8, <2>1, <2>2
<1> QED  BY <1>1, <1>2, <1>3, <1>5, <1>9, <1>10 DEF new

(* A longer text leaves the type of everything that refers to it. *)
LEMMA StillTyped ==
    ASSUME Shape, DOMAIN log \subseteq DOMAIN log', Len(log) <= Len(log'), Len(log') \in Nat
    PROVE  /\ sel \in 0..Len(log')
           /\ decls \in Seq(Numbered) /\ \A x \in DOMAIN decls : decls[x].id \in DOMAIN log'
           /\ rules \in Seq(Compiled)
           /\ keep \in Seq(PreservedBlock) /\ \A x \in DOMAIN keep : keep[x].id \in DOMAIN log'
           /\ base \in Nat /\ ord \in Nat /\ ended \in BOOLEAN
<1>1. /\ sel \in 0..Len(log)
      /\ decls \in Seq(Numbered) /\ \A x \in DOMAIN decls : decls[x].id \in DOMAIN log
      /\ rules \in Seq(Compiled)
      /\ keep \in Seq(PreservedBlock) /\ \A x \in DOMAIN keep : keep[x].id \in DOMAIN log
      /\ base \in Nat /\ ord \in Nat /\ ended \in BOOLEAN
  BY DEF Shape, TypeOK
<1>2. sel \in 0..Len(log')
  <2>1. Len(log) \in Nat
    BY ShapeIs
  <2> QED  BY <1>1, <2>1
<1>3. (\A x \in DOMAIN decls : decls[x].id \in DOMAIN log') /\ \A x \in DOMAIN keep : keep[x].id \in DOMAIN log'
  BY <1>1
<1> QED  BY <1>1, <1>2, <1>3

(* An at-rule with a block opens one block, and is no ruleset. *)
LEMMA BeginAtRuleStep ==
    ASSUME Shape, NEW k \in AtKind, BeginAtRule(k)
    PROVE  Shape' /\ OpensBlock /\ log'[Here].event = "at-rule" /\ log'[Here].head = k
           /\ ~InRuleset(log', open')
<1>1. Grown(log, open, log') /\ Len(log') = Here /\ log'[Here].event = "at-rule" /\ log'[Here].head = k
  BY DeliverGrows DEF BeginAtRule, Opens
<1>2. OpensBlock
  BY <1>1 DEF BeginAtRule, Opens, OpensBlock
<1>3. ~InRuleset(log, open) /\ (stack = <<>> => open = <<>>)
  BY RuleListIs DEF BeginAtRule
<1>4. Deep(log', open', stack', atKind') /\ stack' \in Seq(Opened)
  BY <1>1, <1>2, StackOpens DEF BeginAtRule
<1>5. ~InRuleset(log', open')
  <2>1. open' = Append(open, Here) /\ open \in Seq(DOMAIN log) /\ Here \in Nat
    BY <1>2, ShapeIs DEF OpensBlock
  <2>2. open'[Len(open')] = Here
    BY <2>1
  <2> QED  BY <1>1, <2>2 DEF InRuleset
<1>6. DOMAIN log \subseteq DOMAIN log' /\ Len(log) <= Len(log') /\ Len(log') \in Nat
  BY <1>1, <1>2, <1>3, TextStep
<1>7. Shape'
  <2>1. /\ atKind' \in AtKind \union {"none"}
        /\ sel' = sel /\ decls' = decls /\ rules' = rules /\ keep' = keep
        /\ base' = base /\ ord' = ord /\ ended' = ended
    BY DEF BeginAtRule, Shape, TypeOK
  <2>2. /\ sel \in 0..Len(log')
        /\ decls \in Seq(Numbered) /\ \A x \in DOMAIN decls : decls[x].id \in DOMAIN log'
        /\ rules \in Seq(Compiled)
        /\ keep \in Seq(PreservedBlock) /\ \A x \in DOMAIN keep : keep[x].id \in DOMAIN log'
        /\ base \in Nat /\ ord \in Nat /\ ended \in BOOLEAN
    BY <1>6, StillTyped
  <2> QED  BY <1>1, <1>2, <1>3, <1>4, <1>5, <2>1, <2>2, ShapeFrom
<1> QED  BY <1>1, <1>2, <1>5, <1>7

(* An event that only writes opens no block. *)
LEMMA WritesOnly ==
    ASSUME Shape, Writes
    PROVE  ~OpensBlock
<1>1. open \in Seq(DOMAIN log)
  BY ShapeIs
<1>2. Len(Append(open, Here)) # Len(open)
  BY <1>1
<1> QED  BY <1>2 DEF OpensBlock, Writes

(* Anything of a preserved block can be kept. *)
LEMMA KeptIs ==
    ASSUME NEW a \in AtKind, NEW b \in Opened
    PROVE  /\ Kept(a, b) \in PreservedBlock
           /\ Kept(a, b).id = b.id /\ Kept(a, b).holds = b.holds
  BY DEF Kept, Opened, PreservedBlock

(* A fresh block holds nothing yet. *)
LEMMA BlockIs ==
    ASSUME NEW b \in Nat
    PROVE  Block(b) \in Opened /\ Block(b).id = b /\ Block(b).holds = {}
  BY DEF Block, Opened, Holds

(* An at-rule without a block changes at most what is kept. *)
LEMMA BodylessAtRuleStep ==
    ASSUME Shape, NEW k \in AtKind, BodylessAtRule(k)
    PROVE  Shape' /\ Writes /\ log'[Here].event = "bodyless" /\ log'[Here].head = k
           /\ ~InRuleset(log', open')
<1>1. Grown(log, open, log') /\ Len(log') = Here /\ log'[Here].event = "bodyless" /\ log'[Here].head = k
  BY DeliverGrows DEF BodylessAtRule
<1>2. Writes /\ stack' = stack /\ atKind' = atKind
  BY <1>1 DEF BodylessAtRule, Writes
<1>3. ~InRuleset(log, open) /\ ~OpensBlock
  BY <1>2, RuleListIs, WritesOnly DEF BodylessAtRule
<1>4. stack \in Seq(Opened) /\ Here \in Nat
  BY ShapeIs
<1>5. /\ Shallow(log', open', stack') \/ Deep(log', open', stack', atKind')
      /\ ~InRuleset(log', open')
  BY <1>2, <1>3, <1>4, StackWrites
<1>6. DOMAIN log \subseteq DOMAIN log' /\ Len(log) <= Len(log') /\ Len(log') \in Nat /\ Here \in DOMAIN log'
  <2>1. DOMAIN log \subseteq DOMAIN log' /\ Len(log) <= Len(log') /\ Len(log') \in Nat /\ log' \in Seq(Entry)
    BY <1>1, <1>2, <1>3, TextStep
  <2> QED  BY <1>1, <1>4, <2>1 DEF Here
<1>7. /\ sel \in 0..Len(log')
      /\ decls \in Seq(Numbered) /\ \A x \in DOMAIN decls : decls[x].id \in DOMAIN log'
      /\ rules \in Seq(Compiled)
      /\ keep \in Seq(PreservedBlock) /\ \A x \in DOMAIN keep : keep[x].id \in DOMAIN log'
      /\ base \in Nat /\ ord \in Nat /\ ended \in BOOLEAN
  BY <1>6, StillTyped
<1>8. keep' \in Seq(PreservedBlock) /\ \A x \in DOMAIN keep' : keep'[x].id \in DOMAIN log'
  <2> DEFINE w == Kept(k, Block(Here))
  <2>1. w \in PreservedBlock /\ w.id = Here
    BY <1>4, BlockIs, KeptIs
  <2>2. keep' = keep \/ keep' = Append(keep, w)
    BY DEF BodylessAtRule
  <2> HIDE DEF w
  <2>3. CASE keep' = keep
    BY <1>7, <2>3
  <2>4. CASE keep' = Append(keep, w)
    BY <1>1, <1>6, <1>7, <2>1, <2>4
  <2> QED  BY <2>2, <2>3, <2>4
<1>9. Shape'
  <2>1. /\ atKind' \in AtKind \union {"none"}
        /\ sel' = sel /\ decls' = decls /\ rules' = rules
        /\ base' = base /\ ord' = ord /\ ended' = ended
    BY DEF BodylessAtRule, Shape, TypeOK
  <2> QED  BY <1>1, <1>2, <1>3, <1>4, <1>5, <1>7, <1>8, <2>1, ShapeFrom DEF Writes
<1> QED  BY <1>1, <1>2, <1>5, <1>9

(* The end of an at-rule: its block goes into the one around it, or is kept. *)
LEMMA EndAtRuleStep ==
    ASSUME Shape, EndAtRule
    PROVE  /\ Shape' /\ Closes /\ ~InRuleset(log', open')
           /\ Deep(log, open, stack, atKind)
           /\ log[Last(open)].event = "at-rule"
<1>1. open # <<>> /\ log[open[Len(open)]].event = "at-rule" /\ Last(open) = open[Len(open)]
  BY ShapeIs DEF EndAtRule
<1>2. Closes
  BY <1>1 DEF EndAtRule, Closes
<1>3. Deep(log, open, stack, atKind)
  BY <1>1, ShapeIs DEF Shallow
<1>4. stack \in Seq(Opened) /\ Len(stack) \in Nat /\ Len(stack) # 0 /\ stack # <<>>
      /\ (~(Len(stack) > 1) => Len(stack) = 1)
  <2>1. stack \in Seq(Opened) /\ Len(stack) = Len(open) /\ open \in Seq(DOMAIN log)
    BY <1>3, ShapeIs DEF Deep
  <2>2. Len(stack) \in Nat /\ Len(stack) # 0
    BY <1>1, <2>1
  <2>3. \A n \in Nat : n # 0 /\ ~(n > 1) => n = 1
    OBVIOUS
  <2> QED  BY <2>1, <2>2, <2>3
<1>5. /\ stack' \in Seq(Opened)
      /\ \/ stack' = <<>> /\ Len(stack) <= 1
         \/ /\ Len(stack) > 1
            /\ Len(stack') = Len(stack) - 1
            /\ \A x \in 1..(Len(stack) - 1) : stack'[x].id = stack[x].id
  <2>1. CASE Len(stack) > 1
    <3>1. stack' = Fold(stack)
      BY <2>1 DEF EndAtRule
    <3> QED  BY <1>4, <2>1, <3>1, FoldIs
  <2>2. CASE ~(Len(stack) > 1)
    <3>1. stack' = Front(stack)
      BY <2>2 DEF EndAtRule
    <3>2. Len(stack) = 1
      BY <1>4, <2>2
    <3>3. Front(stack) \in Seq(Opened) /\ Len(Front(stack)) = 0
      BY <1>4, <3>2, FrontIs
    <3>4. Front(stack) = <<>>
      BY <3>3
    <3> QED  BY <3>1, <3>2, <3>3, <3>4
  <2> QED  BY <2>1, <2>2
<1>6. atKind' = atKind
  BY DEF EndAtRule
<1>7. /\ Shallow(log', open', stack') \/ Deep(log', open', stack', atKind')
      /\ ~InRuleset(log', open')
  BY <1>2, <1>5, <1>6, StackCloses
<1>8. log' = log /\ Len(log) \in Nat
  BY <1>2, ShapeIs DEF Closes
<1>9. /\ sel \in 0..Len(log')
      /\ decls \in Seq(Numbered) /\ \A x \in DOMAIN decls : decls[x].id \in DOMAIN log'
      /\ rules \in Seq(Compiled)
      /\ keep \in Seq(PreservedBlock) /\ \A x \in DOMAIN keep : keep[x].id \in DOMAIN log'
      /\ base \in Nat /\ ord \in Nat /\ ended \in BOOLEAN
  BY <1>8, StillTyped
<1>10. keep' \in Seq(PreservedBlock) /\ \A x \in DOMAIN keep' : keep'[x].id \in DOMAIN log'
  <2> DEFINE w == Kept(atKind, Last(stack))
  <2>1. keep' = keep \/ (atKind \in Preserved /\ ~(Len(stack) > 1) /\ keep' = Append(keep, w))
    BY DEF EndAtRule
  <2>2. CASE keep' = keep
    BY <1>9, <2>2
  <2>3. CASE atKind \in Preserved /\ ~(Len(stack) > 1) /\ keep' = Append(keep, w)
    <3>1. Len(stack) = 1
      BY <1>4, <2>3
    <3>2. Last(stack) \in Opened /\ Last(stack) = stack[1]
      BY <1>4, <3>1, FrontIs
    <3>3. w \in PreservedBlock /\ w.id = stack[1].id
      BY <2>3, <3>2, KeptIs, SheetAssumption
    <3>4. stack[1].id = open[1] /\ open[1] \in DOMAIN log
      <4>1. Len(open) = 1
        BY <1>3, <3>1 DEF Deep
      <4>2. 1 \in 1..Len(open)
        BY <4>1
      <4> QED  BY <1>3, <4>2, ShapeIs DEF Deep
    <3> HIDE DEF w
    <3> QED  BY <1>8, <1>9, <2>3, <3>3, <3>4
  <2> QED  BY <2>1, <2>2, <2>3
<1>11. Shape'
  <2>1. /\ atKind' \in AtKind \union {"none"}
        /\ sel' = sel /\ decls' = decls /\ rules' = rules
        /\ base' = base /\ ord' = ord /\ ended' = ended
    BY DEF EndAtRule, Shape, TypeOK
  <2>2. OpensBlock => FALSE
    BY <1>8, ShapeIs DEF OpensBlock
  <2> QED  BY <1>2, <1>5, <1>7, <1>9, <1>10, <2>1, <2>2, ShapeFrom
<1> QED  BY <1>1, <1>2, <1>3, <1>7, <1>11

(* A ruleset opens: its selector is the last one read, and nothing is
   collected for it yet. *)
LEMMA BeginRulesetStep ==
    ASSUME Shape, NEW s \in Selectors, BeginRuleset(s)
    PROVE  /\ Shape' /\ OpensBlock /\ log'[Here].event = "ruleset" /\ log'[Here].head = s
           /\ InRuleset(log', open') /\ sel' = Here
           /\ stack = <<>> => open = <<>>
<1>1. Grown(log, open, log') /\ Len(log') = Here /\ log'[Here].event = "ruleset" /\ log'[Here].head = s
  BY DeliverGrows DEF BeginRuleset, Opens
<1>2. OpensBlock /\ atKind' = atKind /\ sel' = Here /\ decls' = <<>>
  BY <1>1 DEF BeginRuleset, Opens, OpensBlock
<1>3. ~InRuleset(log, open) /\ (stack = <<>> => open = <<>>)
  BY RuleListIs DEF BeginRuleset
<1>4. /\ Shallow(log', open', stack') \/ Deep(log', open', stack', atKind')
      /\ stack' \in Seq(Opened)
  <2>1. CASE stack = <<>>
    <3>1. stack' = <<>> /\ open = <<>>
      BY <1>3, <2>1 DEF BeginRuleset
    <3>2. <<>> \in Seq(Opened)
      OBVIOUS
    <3> QED  BY <1>1, <1>2, <3>1, <3>2, ShallowOpens
  <2>2. CASE stack # <<>>
    <3>1. stack' = Append(stack, Block(Here)) /\ InRuleList
      BY <2>2 DEF BeginRuleset
    <3> QED  BY <1>1, <1>2, <2>2, <3>1, StackOpens
  <2> QED  BY <2>1, <2>2
<1>5. Last(open') = Here /\ InRuleset(log', open')
  <2>1. open' = Append(open, Here) /\ open \in Seq(DOMAIN log) /\ Here \in Nat
    BY <1>2, ShapeIs DEF OpensBlock
  <2>2. open'[Len(open')] = Here /\ open' # <<>>
    BY <2>1
  <2> QED  BY <1>1, <2>2 DEF InRuleset, Last
<1>6. /\ DOMAIN log \subseteq DOMAIN log' /\ Len(log) <= Len(log') /\ Len(log') \in Nat
  BY <1>1, <1>2, <1>3, TextStep
<1>7. Shape'
  <2>1. /\ atKind' \in AtKind \union {"none"}
        /\ rules' = rules /\ keep' = keep
        /\ base' = base /\ ord' = ord /\ ended' = ended
    BY DEF BeginRuleset, Shape, TypeOK
  <2>2. /\ rules \in Seq(Compiled)
        /\ keep \in Seq(PreservedBlock) /\ \A x \in DOMAIN keep : keep[x].id \in DOMAIN log'
        /\ base \in Nat /\ ord \in Nat /\ ended \in BOOLEAN
    BY <1>6, StillTyped
  <2>3. /\ decls' \in Seq(Numbered) /\ \A x \in DOMAIN decls' : decls'[x].id \in DOMAIN log'
    BY <1>2
  <2>4. sel' \in 0..Len(log')
    BY <1>1, <1>2, <1>6
  <2> QED  BY <1>1, <1>2, <1>3, <1>4, <1>5, <2>1, <2>2, <2>3, <2>4, ShapeFrom
<1> QED  BY <1>1, <1>2, <1>3, <1>5, <1>7

(* One more declaration for the ruleset at hand. *)
LEMMA DeclsAppend ==
    ASSUME Shape, NEW D, Here \in D, DOMAIN log \subseteq D
    PROVE  /\ Append(decls, [id |-> Here, ord |-> ord]) \in Seq(Numbered)
           /\ \A x \in DOMAIN Append(decls, [id |-> Here, ord |-> ord]) :
                 Append(decls, [id |-> Here, ord |-> ord])[x].id \in D
<1> DEFINE d == [id |-> Here, ord |-> ord]
<1>1. decls \in Seq(Numbered) /\ ord \in Nat /\ \A x \in DOMAIN decls : decls[x].id \in DOMAIN log
  BY DEF Shape, TypeOK
<1>2. d \in Numbered /\ d.id = Here
  BY <1>1, ShapeIs DEF Numbered
<1> HIDE DEF d
<1>3. Append(decls, d) \in Seq(Numbered) /\ \A x \in DOMAIN Append(decls, d) : Append(decls, d)[x].id \in D
  BY <1>1, <1>2
<1> QED  BY <1>3 DEF d

(* What a declaration is collected into leaves the types as they are. *)
LEMMA DeclStep ==
    ASSUME Shape, NEW f \in Form, InDeclList, Deliver("decl", f), open' = open,
           stack' = stack \/ (stack # <<>> /\ stack' = PutInLast(stack, Here)),
           \/ decls' = decls /\ ord' = ord
           \/ decls' = Append(decls, [id |-> Here, ord |-> ord]) /\ ord' = ord + 1,
           UNCHANGED <<atKind, sel, rules, keep, base, ended>>
    PROVE  /\ Shape' /\ Writes /\ log'[Here].event = "decl" /\ log'[Here].head = f
           /\ InRuleset(log', open') <=> InRuleset(log, open)
           /\ stack = <<>> => InRuleset(log, open) /\ Len(open) = 1
<1>1. open # <<>> /\ (stack = <<>> => InRuleset(log, open) /\ Len(open) = 1)
  BY DeclListIs
<1>2. Grown(log, open, log') /\ Len(log') = Here /\ log'[Here].event = "decl" /\ log'[Here].head = f
  BY <1>1, DeliverGrows
<1>3. Writes
  BY <1>2 DEF Writes
<1>4. stack \in Seq(Opened) /\ Here \in Nat /\ Len(log) \in Nat /\ Here = Len(log) + 1
  BY ShapeIs
<1>5. stack' \in Seq(Opened) /\ Len(stack') = Len(stack) /\ \A x \in 1..Len(stack) : stack'[x].id = stack[x].id
  BY <1>4, PutInLastIs
<1>6. /\ Shallow(log', open', stack') \/ Deep(log', open', stack', atKind')
      /\ InRuleset(log', open') <=> InRuleset(log, open)
  BY <1>3, <1>5, StackWrites
<1>7. ~OpensBlock
  BY <1>3, WritesOnly
<1>8. /\ DOMAIN log \subseteq DOMAIN log' /\ Len(log) <= Len(log') /\ Len(log') \in Nat
      /\ DOMAIN log' = 1..Len(log') /\ Here \in 1..Len(log')
  <2>1. /\ DOMAIN log \subseteq DOMAIN log' /\ Len(log) <= Len(log') /\ Len(log') \in Nat
        /\ log' \in Seq(Entry)
    BY <1>3, <1>7, TextStep
  <2> QED  BY <1>2, <1>4, <2>1
<1>9. /\ sel \in 0..Len(log')
      /\ decls \in Seq(Numbered) /\ \A x \in DOMAIN decls : decls[x].id \in DOMAIN log'
      /\ rules \in Seq(Compiled)
      /\ keep \in Seq(PreservedBlock) /\ \A x \in DOMAIN keep : keep[x].id \in DOMAIN log'
      /\ base \in Nat /\ ord \in Nat /\ ended \in BOOLEAN
  BY <1>8, StillTyped
<1>10. /\ decls' \in Seq(Numbered) /\ \A x \in DOMAIN decls' : decls'[x].id \in DOMAIN log'
       /\ ord' \in Nat
  <2>1. CASE decls' = decls /\ ord' = ord
    BY <1>9, <2>1
  <2>2. CASE decls' = Append(decls, [id |-> Here, ord |-> ord]) /\ ord' = ord + 1
    <3> DEFINE ds == Append(decls, [id |-> Here, ord |-> ord])
    <3>1. Here \in DOMAIN log' /\ DOMAIN log \subseteq DOMAIN log'
      BY <1>8
    <3>2. ds \in Seq(Numbered) /\ \A x \in DOMAIN ds : ds[x].id \in DOMAIN log'
      BY <3>1, DeclsAppend
    <3> HIDE DEF ds
    <3>3. decls' = ds
      BY <2>2 DEF ds
    <3>4. ord' \in Nat
      BY <1>9, <2>2
    <3> QED  BY <3>2, <3>3, <3>4
  <2> QED  BY <2>1, <2>2
<1>11. Shape'
  <2>1. atKind' \in AtKind \union {"none"}
    BY DEF Shape, TypeOK
  <2>2. InRuleset(log', open') => sel' = Last(open')
    BY <1>6 DEF Shape, Nesting
  <2> QED  BY <1>3, <1>5, <1>6, <1>7, <1>9, <1>10, <2>1, <2>2, ShapeFrom
<1> QED  BY <1>1, <1>2, <1>3, <1>6, <1>11

(* A declaration is collected, noted or dropped. *)
LEMMA DeclarationStep ==
    ASSUME Shape, NEW blank \in BOOLEAN, Declaration(blank)
    PROVE  /\ Shape' /\ Writes /\ log'[Here].event = "decl"
           /\ log'[Here].head = IF blank THEN "blank" ELSE "plain"
           /\ InRuleset(log', open') <=> InRuleset(log, open)
           /\ stack = <<>> => InRuleset(log, open) /\ Len(open) = 1
<1> DEFINE f == IF blank THEN "blank" ELSE "plain"
<1>1. f \in Form
  BY DEF Form
<1>2. InDeclList /\ Deliver("decl", f) /\ open' = open /\ UNCHANGED <<atKind, sel, rules, keep, base, ended>>
  BY DEF Declaration
<1>3. stack' = stack \/ (stack # <<>> /\ stack' = PutInLast(stack, Here))
  BY DEF Declaration
<1>4. \/ decls' = decls /\ ord' = ord
      \/ decls' = Append(decls, [id |-> Here, ord |-> ord]) /\ ord' = ord + 1
  BY DEF Declaration
<1> HIDE DEF f
<1>5. /\ Shape' /\ Writes /\ log'[Here].event = "decl" /\ log'[Here].head = f
      /\ InRuleset(log', open') <=> InRuleset(log, open)
      /\ stack = <<>> => InRuleset(log, open) /\ Len(open) = 1
  BY <1>1, <1>2, <1>3, <1>4, DeclStep
<1> QED  BY <1>5 DEF f

(* A custom property is written, and belongs to the ruleset that is open if any is. *)
LEMMA CustomPropertyStep ==
    ASSUME Shape, CustomProperty
    PROVE  /\ Shape' /\ Writes /\ log'[Here].event = "decl" /\ log'[Here].head = "custom"
           /\ InRuleset(log', open') <=> InRuleset(log, open)
           /\ stack = <<>> => InRuleset(log, open) /\ Len(open) = 1
<1>1. "custom" \in Form
  BY DEF Form
<1>2. /\ InDeclList /\ Deliver("decl", "custom") /\ open' = open /\ stack' = stack
      /\ UNCHANGED <<atKind, sel, rules, keep, base, ended>>
  BY DEF CustomProperty
<1>3. \/ decls' = decls /\ ord' = ord
      \/ decls' = Append(decls, [id |-> Here, ord |-> ord]) /\ ord' = ord + 1
  BY DEF CustomProperty
<1> QED  BY <1>1, <1>2, <1>3, DeclStep

(* The end of a ruleset: its block goes into the one around it, or it is
   compiled. *)
LEMMA EndRulesetStep ==
    ASSUME Shape, EndRuleset
    PROVE  /\ Shape' /\ Closes /\ ~InRuleset(log', open')
           /\ InRuleset(log, open) /\ sel = Last(open)
           /\ stack = <<>> => Len(open) = 1 /\ open' = <<>>
           /\ stack # <<>> => Len(stack) > 1 /\ Deep(log, open, stack, atKind)
<1>1. InRuleset(log, open)
  BY ShapeIs DEF EndRuleset, InRuleset
<1>2. sel = Last(open) /\ Closes /\ atKind' = atKind
  BY <1>1 DEF Shape, Nesting, EndRuleset, Closes, InRuleset
<1>3. stack # <<>> => Len(stack) > 1 /\ Deep(log, open, stack, atKind)
  <2> HAVE stack # <<>>
  <2>1. Deep(log, open, stack, atKind)
    BY ShapeIs DEF Shallow
  <2>2. Len(open) # 1
    BY <1>1, <2>1 DEF Deep, InRuleset
  <2>3. Len(open) # 0 /\ Len(open) \in Nat /\ Len(stack) = Len(open)
    BY <2>1, ShapeIs DEF Deep
  <2> QED  BY <2>1, <2>2, <2>3
<1>4. stack = <<>> => Len(open) = 1 /\ open' = <<>>
  <2> HAVE stack = <<>>
  <2>1. Len(open) = 1
    <3>1. CASE Shallow(log, open, stack)
      BY <1>1, <3>1 DEF Shallow, InRuleset
    <3>2. CASE Deep(log, open, stack, atKind)
      BY <3>2, ShapeIs DEF Deep
    <3> QED  BY <3>1, <3>2, ShapeIs
  <2>2. Front(open) \in Seq(DOMAIN log) /\ Len(Front(open)) = 0
    BY <1>1, <2>1, ShapeIs, FrontIs DEF InRuleset
  <2>3. Front(open) = <<>>
    BY <2>2
  <2> QED  BY <1>2, <2>1, <2>3 DEF Closes
<1>5. stack \in Seq(Opened) /\ log' = log /\ Len(log) \in Nat
  BY <1>2, ShapeIs DEF Closes
<1>6. /\ stack' \in Seq(Opened)
      /\ \/ stack' = <<>> /\ Len(stack) <= 1
         \/ /\ Len(stack) > 1
            /\ Len(stack') = Len(stack) - 1
            /\ \A x \in 1..(Len(stack) - 1) : stack'[x].id = stack[x].id
  <2>1. CASE stack = <<>>
    <3>1. stack' = stack /\ Len(stack) = 0 /\ stack \in Seq(Opened)
      BY <1>5, <2>1 DEF EndRuleset
    <3> QED  BY <2>1, <3>1
  <2>2. CASE stack # <<>>
    <3>1. stack' = Fold(stack) /\ Len(stack) > 1
      BY <1>3, <2>2 DEF EndRuleset
    <3> QED  BY <1>5, <3>1, FoldIs
  <2> QED  BY <2>1, <2>2
<1>7. /\ Shallow(log', open', stack') \/ Deep(log', open', stack', atKind')
      /\ ~InRuleset(log', open')
  BY <1>2, <1>6, StackCloses
<1>8. /\ sel \in 0..Len(log')
      /\ decls \in Seq(Numbered) /\ \A x \in DOMAIN decls : decls[x].id \in DOMAIN log'
      /\ rules \in Seq(Compiled)
      /\ keep \in Seq(PreservedBlock) /\ \A x \in DOMAIN keep : keep[x].id \in DOMAIN log'
      /\ base \in Nat /\ ord \in Nat /\ ended \in BOOLEAN
  BY <1>5, StillTyped
<1>9. /\ rules' \in Seq(Compiled)
      /\ keep' \in Seq(PreservedBlock) /\ \A x \in DOMAIN keep' : keep'[x].id \in DOMAIN log'
  <2>1. CASE stack # <<>>
    BY <1>8, <2>1 DEF EndRuleset
  <2>2. CASE stack = <<>>
    BY <1>1, <1>2, <1>5, <2>2, FinishIs DEF EndRuleset
  <2> QED  BY <2>1, <2>2
<1>10. Shape'
  <2>1. /\ atKind' \in AtKind \union {"none"}
        /\ sel' = sel /\ decls' = decls /\ base' = base /\ ord' = ord /\ ended' = ended
    BY DEF EndRuleset, Shape, TypeOK
  <2>2. OpensBlock => FALSE
    BY <1>5, ShapeIs DEF OpensBlock
  <2> QED  BY <1>2, <1>6, <1>7, <1>8, <1>9, <2>1, <2>2, ShapeFrom
<1> QED  BY <1>1, <1>2, <1>3, <1>4, <1>7, <1>10

(* Nothing of the result depends on where the input stops. *)
LEMMA StopStep ==
    ASSUME Shape, Stop \/ UNCHANGED vars
    PROVE  Shape'
  BY DEF Stop, vars, Shape, TypeOK, Nesting, AtTop

(* Shape holds at the start. *)
LEMMA InitShape == Init => Shape
<1> SUFFICES ASSUME Init PROVE Shape
  OBVIOUS
<1>1. /\ log = <<>> /\ open = <<>> /\ stack = <<>> /\ decls = <<>> /\ rules = <<>> /\ keep = <<>>
      /\ atKind = "none" /\ sel = 0 /\ base \in Nat /\ ord = base /\ ended = FALSE
  BY SheetAssumption DEF Init
<1>2. TypeOK
  <2>1. Len(log) = 0 /\ 0 \in 0..0
    BY <1>1
  <2>2. <<>> \in Seq(Entry) /\ <<>> \in Seq(DOMAIN log) /\ <<>> \in Seq(Opened) /\ <<>> \in Seq(Numbered)
        /\ <<>> \in Seq(Compiled) /\ <<>> \in Seq(PreservedBlock) /\ DOMAIN <<>> = {}
    OBVIOUS
  <2> QED  BY <1>1, <2>1, <2>2 DEF TypeOK, AtTop
<1>3. Nesting
  <2>1. Entries(<<>>)
    BY DEF Entries
  <2>2. Blocks(<<>>, <<>>)
    BY DEF Blocks
  <2> QED  BY <1>1, <2>1, <2>2 DEF Nesting, InRuleset
<1> QED  BY <1>2, <1>3 DEF Shape

(* Every event keeps the shape. *)
LEMMA NextShape == Shape /\ [Next]_vars => Shape'
<1> SUFFICES ASSUME Shape, [Next]_vars PROVE Shape'
  OBVIOUS
<1>1. CASE \E k \in AtKind : BeginAtRule(k)
  BY <1>1, BeginAtRuleStep
<1>2. CASE \E k \in AtKind : BodylessAtRule(k)
  BY <1>2, BodylessAtRuleStep
<1>3. CASE EndAtRule
  BY <1>3, EndAtRuleStep
<1>4. CASE \E s \in Selectors : BeginRuleset(s)
  BY <1>4, BeginRulesetStep
<1>5. CASE \E blank \in BOOLEAN : Declaration(blank)
  BY <1>5, DeclarationStep
<1>6. CASE CustomProperty
  BY <1>6, CustomPropertyStep
<1>7. CASE EndRuleset
  BY <1>7, EndRulesetStep
<1>8. CASE Stop \/ Done \/ UNCHANGED vars
  BY <1>8, StopStep DEF Done
<1> QED  BY <1>1, <1>2, <1>3, <1>4, <1>5, <1>6, <1>7, <1>8 DEF Next

(***************************************************************************)
(* The machine is in a legal state whatever the stylesheet: the stack of   *)
(* blocks follows the nesting of the input, so the end of a block always   *)
(* finds its own block to pop, and no reference leads outside the text.    *)
(***************************************************************************)
THEOREM TypeCorrect == Spec => []TypeOK
<1>1. Shape => TypeOK
  BY DEF Shape
<1> QED  BY <1>1, InitShape, NextShape, PTL DEF Spec

-----------------------------------------------------------------------------
(* Numbers for the cascade *)

RulesAscend(rs, b, o) ==
    \A r, s \in DOMAIN rs : \A x \in DOMAIN rs[r].decls, y \in DOMAIN rs[s].decls :
        LET d == rs[r].decls[x]
            e == rs[s].decls[y]
        IN /\ d.ord \in b..o - 1
           /\ rs[r].sel < rs[s].sel => d.ord < e.ord
           /\ r = s /\ x < y => d.ord < e.ord

(* The numbers of a list of declarations grow, up to the next one to give out. *)
Ascends(ds, b, o) ==
    /\ \A x \in DOMAIN ds : ds[x].ord \in b..o - 1
    /\ \A x, y \in DOMAIN ds : x < y => ds[x].ord < ds[y].ord

(* Rules rs come before a ruleset c with declarations ds. *)
Precede(rs, c, ds) ==
    \A r \in DOMAIN rs :
        /\ rs[r].sel < c
        /\ \A x \in DOMAIN rs[r].decls, y \in DOMAIN ds : rs[r].decls[x].ord < ds[y].ord

(* What numbers have been given out; the rules there are come before the
   ruleset that is open. *)
Numbers ==
    /\ base <= ord
    /\ Ascends(decls, base, ord)
    /\ \A r \in DOMAIN rules : rules[r].sel \in DOMAIN log
    /\ RulesAscend(rules, base, ord)
    /\ stack = <<>> /\ InRuleset(log, open) => Precede(rules, sel, decls)

(* An element of a concatenation comes from the one or the other. *)
LEMMA ConcatElements ==
    ASSUME NEW S, NEW u \in Seq(S), NEW v \in Seq(S)
    PROVE  \A r \in DOMAIN (u \o v) :
              \/ r \in DOMAIN u /\ (u \o v)[r] = u[r]
              \/ r \notin DOMAIN u /\ \E x \in DOMAIN v : (u \o v)[r] = v[x]
<1> DEFINE q == u \o v
<1> SUFFICES ASSUME NEW r \in DOMAIN q
             PROVE  \/ r \in DOMAIN u /\ q[r] = u[r]
                    \/ r \notin DOMAIN u /\ \E x \in DOMAIN v : q[r] = v[x]
  OBVIOUS
<1>1. /\ Len(u) \in Nat /\ DOMAIN u = 1..Len(u) /\ Len(v) \in Nat /\ DOMAIN v = 1..Len(v)
      /\ DOMAIN q = 1..(Len(u) + Len(v))
      /\ \A i \in 1..(Len(u) + Len(v)) : q[i] = IF i <= Len(u) THEN u[i] ELSE v[i - Len(u)]
  OBVIOUS
<1> HIDE DEF q
<1>2. CASE r <= Len(u)
  BY <1>1, <1>2
<1>3. CASE ~(r <= Len(u))
  <2>1. r - Len(u) \in DOMAIN v /\ q[r] = v[r - Len(u)] /\ r \notin DOMAIN u
    BY <1>1, <1>3
  <2> QED  BY <2>1
<1> QED  BY <1>2, <1>3

(* The rules of a ruleset may follow those it comes after. *)
LEMMA RulesFollow ==
    ASSUME NEW rs \in Seq(Compiled), NEW new \in Seq(Compiled), NEW c \in Nat, NEW ds \in Seq(Numbered),
           NEW b \in Nat, NEW o \in Nat,
           \A x \in DOMAIN new : new[x].sel = c /\ new[x].decls = ds,
           RulesAscend(rs, b, o), Ascends(ds, b, o), Precede(rs, c, ds)
    PROVE  RulesAscend(rs \o new, b, o)
<1> DEFINE q == rs \o new
<1>1. \A r \in DOMAIN q : \/ r \in DOMAIN rs /\ q[r] = rs[r]
                          \/ r \notin DOMAIN rs /\ q[r].sel = c /\ q[r].decls = ds
  BY ConcatElements
<1> HIDE DEF q
<1>2. ASSUME NEW r \in DOMAIN q, NEW s \in DOMAIN q,
             NEW x \in DOMAIN q[r].decls, NEW y \in DOMAIN q[s].decls
      PROVE  /\ q[r].decls[x].ord \in b..o - 1
             /\ q[r].sel < q[s].sel => q[r].decls[x].ord < q[s].decls[y].ord
             /\ r = s /\ x < y => q[r].decls[x].ord < q[s].decls[y].ord
  <2>1. CASE r \in DOMAIN rs /\ s \in DOMAIN rs
    <3>1. q[r] = rs[r] /\ q[s] = rs[s]
      BY <1>1, <2>1
    <3> QED  BY <2>1, <3>1 DEF RulesAscend
  <2>2. CASE r \in DOMAIN rs /\ s \notin DOMAIN rs
    <3>1. q[r] = rs[r] /\ q[s].decls = ds /\ r # s
      BY <1>1, <2>2
    <3>2. q[r].decls[x].ord \in b..o - 1
      BY <2>2, <3>1 DEF RulesAscend
    <3> QED  BY <2>2, <3>1, <3>2 DEF Precede
  <2>3. CASE r \notin DOMAIN rs /\ s \in DOMAIN rs
    <3>1. q[s] = rs[s] /\ q[r].sel = c /\ q[r].decls = ds /\ r # s
      BY <1>1, <2>3
    <3>2. rs[s].sel < c /\ rs[s].sel \in Nat
      <4>1. rs[s] \in Compiled
        BY <2>3, ElementOfSeq
      <4> QED  BY <2>3, <4>1 DEF Precede, Compiled
    <3>3. ~(q[r].sel < q[s].sel)
      BY <3>1, <3>2
    <3> QED  BY <3>1, <3>3 DEF Ascends
  <2>4. CASE r \notin DOMAIN rs /\ s \notin DOMAIN rs
    <3>1. q[r].sel = c /\ q[r].decls = ds /\ q[s].sel = c /\ q[s].decls = ds
      BY <1>1, <2>4
    <3>2. ~(q[r].sel < q[s].sel)
      BY <3>1
    <3> QED  BY <3>1, <3>2 DEF Ascends
  <2> QED  BY <2>1, <2>2, <2>3, <2>4
<1>3. RulesAscend(q, b, o)
  BY <1>2 DEF RulesAscend
<1> QED  BY <1>3 DEF q

(* Numbers given out earlier stay below the next one. *)
LEMMA StillAscend ==
    ASSUME NEW rs, NEW ds, NEW b \in Nat, NEW o \in Nat, RulesAscend(rs, b, o), Ascends(ds, b, o)
    PROVE  RulesAscend(rs, b, o + 1) /\ Ascends(ds, b, o + 1)
<1>1. \A d \in b..o - 1 : d \in b..(o + 1) - 1
  OBVIOUS
<1> QED  BY <1>1 DEF RulesAscend, Ascends

(* The next declaration of the open ruleset takes the next number. *)
LEMMA NumberNext ==
    ASSUME Shape, Numbers, stack = <<>>, InRuleset(log, open),
           decls' = Append(decls, [id |-> Here, ord |-> ord]), ord' = ord + 1,
           rules' = rules, base' = base, sel' = sel
    PROVE  /\ base' <= ord' /\ Ascends(decls', base', ord')
           /\ RulesAscend(rules', base', ord') /\ Precede(rules', sel', decls')
<1> DEFINE d == [id |-> Here, ord |-> ord]
           n == Len(decls)
<1>1. decls \in Seq(Numbered) /\ base \in Nat /\ ord \in Nat /\ d \in Numbered /\ d.ord = ord /\ Here \in Nat
  BY ShapeIs DEF Shape, TypeOK, Numbered
<1> HIDE DEF d
<1>2. /\ n \in Nat /\ DOMAIN decls = 1..n /\ DOMAIN decls' = 1..(n + 1)
      /\ decls'[n + 1] = d /\ \A x \in 1..n : decls'[x] = decls[x]
  BY <1>1 DEF d
<1> HIDE DEF n
<1>3. \A x \in DOMAIN decls' : x = n + 1 \/ x \in 1..n
  BY <1>2
<1>4. RulesAscend(rules, base, ord + 1) /\ Ascends(decls, base, ord + 1)
  BY <1>1, StillAscend DEF Numbers
<1>5. base <= ord /\ ord \in base..(ord + 1) - 1
  BY <1>1 DEF Numbers
<1>6. \A x \in DOMAIN decls' : decls'[x].ord \in base..(ord + 1) - 1
  <2> TAKE x \in DOMAIN decls'
  <2>1. CASE x = n + 1
    BY <1>1, <1>2, <1>5, <2>1
  <2>2. CASE x \in 1..n
    BY <1>2, <1>4, <2>2 DEF Ascends
  <2> QED  BY <1>3, <2>1, <2>2
<1>7. \A x \in 1..n : decls[x].ord \in base..ord - 1
  BY <1>2 DEF Numbers, Ascends
<1>8. ASSUME NEW x \in DOMAIN decls', NEW y \in DOMAIN decls', x < y
      PROVE  decls'[x].ord < decls'[y].ord
  <2>1. x \in 1..n
    BY <1>2, <1>8
  <2>2. CASE y = n + 1
    BY <1>1, <1>2, <1>7, <2>1, <2>2
  <2>3. CASE y \in 1..n
    BY <1>2, <1>8, <2>1, <2>3 DEF Numbers, Ascends
  <2> QED  BY <1>3, <2>2, <2>3
<1>9. ASSUME NEW r \in DOMAIN rules
      PROVE  /\ rules[r].sel < sel
             /\ \A x \in DOMAIN rules[r].decls, y \in DOMAIN decls' : rules[r].decls[x].ord < decls'[y].ord
  <2>1. rules[r].sel < sel
    BY DEF Numbers, Precede
  <2>2. ASSUME NEW x \in DOMAIN rules[r].decls, NEW y \in DOMAIN decls'
        PROVE  rules[r].decls[x].ord < decls'[y].ord
    <3>1. CASE y = n + 1
      <4>1. rules[r].decls[x].ord \in base..ord - 1
        BY DEF Numbers, RulesAscend
      <4> QED  BY <1>1, <1>2, <3>1, <4>1
    <3>2. CASE y \in 1..n
      BY <1>2, <3>2 DEF Numbers, Precede
    <3> QED  BY <1>3, <3>1, <3>2
  <2> QED  BY <2>1, <2>2
<1>10. base' <= ord' /\ RulesAscend(rules', base', ord')
  BY <1>1, <1>4, <1>5
<1>11. Ascends(decls', base', ord')
  BY <1>6, <1>8 DEF Ascends
<1>12. Precede(rules', sel', decls')
  BY <1>9 DEF Precede
<1> QED  BY <1>10, <1>11, <1>12

(* Numbering starts at the base, with no rule and no declaration. *)
LEMMA InitNumbers == Init => Numbers
<1> SUFFICES ASSUME Init PROVE Numbers
  OBVIOUS
<1>1. base \in Nat /\ ord = base /\ decls = <<>> /\ rules = <<>> /\ open = <<>>
  BY SheetAssumption DEF Init
<1> QED  BY <1>1 DEF Numbers, Ascends, RulesAscend, InRuleset

(* No numbers are given out, and the rules stay as they are. *)
LEMMA NumbersKept ==
    ASSUME Numbers, DOMAIN log \subseteq DOMAIN log',
           rules' = rules, base' = base, ord' = ord,
           decls' = decls \/ decls' = <<>>,
           stack' = <<>> /\ InRuleset(log', open') => Precede(rules, sel', decls')
    PROVE  Numbers'
<1>1. Ascends(<<>>, base, ord)
  BY DEF Ascends
<1>2. Ascends(decls', base, ord)
  BY <1>1 DEF Numbers
<1> QED  BY <1>2 DEF Numbers

(* Every event keeps the numbers growing. *)
LEMMA NextNumbers == Shape /\ Numbers /\ [Next]_vars => Numbers'
<1> SUFFICES ASSUME Shape, Numbers, [Next]_vars PROVE Numbers'
  OBVIOUS
<1> USE DEF Numbers
<1>1. ASSUME NEW k \in AtKind, BeginAtRule(k) PROVE Numbers'
  <2>1. OpensBlock /\ log'[Here].event = "at-rule" /\ ~InRuleset(log', open') /\ ~InRuleset(log, open)
    BY <1>1, BeginAtRuleStep, RuleListIs DEF BeginAtRule
  <2>2. DOMAIN log \subseteq DOMAIN log'
    BY <2>1, TextStep
  <2> QED  BY <1>1, <2>1, <2>2, NumbersKept DEF BeginAtRule
<1>2. ASSUME NEW k \in AtKind, BodylessAtRule(k) PROVE Numbers'
  <2>1. Writes /\ ~InRuleset(log', open')
    BY <1>2, BodylessAtRuleStep
  <2>2. DOMAIN log \subseteq DOMAIN log'
    BY <2>1, TextStep, WritesOnly
  <2> QED  BY <1>2, <2>1, <2>2, NumbersKept DEF BodylessAtRule
<1>3. ASSUME EndAtRule PROVE Numbers'
  <2>1. ~InRuleset(log', open') /\ log' = log
    BY <1>3, EndAtRuleStep DEF Closes
  <2> QED  BY <1>3, <2>1, NumbersKept DEF EndAtRule
<1>4. ASSUME NEW s \in Selectors, BeginRuleset(s) PROVE Numbers'
  <2>1. OpensBlock /\ log'[Here].event = "ruleset" /\ ~InRuleset(log, open) /\ sel' = Here /\ decls' = <<>>
    BY <1>4, BeginRulesetStep, RuleListIs DEF BeginRuleset
  <2>2. DOMAIN log \subseteq DOMAIN log'
    BY <2>1, TextStep
  <2>3. Precede(rules, sel', decls')
    <3>1. \A r \in DOMAIN rules : rules[r].sel < Here
      BY ShapeIs
    <3> QED  BY <2>1, <3>1 DEF Precede
  <2> QED  BY <1>4, <2>1, <2>2, <2>3, NumbersKept DEF BeginRuleset
<1>5. ASSUME Shape', Writes, InRuleset(log', open') <=> InRuleset(log, open),
             stack = <<>> => InRuleset(log, open), stack' = <<>> <=> stack = <<>>,
             UNCHANGED <<sel, rules, base>>,
             \/ decls' = decls /\ ord' = ord
             \/ stack = <<>> /\ decls' = Append(decls, [id |-> Here, ord |-> ord]) /\ ord' = ord + 1
      PROVE  Numbers'
  <2>1. DOMAIN log \subseteq DOMAIN log'
    BY <1>5, TextStep, WritesOnly
  <2>2. CASE decls' = decls /\ ord' = ord
    BY <1>5, <2>1, <2>2, NumbersKept
  <2>3. CASE stack = <<>> /\ decls' = Append(decls, [id |-> Here, ord |-> ord]) /\ ord' = ord + 1
    <3>1. /\ base' <= ord' /\ Ascends(decls', base', ord')
          /\ RulesAscend(rules', base', ord') /\ Precede(rules', sel', decls')
      BY <1>5, <2>3, NumberNext
    <3>2. \A r \in DOMAIN rules' : rules'[r].sel \in DOMAIN log'
      BY <1>5, <2>1
    <3> QED  BY <3>1, <3>2
  <2> QED  BY <1>5, <2>2, <2>3
<1>6. ASSUME NEW blank \in BOOLEAN, Declaration(blank) PROVE Numbers'
  <2>1. /\ Shape' /\ Writes
        /\ InRuleset(log', open') <=> InRuleset(log, open)
        /\ stack = <<>> => InRuleset(log, open)
    BY <1>6, DeclarationStep
  <2>2. stack' = <<>> <=> stack = <<>>
    <3>1. CASE stack # <<>> /\ ~blank
      <4>1. stack' = PutInLast(stack, Here)
        BY <1>6, <3>1 DEF Declaration
      <4>2. Len(stack') = Len(stack) /\ stack' \in Seq(Opened) /\ stack \in Seq(Opened)
        BY <3>1, <4>1, ShapeIs, PutInLastIs
      <4> QED  BY <4>2
    <3>2. CASE ~(stack # <<>> /\ ~blank)
      BY <1>6, <3>2 DEF Declaration
    <3> QED  BY <3>1, <3>2
  <2>3. /\ UNCHANGED <<sel, rules, base>>
        /\ \/ decls' = decls /\ ord' = ord
           \/ stack = <<>> /\ decls' = Append(decls, [id |-> Here, ord |-> ord]) /\ ord' = ord + 1
    BY <1>6 DEF Declaration
  <2> HIDE DEF Numbers
  <2> QED  BY <1>5, <2>1, <2>2, <2>3
<1>7. ASSUME CustomProperty PROVE Numbers'
  <2>1. /\ Shape' /\ Writes
        /\ InRuleset(log', open') <=> InRuleset(log, open)
        /\ stack = <<>> => InRuleset(log, open)
    BY <1>7, CustomPropertyStep
  <2>2. /\ stack' = stack /\ UNCHANGED <<sel, rules, base>>
        /\ \/ decls' = decls /\ ord' = ord
           \/ stack = <<>> /\ decls' = Append(decls, [id |-> Here, ord |-> ord]) /\ ord' = ord + 1
    BY <1>7 DEF CustomProperty
  <2> HIDE DEF Numbers
  <2> QED  BY <1>5, <2>1, <2>2
<1>8. ASSUME EndRuleset PROVE Numbers'
  <2>1. ~InRuleset(log', open') /\ log' = log /\ InRuleset(log, open) /\ sel = Last(open)
    BY <1>8, EndRulesetStep DEF Closes
  <2>2. UNCHANGED <<sel, decls, base, ord>>
    BY <1>8 DEF EndRuleset
  <2>3. CASE rules' = rules
    BY <2>1, <2>2, <2>3, NumbersKept
  <2>4. CASE rules' # rules
    <3> DEFINE new == compile(sel, Arms[log[sel].head], decls)
    <3>1. FinishRuleset /\ stack = <<>> /\ rules' = rules \o new
      BY <1>8, <2>4 DEF EndRuleset, FinishRuleset
    <3>2. sel \in DOMAIN log /\ Arms[log[sel].head] \in Seq(Arm)
      BY <2>1, <3>1, FinishIs
    <3>3. rules \in Seq(Compiled) /\ decls \in Seq(Numbered) /\ base \in Nat /\ ord \in Nat /\ sel \in Nat
      BY <3>2, ShapeIs DEF Shape, TypeOK
    <3>4. new \in Seq(Compiled) /\ \A x \in DOMAIN new : new[x].sel = sel /\ new[x].decls = decls
      BY <3>2, <3>3, CompileIs
    <3> HIDE DEF new
    <3>5. Precede(rules, sel, decls)
      BY <2>1, <3>1
    <3>6. RulesAscend(rules \o new, base, ord)
      BY <3>3, <3>4, <3>5, RulesFollow
    <3>7. \A r \in DOMAIN rules' : rules'[r].sel \in DOMAIN log'
      <4>1. \A r \in DOMAIN (rules \o new) :
               \/ r \in DOMAIN rules /\ (rules \o new)[r] = rules[r]
               \/ r \notin DOMAIN rules /\ \E x \in DOMAIN new : (rules \o new)[r] = new[x]
        BY <3>3, <3>4, ConcatElements
      <4>2. \A r \in DOMAIN rules' : rules'[r].sel \in DOMAIN log
        BY <3>1, <3>2, <3>4, <4>1
      <4> QED  BY <2>1, <4>2
    <3> QED  BY <2>1, <2>2, <3>1, <3>6, <3>7
  <2> QED  BY <2>3, <2>4
<1>9. ASSUME Stop \/ Done \/ UNCHANGED vars PROVE Numbers'
  BY <1>9 DEF Stop, Done, vars
<1> QED  BY <1>1, <1>2, <1>3, <1>4, <1>6, <1>7, <1>8, <1>9 DEF Next

(***************************************************************************)
(* The cascade can go by the numbers, within a stylesheet and from one to  *)
(* the next.  The rules that are there already stay below the ruleset that *)
(* is open, whose selector and declarations the nested ones leave alone.   *)
(***************************************************************************)
THEOREM NumbersGrow == Spec => []OrdersAscend
<1>1. Numbers => OrdersAscend
  BY DEF Numbers, OrdersAscend, RulesAscend
<1> QED  BY <1>1, InitShape, NextShape, InitNumbers, NextNumbers, PTL DEF Spec

-----------------------------------------------------------------------------
(* What the text says, for any text l and the blocks o open in it *)

Ids(ds) == [x \in DOMAIN ds |-> ds[x].id]

Says(l, b) ==
    {k \in DOMAIN l : l[k].event = "decl" /\ l[k].head # "blank" /\ Last(l[k].path) = b}

BodyOf(l, b) == Listing(Len(l), Says(l, b))

Shut(o, b) == \A x \in DOMAIN o : o[x] # b

TopSets(l, o) ==
    {b \in DOMAIN l : l[b].event = "ruleset" /\ l[b].path = <<>> /\ Shut(o, b) /\ BodyOf(l, b) # <<>>}

ArmsOf(l, b) == Arms[l[b].head]

Preserves(l, o) ==
    {b \in DOMAIN l : /\ l[b].event \in {"at-rule", "bodyless"} /\ l[b].head \in Preserved
                      /\ l[b].path = <<>> /\ Shut(o, b)}
    \union {b \in TopSets(l, o) : anyIgnored(ArmsOf(l, b)) /\ PreservePseudos}

Notable(l, k) ==
    l[k].event \in {"at-rule", "ruleset"} \/ (l[k].event = "decl" /\ l[k].head = "plain")

Pairs(l, K) == {<<Last(l[k].path), k>> : k \in K}

Below(l, b) == {k \in DOMAIN l : Notable(l, k) /\ Inside(l, b, k)}

(* What is written in the xth open block, and not in the next one. *)
Directly(l, o, x) ==
    {k \in Below(l, o[x]) : x < Len(o) => k # o[x + 1] /\ ~Inside(l, o[x + 1], k)}

HeldIn(l, b) ==
    IF l[b].event = "ruleset" THEN {<<b, BodyOf(l, b)[x]>> : x \in DOMAIN BodyOf(l, b)}
    ELSE Pairs(l, Below(l, b))

(* The rules of a ruleset with the declarations its body names. *)
RulesOf(l, b) == compile(b, ArmsOf(l, b), BodyOf(l, b))

RulesOfAll(l, src) == FlattenSeq([x \in DOMAIN src |-> RulesOf(l, src[x])])

Shown(rs) == [x \in DOMAIN rs |-> [rs[x] EXCEPT !.decls = Ids(@)]]

(* What has been read of the blocks that are still open: the declarations of
   a ruleset, or what each block holds outside the next one. *)
Gathered ==
    /\ stack = <<>> /\ InRuleset(log, open) => Ids(decls) = BodyOf(log, sel)
    /\ Deep(log, open, stack, atKind) =>
          \A x \in 1..Len(open) : stack[x].holds = Pairs(log, Directly(log, open, x))

(* What has become of those that are closed. *)
Results ==
    /\ Shown(rules) = RulesOfAll(log, Listing(Len(log), TopSets(log, open)))
    /\ Ids(keep) = Listing(Len(log), Preserves(log, open))
    /\ \A x \in DOMAIN keep : keep[x].holds = HeldIn(log, keep[x].id)

(* What these say of the text so far is what the properties say of it. *)
LEMMA TextIs ==
    ASSUME Shape
    PROVE  /\ \A S : InOrder(S) = Listing(Len(log), S)
           /\ \A b : Body(b) = BodyOf(log, b)
           /\ TopRulesets = TopSets(log, open)
           /\ ToPreserve = Preserves(log, open)
           /\ \A b : Held(b) = HeldIn(log, b)
<1>1. DOMAIN log = 1..Len(log)
  BY ShapeIs
<1>2. \A S : InOrder(S) = Listing(Len(log), S)
  BY <1>1 DEF InOrder, Listing, Single
<1>3. \A b : Body(b) = BodyOf(log, b)
  BY <1>2 DEF Body, BodyOf, Says
<1>4. TopRulesets = TopSets(log, open)
  BY <1>3 DEF TopRulesets, TopSets, Top, Closed, Shut
<1>5. ToPreserve = Preserves(log, open)
  BY <1>4 DEF ToPreserve, Preserves, Top, Closed, Shut, IgnoredIn, ArmsOf
<1>6. \A b : Noted(b) = Pairs(log, Below(log, b))
  BY DEF Noted, Pairs, Below, Within, Inside, Notable
<1>7. \A b : Held(b) = HeldIn(log, b)
  BY <1>3, <1>6 DEF Held, HeldIn
<1> QED  BY <1>2, <1>3, <1>4, <1>5, <1>7

(* The body of a block grows by the declarations written directly in it. *)
LEMMA BodyGrows ==
    ASSUME NEW l, NEW o, NEW m, Entries(l), Blocks(l, o), Grown(l, o, m), NEW b
    PROVE  BodyOf(m, b) = IF m[Len(m)].event = "decl" /\ m[Len(m)].head # "blank" /\ Last(o) = b
                          THEN Append(BodyOf(l, b), Len(m)) ELSE BodyOf(l, b)
<1> DEFINE n == Len(l)
<1>1. /\ n \in Nat /\ DOMAIN l = 1..n /\ DOMAIN m = 1..(n + 1) /\ Len(m) = n + 1 /\ n + 1 \in DOMAIN m
      /\ \A k \in 1..n : k \in DOMAIN m /\ m[k] = l[k]
      /\ m[n + 1].path = o
  BY GrownIs DEF Grown
<1> HIDE DEF n
<1>2. \A k \in 1..n : k \in Says(m, b) <=> k \in Says(l, b)
  BY <1>1 DEF Says
<1>3. n + 1 \in Says(m, b) <=> m[n + 1].event = "decl" /\ m[n + 1].head # "blank" /\ Last(o) = b
  BY <1>1 DEF Says
<1>4. Listing(n, Says(m, b)) = Listing(n, Says(l, b))
  BY <1>1, <1>2, ListingSame
<1>5. Listing(n + 1, Says(m, b)) = IF n + 1 \in Says(m, b) THEN Append(Listing(n, Says(m, b)), n + 1)
                                   ELSE Listing(n, Says(m, b))
  BY <1>1, ListingStep
<1>6. BodyOf(m, b) = Listing(n + 1, Says(m, b)) /\ BodyOf(l, b) = Listing(n, Says(l, b))
  BY <1>1 DEF BodyOf, n
<1> QED  BY <1>1, <1>3, <1>4, <1>5, <1>6

(* A block just opened is empty. *)
LEMMA NewIsEmpty ==
    ASSUME NEW m, Entries(m), m # <<>>
    PROVE  BodyOf(m, Len(m)) = <<>> /\ Below(m, Len(m)) = {}
<1>1. Len(m) \in Nat /\ DOMAIN m = 1..Len(m) /\ m \in Seq(Entry)
  BY DEF Entries
<1>2. \A k \in 1..Len(m) : k \notin Says(m, Len(m))
  <2> SUFFICES ASSUME NEW k \in 1..Len(m), m[k].event = "decl", Last(m[k].path) = Len(m) PROVE FALSE
    BY DEF Says
  <2>1. m[k].path # <<>> /\ m[k].path \in Seq(Nat)
    <3>1. m[k] \in Entry
      BY <1>1, ElementOfSeq
    <3> QED  BY <1>1, <3>1 DEF Entries, Entry
  <2>2. Last(m[k].path) = m[k].path[Len(m[k].path)] /\ Len(m[k].path) \in DOMAIN m[k].path
    BY <2>1, FrontIs
  <2>3. m[k].path[Len(m[k].path)] \in 1..(k - 1)
    BY <1>1, <2>2 DEF Entries
  <2> QED  BY <1>1, <2>2, <2>3
<1>3. Listing(Len(m), Says(m, Len(m))) = Listing(0, Says(m, Len(m)))
  <2>1. \A k \in (0 + 1)..Len(m) : k \notin Says(m, Len(m))
    BY <1>2
  <2>2. 0 \in Nat /\ 0 <= Len(m)
    BY <1>1
  <2> QED  BY <1>1, <2>1, <2>2, ListingSkips
<1>4. BodyOf(m, Len(m)) = <<>>
  BY <1>3, ListingOfNone DEF BodyOf
<1>5. \A k \in DOMAIN m : ~Inside(m, Len(m), k)
  <2> SUFFICES ASSUME NEW k \in DOMAIN m, NEW x \in DOMAIN m[k].path, m[k].path[x] = Len(m) PROVE FALSE
    BY DEF Inside
  <2>1. m[k].path[x] \in 1..(k - 1)
    BY DEF Entries
  <2> QED  BY <1>1, <2>1
<1>6. Below(m, Len(m)) = {}
  BY <1>5 DEF Below
<1> QED  BY <1>4, <1>6

(* A new event is written in no block that is closed. *)
LEMMA HeldStays ==
    ASSUME NEW l, NEW o, NEW m, Entries(l), Blocks(l, o), Grown(l, o, m),
           NEW b \in DOMAIN l, Shut(o, b)
    PROVE  BodyOf(m, b) = BodyOf(l, b) /\ HeldIn(m, b) = HeldIn(l, b) /\ m[b] = l[b]
<1>1. /\ \A k \in DOMAIN m : k = Len(m) \/ k \in DOMAIN l
      /\ \A k \in DOMAIN l : k \in DOMAIN m /\ m[k] = l[k]
      /\ o \in Seq(DOMAIN l)
  BY GrownIs DEF Grown, Blocks
<1>2. BodyOf(m, b) = BodyOf(l, b)
  <2>1. m[Len(m)].event = "decl" => Last(o) # b
    <3>1. m[Len(m)].event = "decl" => o # <<>>
      BY DEF Grown
    <3>2. o # <<>> => Last(o) = o[Len(o)] /\ Len(o) \in DOMAIN o
      BY <1>1, FrontIs
    <3> QED  BY <3>1, <3>2 DEF Shut
  <2> QED  BY <2>1, BodyGrows
<1>3. /\ \A k \in DOMAIN l : Inside(m, b, k) <=> Inside(l, b, k)
      /\ ~Inside(m, b, Len(m))
  BY InsideGrown DEF Shut
<1>4. Below(m, b) = Below(l, b)
  <2>1. \A k \in Below(m, b) : k \in Below(l, b)
    BY <1>1, <1>3 DEF Below, Notable
  <2>2. \A k \in Below(l, b) : k \in Below(m, b)
    BY <1>1, <1>3 DEF Below, Notable
  <2> QED  BY <2>1, <2>2
<1>5. Pairs(m, Below(m, b)) = Pairs(l, Below(l, b))
  <2>1. \A k \in Below(l, b) : m[k] = l[k]
    BY <1>1 DEF Below
  <2> QED  BY <1>4, <2>1 DEF Pairs
<1> QED  BY <1>1, <1>2, <1>5 DEF HeldIn

(* Which of the earlier blocks are closed does not change when an event is
   added, and the new event is closed unless it opens a block. *)
LEMMA ShutGrows ==
    ASSUME NEW l, NEW o, NEW m, Entries(l), Blocks(l, o), Grown(l, o, m),
           NEW p, p = o \/ p = Append(o, Len(m))
    PROVE  /\ \A k \in DOMAIN l : Shut(p, k) <=> Shut(o, k)
           /\ Shut(p, Len(m)) <=> p = o
<1> DEFINE h == Len(m)
           n == Len(o)
<1>1. /\ \A k \in DOMAIN l : k # h
      /\ o \in Seq(DOMAIN l) /\ h \in Nat /\ n \in Nat /\ DOMAIN o = 1..n
      /\ \A x \in DOMAIN o : o[x] \in DOMAIN l
  BY GrownIs DEF Blocks
<1> HIDE DEF h
<1>2. CASE p = o
  BY <1>1, <1>2 DEF Shut, h
<1>3. CASE p = Append(o, h)
  <2>1. /\ DOMAIN p = 1..(n + 1) /\ p[n + 1] = h /\ \A x \in 1..n : p[x] = o[x]
        /\ p # o
    <3>1. DOMAIN l \subseteq Nat
      BY GrownIs
    <3>2. o \in Seq(Nat)
      BY <1>1, <3>1, SeqDef
    <3>3. \A u \in Seq(Nat), k \in Nat :
             /\ DOMAIN Append(u, k) = 1..(Len(u) + 1) /\ Append(u, k)[Len(u) + 1] = k
             /\ \A x \in 1..Len(u) : Append(u, k)[x] = u[x]
             /\ Append(u, k) # u
      <4> TAKE u \in Seq(Nat), k \in Nat
      <4>1. Len(Append(u, k)) # Len(u)
        OBVIOUS
      <4> QED  BY <4>1
    <3> QED  BY <1>1, <1>3, <3>2, <3>3, ZenonT(60)
  <2> HIDE DEF n
  <2>2. \A x \in 1..(n + 1) : x = n + 1 \/ x \in 1..n
    BY <1>1
  <2>3. n + 1 \in 1..(n + 1) /\ \A x \in 1..n : x \in 1..(n + 1)
    BY <1>1
  <2>4. \A k \in DOMAIN l : Shut(p, k) <=> Shut(o, k)
    BY <1>1, <2>1, <2>2, <2>3 DEF Shut
  <2>5. ~Shut(p, h)
    BY <2>1, <2>3 DEF Shut
  <2> QED  BY <2>1, <2>4, <2>5 DEF h
<1> QED  BY <1>2, <1>3 DEF h

(* The rulesets to compile stay the same when an event is added. *)
LEMMA TopSetsGrow ==
    ASSUME NEW l, NEW o, NEW m, Entries(l), Blocks(l, o), Grown(l, o, m),
           NEW p, p = o \/ p = Append(o, Len(m)), p = o => m[Len(m)].event # "ruleset"
    PROVE  /\ TopSets(m, p) = TopSets(l, o)
           /\ Listing(Len(m), TopSets(m, p)) = Listing(Len(l), TopSets(l, o))
<1>1. /\ \A k \in DOMAIN m : k = Len(m) \/ k \in DOMAIN l
      /\ \A k \in DOMAIN l : k \in DOMAIN m /\ m[k] = l[k] /\ k # Len(m)
      /\ Len(m) = Len(l) + 1 /\ DOMAIN l = 1..Len(l) /\ Len(l) \in Nat
  BY GrownIs DEF Grown
<1>2. /\ \A k \in DOMAIN l : Shut(p, k) <=> Shut(o, k)
      /\ Shut(p, Len(m)) <=> p = o
  BY ShutGrows
<1>3. Len(m) \notin TopSets(m, p) /\ Len(m) \notin TopSets(l, o)
  BY <1>1, <1>2 DEF TopSets
<1>4. ASSUME NEW k \in DOMAIN l
      PROVE  k \in TopSets(m, p) <=> k \in TopSets(l, o)
  <2>1. CASE Shut(o, k)
    <3>1. BodyOf(m, k) = BodyOf(l, k)
      BY <2>1, HeldStays
    <3> QED  BY <1>1, <1>2, <3>1 DEF TopSets
  <2>2. CASE ~Shut(o, k)
    BY <1>2, <2>2 DEF TopSets
  <2> QED  BY <2>1, <2>2
<1>5. TopSets(m, p) = TopSets(l, o)
  <2>1. \A k \in TopSets(m, p) : k \in DOMAIN m
    BY DEF TopSets
  <2>2. \A k \in TopSets(l, o) : k \in DOMAIN l
    BY DEF TopSets
  <2>3. \A k : k \in TopSets(m, p) <=> k \in TopSets(l, o)
    BY <1>1, <1>3, <1>4, <2>1, <2>2
  <2> QED  BY <2>3
<1>6. Listing(Len(l) + 1, TopSets(l, o)) = Listing(Len(l), TopSets(l, o))
  BY <1>1, <1>3, ListingStep
<1> QED  BY <1>1, <1>5, <1>6

(* What is to be preserved grows by the at-rules without a block alone. *)
LEMMA PreservesGrow ==
    ASSUME NEW l, NEW o, NEW m, Entries(l), Blocks(l, o), Grown(l, o, m),
           NEW p, p = o \/ p = Append(o, Len(m)), p = o => m[Len(m)].event \in {"bodyless", "decl"}
    PROVE  Listing(Len(m), Preserves(m, p)) =
              IF p = o /\ o = <<>> /\ m[Len(m)].event = "bodyless" /\ m[Len(m)].head \in Preserved
              THEN Append(Listing(Len(l), Preserves(l, o)), Len(m))
              ELSE Listing(Len(l), Preserves(l, o))
<1>1. /\ \A k \in DOMAIN l : k \in DOMAIN m /\ m[k] = l[k] /\ k # Len(m)
      /\ Len(m) = Len(l) + 1 /\ DOMAIN l = 1..Len(l) /\ Len(l) \in Nat /\ Len(m) \in DOMAIN m
      /\ m[Len(m)].path = o
  BY GrownIs DEF Grown
<1>2. /\ \A k \in DOMAIN l : Shut(p, k) <=> Shut(o, k)
      /\ Shut(p, Len(m)) <=> p = o
  BY ShutGrows
<1>3. TopSets(m, p) = TopSets(l, o)
  BY TopSetsGrow
<1>4. \A k \in 1..Len(l) : k \in Preserves(m, p) <=> k \in Preserves(l, o)
  BY <1>1, <1>2, <1>3 DEF Preserves, ArmsOf
<1>5. Len(m) \in Preserves(m, p) <=>
         p = o /\ o = <<>> /\ m[Len(m)].event = "bodyless" /\ m[Len(m)].head \in Preserved
  <2>1. Len(m) \notin TopSets(l, o)
    BY <1>1 DEF TopSets
  <2>2. p = o => m[Len(m)].event # "at-rule"
    OBVIOUS
  <2> QED  BY <1>1, <1>2, <1>3, <2>1, <2>2 DEF Preserves
<1>6. Listing(Len(l), Preserves(m, p)) = Listing(Len(l), Preserves(l, o))
  BY <1>1, <1>4, ListingSame
<1>7. Listing(Len(l) + 1, Preserves(m, p)) =
         IF Len(l) + 1 \in Preserves(m, p) THEN Append(Listing(Len(l), Preserves(m, p)), Len(l) + 1)
         ELSE Listing(Len(l), Preserves(m, p))
  BY <1>1, ListingStep
<1> QED  BY <1>1, <1>5, <1>6, <1>7

(* At the end of a block, that block is closed and nothing else changes. *)
LEMMA ShutShrinks ==
    ASSUME NEW l, NEW o, Entries(l), Blocks(l, o), o # <<>>
    PROVE  /\ \A k : Shut(Front(o), k) <=> Shut(o, k) \/ k = Last(o)
           /\ Last(o) = o[Len(o)] /\ Last(o) \in DOMAIN l /\ ~Shut(o, Last(o))
           /\ l[Last(o)].path = <<>> <=> Len(o) = 1
           /\ \A k \in DOMAIN l : l[k].path = <<>> /\ Shut(o, k) => k < o[1]
<1> DEFINE n == Len(o)
           p == Front(o)
<1>1. /\ o \in Seq(DOMAIN l) /\ n \in Nat \ {0} /\ DOMAIN o = 1..n /\ n \in DOMAIN o
      /\ Last(o) = o[n] /\ Last(o) \in DOMAIN l
      /\ DOMAIN p = 1..(n - 1) /\ \A x \in 1..(n - 1) : p[x] = o[x]
  <2>1. o \in Seq(DOMAIN l)
    BY DEF Blocks
  <2> QED  BY <2>1, FrontIs
<1>2. n = Len(o)
  OBVIOUS
<1> HIDE DEF n, p
<1>3. \A x \in 1..n : x = n \/ (x \in 1..(n - 1) /\ x < n)
  BY <1>1
<1>4. \A x \in 1..(n - 1) : x \in 1..n /\ x < n /\ o[x] # o[n]
  <2> TAKE x \in 1..(n - 1)
  <2>1. x \in 1..n /\ x < n
    BY <1>1
  <2>2. o[x] < o[n] /\ o[x] \in DOMAIN l /\ o[n] \in DOMAIN l
    BY <1>1, <2>1, ElementOfSeq DEF Blocks
  <2>3. DOMAIN l = 1..Len(l) /\ Len(l) \in Nat
    BY DEF Entries
  <2> QED  BY <2>1, <2>2, <2>3
<1>5. \A k : Shut(p, k) <=> Shut(o, k) \/ k = Last(o)
  BY <1>1, <1>3, <1>4 DEF Shut
<1>6. ~Shut(o, Last(o))
  BY <1>1 DEF Shut
<1>7. l[Last(o)].path = <<>> <=> n = 1
  <2>1. Len(l[o[n]].path) = n - 1
    BY <1>1 DEF Blocks
  <2>2. l[o[n]].path \in Seq(Nat)
    <3>1. l[o[n]] \in Entry
      BY <1>1, ElementOfSeq DEF Entries
    <3> QED  BY <3>1 DEF Entry
  <2>3. l[o[n]].path = <<>> <=> Len(l[o[n]].path) = 0
    BY <2>2
  <2> QED  BY <1>1, <2>1, <2>3
<1>8. ASSUME NEW k \in DOMAIN l, l[k].path = <<>>, Shut(o, k)
      PROVE  k < o[1]
  <2>1. 1 \in DOMAIN o
    BY <1>1
  <2>2. o[1] \in DOMAIN l /\ o[1] # k
    BY <1>1, <1>8, <2>1, ElementOfSeq DEF Shut
  <2>3. ~(k > o[1])
    BY <1>8 DEF Blocks
  <2>4. DOMAIN l = 1..Len(l) /\ Len(l) \in Nat
    BY DEF Entries
  <2> QED  BY <2>2, <2>3, <2>4
<1> QED  BY <1>1, <1>2, <1>5, <1>6, <1>7, <1>8 DEF p

(* Which rulesets to compile when a block ends: one more if it is a ruleset
   outside every at-rule that says anything. *)
LEMMA TopSetsShrink ==
    ASSUME NEW l, NEW o, Entries(l), Blocks(l, o), o # <<>>
    PROVE  Listing(Len(l), TopSets(l, Front(o))) =
              IF Len(o) = 1 /\ l[Last(o)].event = "ruleset" /\ BodyOf(l, Last(o)) # <<>>
              THEN Append(Listing(Len(l), TopSets(l, o)), Last(o))
              ELSE Listing(Len(l), TopSets(l, o))
<1> DEFINE b == Last(o)
           S == TopSets(l, o)
           T == TopSets(l, Front(o))
<1>1. /\ \A k : Shut(Front(o), k) <=> Shut(o, k) \/ k = b
      /\ b = o[Len(o)] /\ b \in DOMAIN l /\ ~Shut(o, b)
      /\ l[b].path = <<>> <=> Len(o) = 1
      /\ \A k \in DOMAIN l : l[k].path = <<>> /\ Shut(o, k) => k < o[1]
  BY ShutShrinks
<1>2. DOMAIN l = 1..Len(l) /\ Len(l) \in Nat
  BY DEF Entries
<1> HIDE DEF b
<1>3. b \in T <=> Len(o) = 1 /\ l[b].event = "ruleset" /\ BodyOf(l, b) # <<>>
  BY <1>1 DEF TopSets
<1>4. \A k \in 1..Len(l) : k # b => (k \in T <=> k \in S)
  BY <1>1, <1>2 DEF TopSets
<1>5. b \notin S
  BY <1>1 DEF TopSets
<1>6. CASE b \in T
  <2>1. b = o[1]
    BY <1>1, <1>3, <1>6
  <2>2. \A k \in b..Len(l) : k \notin S
    <3> SUFFICES ASSUME NEW k \in b..Len(l), k \in S PROVE FALSE
      OBVIOUS
    <3>1. k < o[1]
      BY <1>1 DEF TopSets
    <3> QED  BY <1>1, <1>2, <2>1, <3>1
  <2>3. \A k \in 1..Len(l) : k \in T <=> k \in S \/ k = b
    BY <1>4, <1>6
  <2>4. b \in 1..Len(l)
    BY <1>1, <1>2
  <2> HIDE DEF S, T
  <2>5. Listing(Len(l), T) = Append(Listing(Len(l), S), b)
    BY <1>2, <2>2, <2>3, <2>4, ListingAdds
  <2> QED  BY <1>3, <1>6, <2>5 DEF S, T, b
<1>7. CASE b \notin T
  <2>1. \A k \in 1..Len(l) : k \in T <=> k \in S
    BY <1>4, <1>5, <1>7
  <2> HIDE DEF S, T
  <2>2. Listing(Len(l), T) = Listing(Len(l), S)
    BY <1>2, <2>1, ListingSame
  <2> QED  BY <1>3, <1>7, <2>2 DEF S, T, b
<1> QED  BY <1>6, <1>7

(* What is to be preserved when a block ends: that block too, if it stands
   outside every other one and is an at-rule of a preserved kind, or a ruleset
   with an arm to ignore. *)
LEMMA PreservesShrink ==
    ASSUME NEW l, NEW o, Entries(l), Blocks(l, o), o # <<>>
    PROVE  Listing(Len(l), Preserves(l, Front(o))) =
              IF /\ Len(o) = 1
                 /\ \/ l[Last(o)].event = "at-rule" /\ l[Last(o)].head \in Preserved
                    \/ /\ l[Last(o)].event = "ruleset" /\ BodyOf(l, Last(o)) # <<>>
                       /\ anyIgnored(ArmsOf(l, Last(o))) /\ PreservePseudos
              THEN Append(Listing(Len(l), Preserves(l, o)), Last(o))
              ELSE Listing(Len(l), Preserves(l, o))
<1> DEFINE b == Last(o)
           S == Preserves(l, o)
           T == Preserves(l, Front(o))
           Adds == /\ Len(o) = 1
                   /\ \/ l[b].event = "at-rule" /\ l[b].head \in Preserved
                      \/ /\ l[b].event = "ruleset" /\ BodyOf(l, b) # <<>>
                         /\ anyIgnored(ArmsOf(l, b)) /\ PreservePseudos
<1>1. /\ \A k : Shut(Front(o), k) <=> Shut(o, k) \/ k = b
      /\ b = o[Len(o)] /\ b \in DOMAIN l /\ ~Shut(o, b)
      /\ l[b].path = <<>> <=> Len(o) = 1
      /\ \A k \in DOMAIN l : l[k].path = <<>> /\ Shut(o, k) => k < o[1]
  BY ShutShrinks
<1>2. /\ DOMAIN l = 1..Len(l) /\ Len(l) \in Nat
      /\ l[b].event \in {"at-rule", "ruleset"}
  <2>1. Len(o) \in DOMAIN o
    <3>1. o \in Seq(DOMAIN l)
      BY DEF Blocks
    <3> QED  BY <3>1, FrontIs
  <2> QED  BY <1>1, <2>1 DEF Entries, Blocks
<1> HIDE DEF b
<1>3. b \in T <=> Adds
  BY <1>1, <1>2 DEF Preserves, TopSets
<1>4. \A k \in 1..Len(l) : k # b => (k \in T <=> k \in S)
  BY <1>1, <1>2 DEF Preserves, TopSets
<1>5. b \notin S /\ \A k \in S : k \in DOMAIN l /\ l[k].path = <<>> /\ Shut(o, k)
  BY <1>1 DEF Preserves, TopSets
<1> HIDE DEF S, T
<1>6. CASE b \in T
  <2>1. b = o[1]
    BY <1>1, <1>3, <1>6
  <2>2. \A k \in b..Len(l) : k \notin S
    <3> SUFFICES ASSUME NEW k \in b..Len(l), k \in S PROVE FALSE
      OBVIOUS
    <3>1. k < o[1]
      BY <1>1, <1>5
    <3> QED  BY <1>1, <1>2, <2>1, <3>1
  <2>3. \A k \in 1..Len(l) : k \in T <=> k \in S \/ k = b
    BY <1>4, <1>6
  <2>4. b \in 1..Len(l)
    BY <1>1, <1>2
  <2>5. Listing(Len(l), T) = Append(Listing(Len(l), S), b)
    BY <1>2, <2>2, <2>3, <2>4, ListingAdds
  <2> QED  BY <1>3, <1>6, <2>5 DEF S, T, b
<1>7. CASE b \notin T
  <2>1. \A k \in 1..Len(l) : k \in T <=> k \in S
    BY <1>4, <1>5, <1>7
  <2>2. Listing(Len(l), T) = Listing(Len(l), S)
    BY <1>2, <2>1, ListingSame
  <2> QED  BY <1>3, <1>7, <2>2 DEF S, T, b
<1> QED  BY <1>6, <1>7

-----------------------------------------------------------------------------
(* What the open blocks hold *)

(* A new event is written directly in the innermost block. *)
LEMMA DirectlyGrows ==
    ASSUME NEW l, NEW o, NEW m, Entries(l), Blocks(l, o), Grown(l, o, m),
           NEW p, p = o \/ p = Append(o, Len(m)), NEW x \in 1..Len(o)
    PROVE  Pairs(m, Directly(m, p, x)) =
              IF p = o /\ x = Len(o) /\ Notable(m, Len(m))
              THEN Pairs(l, Directly(l, o, x)) \union {<<o[x], Len(m)>>}
              ELSE Pairs(l, Directly(l, o, x))
<1> DEFINE h == Len(m)
           n == Len(o)
           D == Directly(l, o, x)
           E == Directly(m, p, x)
<1>1. /\ DOMAIN l = 1..Len(l) /\ Len(l) \in Nat /\ h \in DOMAIN m
      /\ \A k \in DOMAIN m : k = h \/ k \in DOMAIN l
      /\ \A k \in DOMAIN l : k \in DOMAIN m /\ k \in Nat /\ k < h /\ m[k] = l[k]
      /\ m[h].path = o
      /\ n \in Nat /\ DOMAIN o = 1..n /\ o \in Seq(DOMAIN l) /\ h \in Nat
      /\ \A y \in 1..n : o[y] \in DOMAIN l
  BY GrownIs DEF Grown, Blocks
<1>2. /\ \A k \in DOMAIN l : \A b : Inside(m, b, k) <=> Inside(l, b, k)
      /\ \A b : Inside(m, b, h) <=> \E y \in DOMAIN o : o[y] = b
  BY InsideGrown
<1>3. n = Len(o)
  OBVIOUS
<1> HIDE DEF h, n
<1>4. /\ p[x] = o[x] /\ (x < n => p[x + 1] = o[x + 1] /\ x < Len(p))
      /\ p # o => Len(p) = n + 1 /\ p[n + 1] = h
      /\ p # o => p = Append(o, h)
  <2>1. CASE p = o
    BY <1>1, <2>1, <1>3
  <2>2. CASE p # o
    <3>1. p = Append(o, h)
      BY <2>2 DEF h
    <3>2. o \in Seq(Nat)
      <4>1. DOMAIN l \subseteq Nat
        BY <1>1
      <4> QED  BY <1>1, <4>1, SeqDef
    <3>3. /\ Len(p) = n + 1 /\ p[n + 1] = h /\ \A y \in 1..n : p[y] = o[y]
      <4>1. \A u \in Seq(Nat), k \in Nat :
               /\ Len(Append(u, k)) = Len(u) + 1 /\ Append(u, k)[Len(u) + 1] = k
               /\ \A y \in 1..Len(u) : Append(u, k)[y] = u[y]
        OBVIOUS
      <4> QED  BY <1>1, <1>3, <3>1, <3>2, <4>1, ZenonT(60)
    <3>4. x \in 1..n /\ (x < n => x + 1 \in 1..n) /\ x < n + 1
      BY <1>1, <1>3
    <3> QED  BY <2>2, <3>1, <3>3, <3>4
  <2> QED  BY <2>1, <2>2
<1>5. x \in 1..n /\ x \in DOMAIN o /\ (x < n \/ x = n) /\ (x < n => x + 1 \in DOMAIN o)
  <2>1. x \in 1..n
    BY <1>3
  <2>2. x \in 1..n /\ (x < n \/ x = n) /\ (x < n => x + 1 \in 1..n)
    BY <1>1, <2>1
  <2> QED  BY <1>1, <2>2
<1>6. ASSUME NEW k \in DOMAIN l
      PROVE  k \in E <=> k \in D
  <2>1. k \in Below(m, p[x]) <=> k \in Below(l, o[x])
    BY <1>1, <1>2, <1>4 DEF Below, Notable
  <2>2. CASE x < n
    <3>1. (k # p[x + 1] /\ ~Inside(m, p[x + 1], k)) <=> (k # o[x + 1] /\ ~Inside(l, o[x + 1], k))
      BY <1>2, <1>4, <2>2
    <3> QED  BY <1>3, <1>4, <2>1, <2>2, <3>1 DEF Directly
  <2>3. CASE x = n /\ p = o
    <3>1. ~(x < Len(p)) /\ ~(x < Len(o))
      BY <1>1, <1>3, <2>3
    <3> QED  BY <2>1, <3>1 DEF Directly
  <2>4. CASE x = n /\ p # o
    <3>1. p[x + 1] = h /\ k # h /\ ~(x < Len(o))
      BY <1>1, <1>3, <1>4, <2>4
    <3>2. ~Inside(m, h, k)
      <4>1. ~Inside(l, h, k)
        <5> SUFFICES ASSUME NEW y \in DOMAIN l[k].path, l[k].path[y] = h PROVE FALSE
          BY DEF Inside
        <5>1. l[k].path[y] \in 1..(k - 1)
          BY DEF Entries
        <5> QED  BY <1>1, <5>1
      <4> QED  BY <1>2, <4>1
    <3> QED  BY <2>1, <3>1, <3>2 DEF Directly
  <2> QED  BY <1>5, <2>2, <2>3, <2>4
<1>7. h \in E <=> p = o /\ x = n /\ Notable(m, h)
  <2>1. Inside(m, p[x], h)
    BY <1>2, <1>4, <1>5
  <2>2. CASE x < n
    <3>1. Inside(m, p[x + 1], h) /\ x < Len(p) /\ x # n
      BY <1>1, <1>2, <1>4, <1>5, <2>2, SMTT(30)
    <3> QED  BY <3>1 DEF Directly
  <2>3. CASE x = n /\ p = o
    <3>1. ~(x < Len(p))
      BY <1>1, <1>3, <2>3
    <3> QED  BY <1>1, <2>1, <2>3, <3>1 DEF Directly, Below
  <2>4. CASE x = n /\ p # o
    <3>1. p[x + 1] = h /\ x < Len(p)
      BY <1>1, <1>4, <2>4
    <3> QED  BY <2>4, <3>1 DEF Directly
  <2> QED  BY <1>5, <2>2, <2>3, <2>4
<1>8. (\A k \in E : k \in DOMAIN m) /\ (\A k \in D : k \in DOMAIN l)
  BY DEF Directly, Below
<1> HIDE DEF D, E
<1>9. \A k \in D : k \in E /\ m[k] = l[k]
  BY <1>1, <1>6, <1>8
<1>10. \A k \in E : k \in D \/ k = h
  BY <1>1, <1>6, <1>8
<1>11. CASE p = o /\ x = n /\ Notable(m, h)
  <2>1. E = D \union {h}
    BY <1>7, <1>9, <1>10, <1>11
  <2>2. <<Last(m[h].path), h>> = <<o[x], h>>
    <3>1. o # <<>>
      BY <1>5
    <3> QED  BY <1>1, <1>3, <1>11, <3>1 DEF Last
  <2>3. Pairs(m, E) = Pairs(l, D) \union {<<o[x], h>>}
    BY <1>9, <2>1, <2>2 DEF Pairs
  <2> QED  BY <1>3, <1>11, <2>3 DEF D, E, h
<1>12. CASE ~(p = o /\ x = n /\ Notable(m, h))
  <2>1. E = D
    BY <1>7, <1>9, <1>10, <1>12
  <2>2. Pairs(m, E) = Pairs(l, D)
    BY <1>9, <2>1 DEF Pairs
  <2> QED  BY <1>3, <1>12, <2>2 DEF D, E, h
<1> QED  BY <1>11, <1>12

(* A block that ends passes on what it holds to the one around it. *)
LEMMA DirectlyShrinks ==
    ASSUME NEW l, NEW o, Entries(l), Blocks(l, o), Len(o) > 1, NEW x \in 1..(Len(o) - 1)
    PROVE  Pairs(l, Directly(l, Front(o), x)) =
              IF x = Len(o) - 1
              THEN Pairs(l, Directly(l, o, x)) \union {<<o[x], o[Len(o)]>>}
                   \union Pairs(l, Directly(l, o, Len(o)))
              ELSE Pairs(l, Directly(l, o, x))
<1> DEFINE n == Len(o)
           q == Front(o)
           b == o[n]
<1>1. o \in Seq(DOMAIN l) /\ o # <<>>
  BY DEF Blocks
<1>2. /\ n \in Nat /\ DOMAIN o = 1..n /\ Len(q) = n - 1 /\ \A y \in 1..(n - 1) : q[y] = o[y]
      /\ n \in DOMAIN o /\ b \in DOMAIN l /\ \A y \in 1..n : o[y] \in DOMAIN l
  BY <1>1, FrontIs, ElementOfSeq, SMTT(30)
<1>3. n = Len(o)
  OBVIOUS
<1>4. l[b].path \in Seq(Nat) /\ Len(l[b].path) = n - 1 /\ \A y \in 1..(n - 1) : l[b].path[y] = o[y]
  <2>1. l[b] \in Entry
    BY <1>2, ElementOfSeq DEF Entries
  <2> QED  BY <1>2, <2>1 DEF Blocks, Entry
<1>5. l[b].event \in {"at-rule", "ruleset"}
  BY <1>2 DEF Blocks
<1> HIDE DEF n, q, b
<1>6. x \in 1..(n - 1) /\ n > 1 /\ x \in 1..n /\ x < Len(o) /\ q[x] = o[x]
  BY <1>2, <1>3
<1>7. CASE x = n - 1
  <2> DEFINE D == Directly(l, o, x)
             F == Directly(l, o, n)
             E == Directly(l, q, x)
  <2>1. x + 1 = n /\ o[x + 1] = b /\ ~(x < Len(q)) /\ ~(n < Len(o))
    BY <1>2, <1>3, <1>7 DEF b
  <2>2. E = Below(l, o[x])
    BY <1>6, <2>1 DEF Directly
  <2>3. F = Below(l, b)
    BY <2>1 DEF Directly, b
  <2>4. D = {k \in Below(l, o[x]) : k # b /\ ~Inside(l, b, k)}
    BY <1>6, <2>1 DEF Directly
  <2>5. Inside(l, o[x], b)
    <3>1. x \in DOMAIN l[b].path
      BY <1>4, <1>6
    <3> QED  BY <1>4, <1>6, <3>1 DEF Inside
  <2>6. b \in E
    BY <1>2, <1>5, <2>2, <2>5 DEF Below, Notable
  <2>7. \A k \in F : k \in E
    BY <2>2, <2>3, <2>5 DEF Below, Entries
  <2>8. E = (D \union {b}) \union F
    <3>1. \A k \in E : k \in D \/ k = b \/ k \in F
      BY <2>2, <2>3, <2>4 DEF Below
    <3>2. \A k \in D : k \in E
      BY <2>2, <2>4
    <3> HIDE DEF D, E, F
    <3> QED  BY <2>6, <2>7, <3>1, <3>2
  <2>9. <<Last(l[b].path), b>> = <<o[x], b>>
    BY <1>4, <1>6, <1>7 DEF Last
  <2> HIDE DEF D, E, F
  <2>10. Pairs(l, E) = Pairs(l, D) \union {<<o[x], b>>} \union Pairs(l, F)
    BY <2>8, <2>9 DEF Pairs
  <2> QED  BY <1>3, <1>7, <2>10 DEF D, E, F, b, q
<1>8. CASE x # n - 1
  <2>1. x < Len(q) /\ x + 1 \in 1..(n - 1)
    BY <1>2, <1>6, <1>8
  <2>2. Directly(l, q, x) = Directly(l, o, x)
    BY <1>2, <1>6, <2>1 DEF Directly
  <2> QED  BY <1>3, <1>8, <2>2 DEF q
<1> QED  BY <1>7, <1>8

-----------------------------------------------------------------------------
(* Rules, with their declarations by name *)

(* The rules of one arm. *)
OfArm(b, arms, ds, a) ==
    IF arms[a].ignored THEN <<>>
    ELSE [v \in 1..arms[a].variants |-> [sel |-> b, arm |-> a, decls |-> ds]]

(* The rules of the first n arms. *)
OfArms(b, arms, ds, n) == FlattenSeq([a \in 1..n |-> OfArm(b, arms, ds, a)])

(* Rules whose declarations are all the same. *)
RuleWith(ds) == [sel : Nat, arm : Nat, decls : {ds}]

(* The rules of one arm: one per variant, all with the ruleset's declarations. *)
LEMMA OfArmIs ==
    ASSUME NEW b \in Nat, NEW arms \in Seq(Arm), NEW ds, NEW a \in DOMAIN arms
    PROVE  OfArm(b, arms, ds, a) \in Seq(RuleWith(ds))
<1>1. arms[a] \in Arm /\ a \in Nat
  BY ElementOfSeq
<1>2. arms[a].variants \in Nat
  BY <1>1 DEF Arm
<1> DEFINE R == RuleWith(ds)
           w == [v \in 1..arms[a].variants |-> [sel |-> b, arm |-> a, decls |-> ds]]
<1>3. w \in Seq(R)
  <2>1. [sel |-> b, arm |-> a, decls |-> ds] \in R
    BY <1>1 DEF RuleWith
  <2>2. w \in [1..arms[a].variants -> R]
    BY <2>1
  <2> HIDE DEF w, R
  <2> QED  BY <1>2, <2>2, SeqDef
<1>4. <<>> \in Seq(R)
  OBVIOUS
<1> HIDE DEF R
<1> QED  BY <1>3, <1>4 DEF OfArm, R

(* The rules of one arm more are appended. *)
LEMMA OfArmsStep ==
    ASSUME NEW b \in Nat, NEW arms \in Seq(Arm), NEW ds, NEW n \in Nat, n + 1 <= Len(arms)
    PROVE  /\ OfArms(b, arms, ds, n) \in Seq(RuleWith(ds))
           /\ OfArms(b, arms, ds, n + 1) = OfArms(b, arms, ds, n) \o OfArm(b, arms, ds, n + 1)
<1> DEFINE R == RuleWith(ds)
           u == [a \in 1..n |-> OfArm(b, arms, ds, a)]
           v == [a \in 1..(n + 1) |-> OfArm(b, arms, ds, a)]
<1>1. \A a \in 1..(n + 1) : OfArm(b, arms, ds, a) \in Seq(R)
  <2>1. \A a \in 1..(n + 1) : a \in DOMAIN arms
    OBVIOUS
  <2> QED  BY <2>1, OfArmIs
<1>2. u \in Seq(Seq(R)) /\ Len(u) = n
  <2>1. u \in [1..n -> Seq(R)]
    <3>1. \A a \in 1..n : a \in 1..(n + 1)
      OBVIOUS
    <3> QED  BY <1>1, <3>1
  <2> HIDE DEF u, R
  <2> QED  BY <2>1, SeqDef
<1>3. v \in Seq(Seq(R)) /\ Len(v) = n + 1
  <2>1. v \in [1..(n + 1) -> Seq(R)] /\ n + 1 \in Nat
    BY <1>1
  <2> HIDE DEF v, R
  <2> QED  BY <2>1, SeqDef
<1>4. (\A a \in DOMAIN u : v[a] = u[a]) /\ v[n + 1] = OfArm(b, arms, ds, n + 1)
  OBVIOUS
<1>5. OfArms(b, arms, ds, n) = FlattenSeq(u) /\ OfArms(b, arms, ds, n + 1) = FlattenSeq(v)
  BY DEF OfArms
<1> HIDE DEF u, v, R
<1>6. FlattenSeq(u) \in Seq(R)
  BY <1>2, FlattenIs
<1>7. FlattenSeq(v) = FlattenSeq(u) \o v[n + 1]
  BY <1>2, <1>3, <1>4, FlattenAppend
<1> QED  BY <1>4, <1>5, <1>6, <1>7 DEF R

(* No arms, no rules. *)
LEMMA OfNoArms == \A b, arms, ds : OfArms(b, arms, ds, 0) = <<>>
<1> TAKE b, arms, ds
<1>1. [a \in 1..0 |-> OfArm(b, arms, ds, a)] = <<>>
  OBVIOUS
<1>2. FlattenSeq(<<>>) = <<>>
  BY DEF FlattenSeq
<1> QED  BY <1>1, <1>2 DEF OfArms

(* Rules with their declarations by name, and the names alone. *)
LEMMA IdsIs ==
    ASSUME NEW ds \in Seq(Numbered)
    PROVE  Ids(ds) \in Seq(Nat) /\ Len(Ids(ds)) = Len(ds) /\ \A x \in DOMAIN ds : Ids(ds)[x] = ds[x].id
<1>1. Len(ds) \in Nat /\ DOMAIN ds = 1..Len(ds) /\ \A x \in DOMAIN ds : ds[x].id \in Nat
  <2>1. \A x \in DOMAIN ds : ds[x] \in Numbered
    BY ElementOfSeq
  <2> QED  BY <2>1 DEF Numbered
<1> DEFINE u == Ids(ds)
<1>2. u \in [1..Len(ds) -> Nat] /\ \A x \in DOMAIN ds : u[x] = ds[x].id
  BY <1>1 DEF Ids
<1> HIDE DEF u
<1>3. u \in Seq(Nat) /\ Len(u) = Len(ds)
  BY <1>1, <1>2, SeqDef
<1> QED  BY <1>2, <1>3 DEF u

Listed == [sel : Nat, arm : Nat, decls : Seq(Nat)]

(* Rules shown by the names of their declarations, one for one. *)
LEMMA ShownIs ==
    ASSUME NEW rs \in Seq(Compiled)
    PROVE  /\ Shown(rs) \in Seq(Listed) /\ Len(Shown(rs)) = Len(rs)
           /\ \A x \in DOMAIN rs : Shown(rs)[x] = [sel |-> rs[x].sel, arm |-> rs[x].arm, decls |-> Ids(rs[x].decls)]
<1> DEFINE u == Shown(rs)
           row(x) == [sel |-> rs[x].sel, arm |-> rs[x].arm, decls |-> Ids(rs[x].decls)]
<1>1. Len(rs) \in Nat /\ DOMAIN rs = 1..Len(rs) /\ DOMAIN u = 1..Len(rs)
  BY DEF Shown
<1>2. ASSUME NEW x \in DOMAIN rs
      PROVE  u[x] = row(x) /\ row(x) \in Listed
  <2>1. rs[x] \in Compiled
    BY ElementOfSeq
  <2>2. Ids(rs[x].decls) \in Seq(Nat)
    <3>1. rs[x].decls \in Seq(Numbered)
      BY <2>1 DEF Compiled
    <3> QED  BY <3>1, IdsIs
  <2>3. u[x] = [rs[x] EXCEPT !.decls = Ids(rs[x].decls)]
    BY DEF Shown
  <2> HIDE DEF u
  <2>4. u[x] = row(x)
    BY <2>1, <2>3 DEF Compiled
  <2>5. row(x) \in Listed
    BY <2>1, <2>2 DEF Compiled, Listed
  <2> QED  BY <2>4, <2>5
<1>3. u = [x \in 1..Len(rs) |-> u[x]]
  BY <1>1 DEF Shown
<1> HIDE DEF u, row
<1>4. u \in [1..Len(rs) -> Listed]
  BY <1>1, <1>2, <1>3
<1>5. u \in Seq(Listed) /\ Len(u) = Len(rs)
  BY <1>1, <1>4, SeqDef
<1> QED  BY <1>2, <1>5 DEF u, row

(* Showing two lists of rules in a row is showing each. *)
LEMMA ShownConcat ==
    ASSUME NEW u \in Seq(Compiled), NEW v \in Seq(Compiled)
    PROVE  Shown(u \o v) = Shown(u) \o Shown(v)
<1> DEFINE q == u \o v
           s == Shown(q)
           t == Shown(u) \o Shown(v)
           su == Shown(u)
           sv == Shown(v)
           m == Len(u)
           n == Len(v)
<1>1. /\ q \in Seq(Compiled) /\ m \in Nat /\ n \in Nat /\ Len(q) = m + n /\ DOMAIN q = 1..(m + n)
      /\ DOMAIN u = 1..m /\ DOMAIN v = 1..n
      /\ \A x \in 1..(m + n) : q[x] = IF x <= m THEN u[x] ELSE v[x - m]
  OBVIOUS
<1> HIDE DEF q
<1>2. /\ Shown(u) \in Seq(Listed) /\ Len(Shown(u)) = m
      /\ Shown(v) \in Seq(Listed) /\ Len(Shown(v)) = n
      /\ s \in Seq(Listed) /\ Len(s) = m + n
  BY <1>1, ShownIs
<1>3. /\ t \in Seq(Listed) /\ Len(t) = m + n
      /\ \A x \in 1..(m + n) : t[x] = IF x <= m THEN su[x] ELSE sv[x - m]
  <2> HIDE DEF su, sv
  <2>1. t = su \o sv
    BY DEF su, sv
  <2>2. su \in Seq(Listed) /\ sv \in Seq(Listed) /\ Len(su) = m /\ Len(sv) = n
    BY <1>2 DEF su, sv
  <2> HIDE DEF t, m, n
  <2>3. /\ su \o sv \in Seq(Listed) /\ Len(su \o sv) = Len(su) + Len(sv)
        /\ \A x \in 1..Len(su) + Len(sv) :
              (su \o sv)[x] = IF x <= Len(su) THEN su[x] ELSE sv[x - Len(su)]
    BY <2>2, ConcatProperties
  <2> QED  BY <2>1, <2>2, <2>3
<1>4. \A x \in 1..(m + n) : s[x] = t[x]
  <2> TAKE x \in 1..(m + n)
  <2>1. s[x] = [sel |-> q[x].sel, arm |-> q[x].arm, decls |-> Ids(q[x].decls)]
    BY <1>1, ShownIs
  <2>2. CASE x <= m
    <3>1. x \in DOMAIN u /\ q[x] = u[x] /\ t[x] = Shown(u)[x]
      BY <1>1, <1>3, <2>2
    <3>2. Shown(u)[x] = [sel |-> u[x].sel, arm |-> u[x].arm, decls |-> Ids(u[x].decls)]
      BY <3>1, ShownIs
    <3> QED  BY <2>1, <3>1, <3>2
  <2>3. CASE ~(x <= m)
    <3>1. x - m \in DOMAIN v /\ q[x] = v[x - m] /\ t[x] = Shown(v)[x - m]
      <4> HIDE DEF t, m, n
      <4>1. x - m \in 1..n
        BY <1>1, <2>3
      <4> QED  BY <1>1, <1>3, <2>3, <4>1
    <3>2. Shown(v)[x - m] = [sel |-> v[x - m].sel, arm |-> v[x - m].arm, decls |-> Ids(v[x - m].decls)]
      BY <3>1, ShownIs
    <3> QED  BY <2>1, <3>1, <3>2
  <2> QED  BY <2>2, <2>3
<1> HIDE DEF s, t
<1>5. s = t
  <2>1. \A y, z \in Seq(Listed) : Len(y) = Len(z) /\ (\A x \in 1..Len(y) : y[x] = z[x]) => y = z
    BY SeqEqual
  <2> QED  BY <1>1, <1>2, <1>3, <1>4, <2>1
<1> QED  BY <1>5 DEF s, t, q

(* Rules compiled with declarations are those compiled with their names. *)
LEMMA ShownCompile ==
    ASSUME NEW b \in Nat, NEW arms \in Seq(Arm), NEW ds \in Seq(Numbered)
    PROVE  Shown(compile(b, arms, ds)) = compile(b, arms, Ids(ds))
<1> DEFINE G == {n \in Nat : n <= Len(arms) => Shown(OfArms(b, arms, ds, n)) = OfArms(b, arms, Ids(ds), n)}
<1>1. 0 \in G
  <2>1. Shown(<<>>) = <<>>
    BY DEF Shown
  <2> QED  BY <2>1, OfNoArms
<1>2. ASSUME NEW n \in Nat, n \in G
      PROVE  n + 1 \in G
  <2> SUFFICES ASSUME n + 1 <= Len(arms)
               PROVE  Shown(OfArms(b, arms, ds, n + 1)) = OfArms(b, arms, Ids(ds), n + 1)
    OBVIOUS
  <2> DEFINE u == OfArms(b, arms, ds, n)
             v == OfArm(b, arms, ds, n + 1)
  <2>1. /\ u \in Seq(RuleWith(ds)) /\ OfArms(b, arms, ds, n + 1) = u \o v
        /\ OfArms(b, arms, Ids(ds), n + 1) = OfArms(b, arms, Ids(ds), n) \o OfArm(b, arms, Ids(ds), n + 1)
    BY OfArmsStep
  <2>2. n + 1 \in DOMAIN arms /\ n <= Len(arms)
    OBVIOUS
  <2>3. v \in Seq(RuleWith(ds))
    BY <2>2, OfArmIs
  <2>4. RuleWith(ds) \subseteq Compiled
    BY DEF RuleWith, Compiled
  <2>5. u \in Seq(Compiled) /\ v \in Seq(Compiled)
    BY <2>1, <2>3, <2>4, SeqMonotonic
  <2>6. Shown(v) = OfArm(b, arms, Ids(ds), n + 1)
    <3>1. CASE arms[n + 1].ignored
      BY <3>1 DEF OfArm, Shown
    <3>2. CASE ~arms[n + 1].ignored
      <4> DEFINE r == [sel |-> b, arm |-> n + 1, decls |-> ds]
                 i == Ids(ds)
      <4>1. v = [y \in 1..arms[n + 1].variants |-> r]
        BY <3>2 DEF OfArm
      <4>2. [r EXCEPT !.decls = i] = [sel |-> b, arm |-> n + 1, decls |-> i] /\ r.decls = ds
        OBVIOUS
      <4>3. Shown(v) = [y \in DOMAIN v |-> [v[y] EXCEPT !.decls = Ids(v[y].decls)]]
        BY DEF Shown
      <4> HIDE DEF r, i, v
      <4>4. DOMAIN v = 1..arms[n + 1].variants /\ \A y \in DOMAIN v : v[y] = r
        BY <4>1
      <4>5. \A y \in DOMAIN v : [v[y] EXCEPT !.decls = Ids(v[y].decls)] = [r EXCEPT !.decls = i]
        BY <4>2, <4>4 DEF i
      <4>6. Shown(v) = [y \in 1..arms[n + 1].variants |-> [sel |-> b, arm |-> n + 1, decls |-> i]]
        BY <4>2, <4>3, <4>4, <4>5
      <4> QED  BY <3>2, <4>6 DEF OfArm, i
    <3> QED  BY <3>1, <3>2
  <2>7. Shown(u) = OfArms(b, arms, Ids(ds), n)
    BY <1>2, <2>2
  <2> HIDE DEF u, v
  <2>8. Shown(u \o v) = Shown(u) \o Shown(v)
    BY <2>5, ShownConcat
  <2> QED  BY <2>1, <2>6, <2>7, <2>8
<1>3. Len(arms) \in G
  <2>1. Len(arms) \in Nat
    OBVIOUS
  <2> HIDE DEF G
  <2> QED  BY <1>1, <1>2, <2>1, SetInduction
<1>4. \A is : compile(b, arms, is) = OfArms(b, arms, is, Len(arms))
  <2>1. DOMAIN arms = 1..Len(arms)
    OBVIOUS
  <2> QED  BY <2>1 DEF compile, OfArms, OfArm
<1> QED  BY <1>3, <1>4

(* Compiling a ruleset gives rules with names for declarations. *)
LEMMA CompileListed ==
    ASSUME NEW b \in Nat, NEW arms \in Seq(Arm), NEW is \in Seq(Nat)
    PROVE  compile(b, arms, is) \in Seq(Listed)
<1>1. DOMAIN arms = 1..Len(arms) /\ Len(arms) \in Nat
  OBVIOUS
<1>2. compile(b, arms, is) = OfArms(b, arms, is, Len(arms))
  BY <1>1 DEF compile, OfArms, OfArm
<1>3. RuleWith(is) \subseteq Listed /\ <<>> \in Seq(Listed)
  BY DEF RuleWith, Listed
<1>4. CASE Len(arms) = 0
  BY <1>2, <1>3, <1>4, OfNoArms
<1>5. CASE Len(arms) # 0
  <2>1. /\ Len(arms) - 1 \in Nat /\ (Len(arms) - 1) + 1 = Len(arms) /\ Len(arms) \in DOMAIN arms
        /\ (Len(arms) - 1) + 1 <= Len(arms)
    BY <1>1, <1>5
  <2>2. /\ OfArms(b, arms, is, Len(arms) - 1) \in Seq(RuleWith(is))
        /\ OfArms(b, arms, is, (Len(arms) - 1) + 1)
           = OfArms(b, arms, is, Len(arms) - 1) \o OfArm(b, arms, is, (Len(arms) - 1) + 1)
    BY <2>1, OfArmsStep
  <2>3. OfArm(b, arms, is, Len(arms)) \in Seq(RuleWith(is))
    BY <2>1, OfArmIs
  <2> DEFINE R == RuleWith(is)
             u == OfArms(b, arms, is, Len(arms) - 1)
             v == OfArm(b, arms, is, Len(arms))
  <2>4. OfArms(b, arms, is, Len(arms)) \in Seq(RuleWith(is))
    <3>1. OfArms(b, arms, is, Len(arms)) = u \o v /\ u \in Seq(R) /\ v \in Seq(R)
      BY <2>1, <2>2, <2>3
    <3> HIDE DEF u, v, R
    <3>2. u \o v \in Seq(R)
      BY <3>1, ConcatProperties
    <3> QED  BY <3>1, <3>2 DEF R
  <2> QED  BY <1>2, <1>3, <2>4, SeqMonotonic
<1> QED  BY <1>4, <1>5

(* The rules of one ruleset more are appended. *)
LEMMA RulesOfAllStep ==
    ASSUME NEW l, NEW src \in Seq(Nat), NEW b \in Nat,
           \A x \in DOMAIN src : RulesOf(l, src[x]) \in Seq(Listed), RulesOf(l, b) \in Seq(Listed)
    PROVE  RulesOfAll(l, Append(src, b)) = RulesOfAll(l, src) \o RulesOf(l, b)
<1> DEFINE w == Append(src, b)
           n == Len(src)
           u == [x \in DOMAIN src |-> RulesOf(l, src[x])]
           v == [x \in DOMAIN w |-> RulesOf(l, w[x])]
<1>1. /\ n \in Nat /\ DOMAIN src = 1..n /\ DOMAIN w = 1..(n + 1) /\ w[n + 1] = b
      /\ \A x \in 1..n : w[x] = src[x]
  OBVIOUS
<1> HIDE DEF w, n
<1>2. u \in Seq(Seq(Listed)) /\ Len(u) = n /\ DOMAIN u = 1..n
  <2>1. u \in [1..n -> Seq(Listed)]
    BY <1>1
  <2> HIDE DEF u
  <2> QED  BY <1>1, <2>1, SeqDef
<1>3. \A x \in 1..(n + 1) : x = n + 1 \/ x \in 1..n
  BY <1>1
<1>4. v \in Seq(Seq(Listed)) /\ Len(v) = n + 1
  <2>1. v \in [1..(n + 1) -> Seq(Listed)] /\ n + 1 \in Nat
    <3>1. \A x \in 1..(n + 1) : RulesOf(l, w[x]) \in Seq(Listed)
      BY <1>1, <1>3
    <3> QED  BY <1>1, <3>1
  <2> HIDE DEF v
  <2> QED  BY <2>1, SeqDef
<1>5. (\A x \in DOMAIN u : v[x] = u[x]) /\ v[n + 1] = RulesOf(l, b)
  <2>1. n + 1 \in 1..(n + 1) /\ \A x \in 1..n : x \in 1..(n + 1)
    BY <1>1
  <2> QED  BY <1>1, <2>1
<1>6. RulesOfAll(l, src) = FlattenSeq(u) /\ RulesOfAll(l, w) = FlattenSeq(v)
  BY DEF RulesOfAll
<1> HIDE DEF u, v
<1>7. FlattenSeq(v) = FlattenSeq(u) \o v[Len(v)]
  BY <1>2, <1>4, <1>5, FlattenAppend
<1> QED  BY <1>4, <1>5, <1>6, <1>7 DEF w

(* The rules of a ruleset that stands in the text. *)
LEMMA RulesOfIs ==
    ASSUME NEW l, Entries(l), NEW b \in DOMAIN l, l[b].event = "ruleset"
    PROVE  /\ b \in Nat /\ ArmsOf(l, b) \in Seq(Arm)
           /\ RulesOf(l, b) \in Seq(Listed)
<1>1. b \in Nat /\ Len(l) \in Nat
  BY DEF Entries
<1>2. l[b].head \in Selectors
  BY DEF Entries
<1>3. ArmsOf(l, b) \in Seq(Arm)
  BY <1>2, SheetAssumption DEF ArmsOf
<1>4. BodyOf(l, b) \in Seq(Nat)
  <2>1. Listing(Len(l), Says(l, b)) \in Seq(1..Len(l)) /\ 1..Len(l) \subseteq Nat
    BY <1>1, ListingIs
  <2> QED  BY <2>1, SeqMonotonic DEF BodyOf
<1> QED  BY <1>1, <1>3, <1>4, CompileListed DEF RulesOf

(* A list of rulesets of the text. *)
LEMMA SourcesAre ==
    ASSUME NEW l, Entries(l), NEW o
    PROVE  /\ Listing(Len(l), TopSets(l, o)) \in Seq(Nat)
           /\ \A x \in DOMAIN Listing(Len(l), TopSets(l, o)) :
                 Listing(Len(l), TopSets(l, o))[x] \in TopSets(l, o)
           /\ \A b \in TopSets(l, o) : RulesOf(l, b) \in Seq(Listed)
<1>1. Len(l) \in Nat /\ 1..Len(l) \subseteq Nat
  BY DEF Entries
<1>2. /\ Listing(Len(l), TopSets(l, o)) \in Seq(1..Len(l))
      /\ \A x \in DOMAIN Listing(Len(l), TopSets(l, o)) :
            Listing(Len(l), TopSets(l, o))[x] \in TopSets(l, o)
  BY <1>1, ListingIs
<1>3. \A b \in TopSets(l, o) : RulesOf(l, b) \in Seq(Listed)
  BY RulesOfIs DEF TopSets
<1> QED  BY <1>1, <1>2, <1>3, SeqMonotonic

(* The rules to be made of the text stay the same when an event is added. *)
LEMMA RulesStay ==
    ASSUME NEW l, NEW o, NEW m, Entries(l), Blocks(l, o), Grown(l, o, m),
           NEW p, p = o \/ p = Append(o, Len(m)), p = o => m[Len(m)].event # "ruleset"
    PROVE  RulesOfAll(m, Listing(Len(m), TopSets(m, p))) = RulesOfAll(l, Listing(Len(l), TopSets(l, o)))
<1> DEFINE src == Listing(Len(l), TopSets(l, o))
<1>1. Listing(Len(m), TopSets(m, p)) = src
  BY TopSetsGrow
<1>2. \A x \in DOMAIN src : src[x] \in TopSets(l, o)
  BY SourcesAre
<1>3. \A b \in TopSets(l, o) : RulesOf(m, b) = RulesOf(l, b)
  <2> TAKE b \in TopSets(l, o)
  <2>1. b \in DOMAIN l /\ Shut(o, b)
    BY DEF TopSets
  <2>2. BodyOf(m, b) = BodyOf(l, b) /\ m[b] = l[b]
    BY <2>1, HeldStays
  <2> QED  BY <2>2 DEF RulesOf, ArmsOf
<1> HIDE DEF src
<1>4. RulesOfAll(m, src) = RulesOfAll(l, src)
  BY <1>2, <1>3 DEF RulesOfAll
<1> QED  BY <1>1, <1>4 DEF src

-----------------------------------------------------------------------------
(* What is gathered from the open blocks *)

(* Deep blocks have a stack as high as they are deep. *)
LEMMA DeepIs ==
    ASSUME NEW o, NEW l, NEW a, NEW s, Deep(l, o, s, a), o \in Seq(DOMAIN l), s \in Seq(Opened)
    PROVE  s # <<>> /\ Len(s) = Len(o) /\ Len(s) \in Nat /\ Len(s) # 0
<1>1. Len(o) \in Nat /\ Len(o) # 0 /\ Len(s) = Len(o)
  BY DEF Deep
<1> QED  BY <1>1

(* The part of Gathered about the stack. *)
HoldsAll(l, o, s) == \A x \in 1..Len(o) : s[x].holds = Pairs(l, Directly(l, o, x))

(* A block just opened holds nothing, and the others what they held. *)
LEMMA HoldsOpen ==
    ASSUME Shape, Gathered, OpensBlock, log'[Here].event \in {"at-rule", "ruleset"}, InRuleList,
           stack' = Append(stack, Block(Here))
    PROVE  HoldsAll(log', open', stack')
<1> DEFINE n == Len(open)
           h == Here
<1>1. /\ n \in Nat /\ open \in Seq(DOMAIN log) /\ stack \in Seq(Opened) /\ h \in Nat
      /\ Shallow(log, open, stack) \/ Deep(log, open, stack, atKind)
      /\ Entries(log) /\ Blocks(log, open)
  BY ShapeIs DEF Shape, Nesting
<1>2. /\ Grown(log, open, log') /\ Len(log') = h /\ open' = Append(open, h)
      /\ Entries(log') /\ log' \in Seq(Entry)
      /\ ~InRuleset(log, open)
  BY TextStep, RuleListIs DEF OpensBlock
<1>3. Len(stack) = n
  <2>1. CASE stack = <<>>
    BY <2>1, RuleListIs
  <2>2. CASE stack # <<>>
    BY <1>1, <2>2 DEF Shallow, Deep
  <2> QED  BY <2>1, <2>2
<1>4. Block(h) \in Opened /\ Block(h).holds = {}
  BY <1>1, BlockIs
<1>5. stack'[n + 1] = Block(h) /\ \A x \in 1..n : stack'[x] = stack[x]
  BY <1>1, <1>3, <1>4
<1>6. Len(open') = n + 1 /\ open'[n + 1] = h
  BY <1>1, <1>2
<1> HIDE DEF h
<1>7. ASSUME NEW x \in 1..n
      PROVE  stack'[x].holds = Pairs(log', Directly(log', open', x))
  <2>1. open' # open
    BY <1>1, <1>6
  <2>2. Pairs(log', Directly(log', open', x)) = Pairs(log, Directly(log, open, x))
    <3>1. /\ Entries(log) /\ Blocks(log, open) /\ Grown(log, open, log')
          /\ open' = open \/ open' = Append(open, Len(log'))
          /\ x \in 1..Len(open)
      BY <1>1, <1>2
    <3>2. Pairs(log', Directly(log', open', x)) =
              IF open' = open /\ x = Len(open) /\ Notable(log', Len(log'))
              THEN Pairs(log, Directly(log, open, x)) \union {<<open[x], Len(log')>>}
              ELSE Pairs(log, Directly(log, open, x))
      BY <3>1, DirectlyGrows, SMTT(30)
    <3> QED  BY <2>1, <3>2
  <2>3. stack # <<>>
    BY <1>1, <1>3
  <2>4. Deep(log, open, stack, atKind)
    BY <1>1, <2>3 DEF Shallow
  <2> QED  BY <1>5, <2>2, <2>4 DEF Gathered
<1>8. Pairs(log', Directly(log', open', n + 1)) = {}
  <2>1. log' # <<>>
    <3>1. Len(log') # 0
      BY <1>2, ShapeIs DEF h
    <3> QED  BY <3>1
  <2>2. Below(log', open'[n + 1]) = {}
    BY <1>2, <1>6, <2>1, NewIsEmpty
  <2> QED  BY <2>2 DEF Directly, Pairs
<1> HIDE DEF n
<1>9. \A x \in 1..(n + 1) : x = n + 1 \/ x \in 1..n
  BY <1>1
<1> QED  BY <1>4, <1>5, <1>6, <1>7, <1>8, <1>9 DEF HoldsAll

(* What is noted is noted in the innermost block. *)
LEMMA HoldsWrite ==
    ASSUME Shape, Gathered, Writes, Deep(log, open, stack, atKind),
           \/ stack' = stack /\ ~Notable(log', Here)
           \/ stack' = PutInLast(stack, Here) /\ Notable(log', Here)
    PROVE  HoldsAll(log', open', stack')
<1> DEFINE n == Len(open)
           h == Here
<1>1. /\ n \in Nat /\ open \in Seq(DOMAIN log) /\ stack \in Seq(Opened) /\ h \in Nat
      /\ Entries(log) /\ Blocks(log, open)
      /\ Grown(log, open, log') /\ Len(log') = h /\ open' = open
  BY ShapeIs DEF Shape, Nesting, Writes
<1>2. stack # <<>> /\ Len(stack) = n /\ n # 0
  BY <1>1, DeepIs
<1>3. \A x \in 1..n : stack[x].id = open[x] /\ stack[x].holds = Pairs(log, Directly(log, open, x))
  BY DEF Gathered, Deep
<1>4. \A x \in 1..n : Pairs(log', Directly(log', open', x)) =
              IF x = n /\ Notable(log', h)
              THEN Pairs(log, Directly(log, open, x)) \union {<<open[x], h>>}
              ELSE Pairs(log, Directly(log, open, x))
  BY <1>1, DirectlyGrows
<1> HIDE DEF h
<1>5. CASE stack' = stack /\ ~Notable(log', h)
  BY <1>1, <1>3, <1>4, <1>5 DEF HoldsAll
<1>6. CASE stack' = PutInLast(stack, h) /\ Notable(log', h)
  <2>1. /\ \A x \in 1..(n - 1) : stack'[x].holds = stack[x].holds
        /\ stack'[n].holds = stack[n].holds \union {<<stack[n].id, h>>}
    BY <1>1, <1>2, <1>6, PutInLastIs
  <2>2. n \in 1..n /\ \A x \in 1..n : x = n \/ (x # n /\ x \in 1..(n - 1))
    BY <1>1, <1>2
  <2> QED  BY <1>1, <1>3, <1>4, <1>6, <2>1, <2>2 DEF HoldsAll
<1> QED  BY <1>5, <1>6 DEF h

(* A block that ends passes on what it holds. *)
LEMMA HoldsFold ==
    ASSUME Shape, Gathered, Closes, Deep(log, open, stack, atKind), Len(stack) > 1, stack' = Fold(stack)
    PROVE  HoldsAll(log', open', stack')
<1> DEFINE n == Len(open)
<1>1. /\ n \in Nat /\ open \in Seq(DOMAIN log) /\ stack \in Seq(Opened)
      /\ Entries(log) /\ Blocks(log, open)
      /\ log' = log /\ open' = Front(open) /\ open # <<>>
  BY ShapeIs DEF Shape, Nesting, Closes
<1>2. Len(stack) = n
  BY <1>1, DeepIs
<1>3. \A x \in 1..n : stack[x].id = open[x] /\ stack[x].holds = Pairs(log, Directly(log, open, x))
  BY DEF Gathered, Deep
<1>4. /\ \A x \in 1..(n - 2) : stack'[x].holds = stack[x].holds
      /\ stack'[n - 1].holds = stack[n - 1].holds \union {<<stack[n - 1].id, stack[n].id>>} \union stack[n].holds
  BY <1>1, <1>2, FoldIs
<1>5. \A x \in 1..(n - 1) : Pairs(log, Directly(log, Front(open), x)) =
              IF x = n - 1
              THEN Pairs(log, Directly(log, open, x)) \union {<<open[x], open[n]>>}
                   \union Pairs(log, Directly(log, open, n))
              ELSE Pairs(log, Directly(log, open, x))
  BY <1>1, <1>2, DirectlyShrinks
<1>6. Len(open') = n - 1
  BY <1>1, FrontIs
<1>7. n > 1
  BY <1>2
<1> HIDE DEF n
<1>8. /\ n \in 1..n /\ n - 1 \in 1..n
      /\ \A x \in 1..(n - 1) : x \in 1..n /\ (x = n - 1 \/ (x # n - 1 /\ x \in 1..(n - 2)))
  BY <1>1, <1>7
<1>9. \A x \in 1..(n - 1) : stack'[x].holds = Pairs(log, Directly(log, Front(open), x))
  <2> TAKE x \in 1..(n - 1)
  <2>1. CASE x = n - 1
    BY <1>3, <1>4, <1>5, <1>8, <2>1
  <2>2. CASE x # n - 1
    BY <1>3, <1>4, <1>5, <1>8, <2>2
  <2> QED  BY <2>1, <2>2
<1> QED  BY <1>1, <1>6, <1>9 DEF HoldsAll

(* One more declaration for the ruleset at hand, or one that is dropped. *)
LEMMA CollectsWrite ==
    ASSUME Shape, Gathered, Writes, stack = <<>>, InRuleset(log, open), sel' = sel,
           log'[Here].event = "decl",
           \/ log'[Here].head = "blank" /\ decls' = decls
           \/ log'[Here].head # "blank" /\ decls' = Append(decls, [id |-> Here, ord |-> ord])
    PROVE  Ids(decls') = BodyOf(log', sel')
<1>1. /\ Entries(log) /\ Blocks(log, open) /\ Grown(log, open, log') /\ Len(log') = Here
      /\ sel = Last(open) /\ decls \in Seq(Numbered) /\ ord \in Nat /\ Here \in Nat
  BY ShapeIs DEF Shape, Nesting, TypeOK, Writes
<1>2. Ids(decls) = BodyOf(log, sel)
  BY DEF Gathered
<1>3. BodyOf(log', sel) = IF log'[Here].head # "blank" THEN Append(BodyOf(log, sel), Here) ELSE BodyOf(log, sel)
  BY <1>1, BodyGrows
<1>4. CASE log'[Here].head = "blank" /\ decls' = decls
  BY <1>2, <1>3, <1>4
<1>5. CASE log'[Here].head # "blank" /\ decls' = Append(decls, [id |-> Here, ord |-> ord])
  <2> DEFINE d == [id |-> Here, ord |-> ord]
             n == Len(decls)
  <2>1. d \in Numbered /\ d.id = Here
    BY <1>1 DEF Numbered
  <2> HIDE DEF d
  <2>2. /\ decls' \in Seq(Numbered) /\ Len(decls') = n + 1 /\ n \in Nat /\ DOMAIN decls' = 1..(n + 1)
        /\ decls'[n + 1] = d /\ \A x \in 1..n : decls'[x] = decls[x]
        /\ DOMAIN decls = 1..n
    BY <1>1, <1>5, <2>1 DEF d
  <2> DEFINE u == Ids(decls)
             v == Ids(decls')
  <2>3. /\ u \in Seq(Nat) /\ Len(u) = n /\ \A x \in 1..n : u[x] = decls[x].id
        /\ v \in Seq(Nat) /\ Len(v) = n + 1 /\ \A x \in 1..(n + 1) : v[x] = decls'[x].id
    BY <1>1, <2>2, IdsIs
  <2> HIDE DEF u, v, n
  <2>4. Append(u, Here) \in Seq(Nat) /\ Len(Append(u, Here)) = n + 1
        /\ Append(u, Here)[n + 1] = Here /\ \A x \in 1..n : Append(u, Here)[x] = u[x]
    BY <1>1, <2>3
  <2>5. \A x \in 1..(n + 1) : v[x] = Append(u, Here)[x]
    <3>1. \A x \in 1..(n + 1) : x = n + 1 \/ x \in 1..n
      BY <2>2
    <3>2. n + 1 \in 1..(n + 1) /\ \A x \in 1..n : x \in 1..(n + 1)
      BY <2>2
    <3> QED  BY <2>1, <2>2, <2>3, <2>4, <3>1, <3>2
  <2>6. v = Append(u, Here)
    BY <2>3, <2>4, <2>5, SeqEqual
  <2> QED  BY <1>2, <1>3, <1>5, <2>6 DEF u, v
<1> QED  BY <1>4, <1>5

(* Nothing is open at the start, so nothing need be gathered. *)
LEMMA InitGathered == Init => Gathered
<1> SUFFICES ASSUME Init PROVE Gathered
  OBVIOUS
<1>1. open = <<>>
  BY DEF Init
<1> QED  BY <1>1 DEF Gathered, InRuleset, Deep

(* Gathered follows from its parts. *)
LEMMA GatheredFrom ==
    ASSUME stack' = <<>> /\ InRuleset(log', open') => Ids(decls') = BodyOf(log', sel'),
           Deep(log', open', stack', atKind') => HoldsAll(log', open', stack')
    PROVE  Gathered'
  BY DEF Gathered, HoldsAll

(* No block is on an empty stack. *)
LEMMA NotDeep ==
    ASSUME Shape', stack' = <<>>
    PROVE  ~Deep(log', open', stack', atKind')
<1>1. open' \in Seq(DOMAIN log') /\ stack' \in Seq(Opened)
  BY DEF Shape, TypeOK
<1> QED  BY <1>1, DeepIs

(* A declaration goes to the open ruleset or to the block being preserved, and to no other. *)
LEMMA GatheredDeclares ==
    ASSUME Shape, Gathered, Shape', Writes, log'[Here].event = "decl",
           InRuleset(log', open') <=> InRuleset(log, open),
           stack = <<>> => InRuleset(log, open), UNCHANGED <<sel, atKind>>,
           \/ stack = <<>> /\ stack' = stack /\ log'[Here].head = "blank" /\ decls' = decls
           \/ stack = <<>> /\ stack' = stack /\ log'[Here].head # "blank"
              /\ decls' = Append(decls, [id |-> Here, ord |-> ord])
           \/ stack # <<>> /\ stack' = stack /\ log'[Here].head # "plain"
           \/ stack # <<>> /\ stack' = PutInLast(stack, Here) /\ log'[Here].head = "plain"
    PROVE  Gathered'
<1>1. CASE stack = <<>> /\ stack' = stack
  <2>1. Ids(decls') = BodyOf(log', sel')
    BY <1>1, CollectsWrite
  <2>2. ~Deep(log', open', stack', atKind')
    BY <1>1, NotDeep
  <2> QED  BY <2>1, <2>2, GatheredFrom
<1>2. CASE stack # <<>>
  <2>1. Deep(log, open, stack, atKind)
    BY <1>2, ShapeIs DEF Shallow
  <2>2. \/ stack' = stack /\ ~Notable(log', Here)
        \/ stack' = PutInLast(stack, Here) /\ Notable(log', Here)
    BY <1>2 DEF Notable
  <2>3. HoldsAll(log', open', stack')
    BY <2>1, <2>2, HoldsWrite
  <2>4. stack' # <<>>
    <3>1. Len(stack') = Len(stack) /\ stack \in Seq(Opened) /\ stack' \in Seq(Opened)
      BY <1>2, <2>2, ShapeIs, PutInLastIs
    <3> QED  BY <1>2, <3>1
  <2> QED  BY <2>3, <2>4, GatheredFrom
<1> QED  BY <1>1, <1>2

(* Every event leaves the open ruleset and the open blocks with exactly what they hold in the text. *)
LEMMA NextGathered == Shape /\ Gathered /\ [Next]_vars => Gathered'
<1> SUFFICES ASSUME Shape, Gathered, [Next]_vars PROVE Gathered'
  OBVIOUS
<1>1. ASSUME NEW k \in AtKind, BeginAtRule(k) PROVE Gathered'
  <2>1. OpensBlock /\ log'[Here].event = "at-rule" /\ ~InRuleset(log', open')
    BY <1>1, BeginAtRuleStep
  <2>2. HoldsAll(log', open', stack')
    BY <1>1, <2>1, HoldsOpen DEF BeginAtRule
  <2> QED  BY <2>1, <2>2, GatheredFrom
<1>2. ASSUME NEW k \in AtKind, BodylessAtRule(k) PROVE Gathered'
  <2>1. Shape' /\ Writes /\ log'[Here].event = "bodyless" /\ ~InRuleset(log', open') /\ stack' = stack
    BY <1>2, BodylessAtRuleStep DEF BodylessAtRule
  <2>2. ~Notable(log', Here)
    BY <2>1 DEF Notable
  <2>3. CASE stack = <<>>
    BY <2>1, <2>3, NotDeep, GatheredFrom
  <2>4. CASE stack # <<>>
    <3>1. Deep(log, open, stack, atKind)
      BY <2>4, ShapeIs DEF Shallow
    <3>2. HoldsAll(log', open', stack')
      BY <2>1, <2>2, <3>1, HoldsWrite
    <3> QED  BY <2>1, <3>2, GatheredFrom
  <2> QED  BY <2>3, <2>4
<1>3. ASSUME EndAtRule PROVE Gathered'
  <2>1. Shape' /\ Closes /\ ~InRuleset(log', open') /\ Deep(log, open, stack, atKind)
    BY <1>3, EndAtRuleStep
  <2>2. CASE Len(stack) > 1
    <3>1. stack' = Fold(stack)
      BY <1>3, <2>2 DEF EndAtRule
    <3> QED  BY <2>1, <2>2, <3>1, HoldsFold, GatheredFrom
  <2>3. CASE ~(Len(stack) > 1)
    <3>1. stack \in Seq(Opened) /\ open \in Seq(DOMAIN log)
      BY ShapeIs
    <3>2. Len(stack) # 0 /\ Len(stack) \in Nat /\ stack # <<>>
      BY <2>1, <3>1, DeepIs
    <3>3. Len(Front(stack)) = Len(stack) - 1 /\ Front(stack) \in Seq(Opened)
      BY <3>1, <3>2, FrontIs
    <3>4. stack' = Front(stack)
      BY <1>3, <2>3 DEF EndAtRule
    <3>5. stack' = <<>>
      <4>1. \A n \in Nat : n # 0 /\ ~(n > 1) => n - 1 = 0
        OBVIOUS
      <4>2. Len(stack') = 0 /\ stack' \in Seq(Opened)
        BY <2>3, <3>2, <3>3, <3>4, <4>1
      <4> QED  BY <4>2
    <3> QED  BY <2>1, <3>5, NotDeep, GatheredFrom
  <2> QED  BY <2>2, <2>3
<1>4. ASSUME NEW s \in Selectors, BeginRuleset(s) PROVE Gathered'
  <2>1. Shape' /\ OpensBlock /\ log'[Here].event = "ruleset" /\ sel' = Here /\ decls' = <<>>
    BY <1>4, BeginRulesetStep DEF BeginRuleset
  <2>2. CASE stack = <<>>
    <3>1. stack' = <<>>
      BY <1>4, <2>2 DEF BeginRuleset
    <3>2. Entries(log') /\ Len(log') = Here /\ log' # <<>>
      <4>1. Len(log') = Here /\ Here # 0
        BY <2>1, ShapeIs DEF OpensBlock
      <4> QED  BY <2>1, <4>1 DEF Shape, Nesting
    <3>3. BodyOf(log', Here) = <<>>
      BY <3>2, NewIsEmpty
    <3>4. Ids(<<>>) = <<>>
      BY DEF Ids
    <3> QED  BY <2>1, <3>1, <3>3, <3>4, NotDeep, GatheredFrom
  <2>3. CASE stack # <<>>
    <3>1. stack' = Append(stack, Block(Here)) /\ InRuleList
      BY <1>4, <2>3 DEF BeginRuleset
    <3>2. HoldsAll(log', open', stack')
      BY <2>1, <3>1, HoldsOpen
    <3>3. stack' # <<>>
      <4>1. stack \in Seq(Opened) /\ Block(Here) \in Opened
        BY ShapeIs, BlockIs
      <4>2. Len(stack') # 0
        BY <3>1, <4>1
      <4> QED  BY <4>2
    <3> QED  BY <3>2, <3>3, GatheredFrom
  <2> QED  BY <2>2, <2>3
<1>5. ASSUME NEW blank \in BOOLEAN, Declaration(blank) PROVE Gathered'
  <2>1. /\ Shape' /\ Writes /\ log'[Here].event = "decl"
        /\ log'[Here].head = IF blank THEN "blank" ELSE "plain"
        /\ InRuleset(log', open') <=> InRuleset(log, open)
        /\ stack = <<>> => InRuleset(log, open)
    BY <1>5, DeclarationStep
  <2>2. UNCHANGED <<sel, atKind>>
    BY <1>5 DEF Declaration
  <2>3. CASE blank
    <3>1. stack' = stack /\ decls' = decls /\ log'[Here].head = "blank"
      BY <1>5, <2>1, <2>3 DEF Declaration
    <3> QED  BY <2>1, <2>2, <3>1, GatheredDeclares
  <2>4. CASE ~blank
    <3>1. log'[Here].head = "plain"
      BY <2>1, <2>4
    <3>2. \/ stack = <<>> /\ stack' = stack /\ decls' = Append(decls, [id |-> Here, ord |-> ord])
          \/ stack # <<>> /\ stack' = PutInLast(stack, Here)
      BY <1>5, <2>4 DEF Declaration
    <3> QED  BY <2>1, <2>2, <3>1, <3>2, GatheredDeclares
  <2> QED  BY <2>3, <2>4
<1>6. ASSUME CustomProperty PROVE Gathered'
  <2>1. /\ Shape' /\ Writes /\ log'[Here].event = "decl" /\ log'[Here].head = "custom"
        /\ InRuleset(log', open') <=> InRuleset(log, open)
        /\ stack = <<>> => InRuleset(log, open)
    BY <1>6, CustomPropertyStep
  <2>2. /\ UNCHANGED <<sel, atKind>> /\ stack' = stack
        /\ stack = <<>> => decls' = Append(decls, [id |-> Here, ord |-> ord])
    BY <1>6 DEF CustomProperty
  <2> QED  BY <2>1, <2>2, GatheredDeclares
<1>7. ASSUME EndRuleset PROVE Gathered'
  <2>1. /\ Shape' /\ Closes /\ ~InRuleset(log', open')
        /\ stack # <<>> => Len(stack) > 1 /\ Deep(log, open, stack, atKind)
    BY <1>7, EndRulesetStep
  <2>2. CASE stack = <<>>
    <3>1. stack' = <<>>
      BY <1>7, <2>2 DEF EndRuleset
    <3> QED  BY <2>1, <3>1, NotDeep, GatheredFrom
  <2>3. CASE stack # <<>>
    <3>1. stack' = Fold(stack) /\ Len(stack) > 1
      BY <1>7, <2>1, <2>3 DEF EndRuleset
    <3> QED  BY <2>1, <2>3, <3>1, HoldsFold, GatheredFrom
  <2> QED  BY <2>2, <2>3
<1>8. ASSUME Stop \/ Done \/ UNCHANGED vars PROVE Gathered'
  BY <1>8 DEF Stop, Done, vars, Gathered
<1> QED  BY <1>1, <1>2, <1>3, <1>4, <1>5, <1>6, <1>7, <1>8 DEF Next

-----------------------------------------------------------------------------
(* What has become of the blocks that are closed *)

(* What is kept is named like what is to be preserved, so it stands in the
   text and is closed. *)
LEMMA KeptAreClosed ==
    ASSUME Shape, Results
    PROVE  /\ keep \in Seq(PreservedBlock)
           /\ \A x \in DOMAIN keep : keep[x].id \in DOMAIN log /\ Shut(open, keep[x].id)
<1>1. keep \in Seq(PreservedBlock) /\ \A x \in DOMAIN keep : keep[x].id \in DOMAIN log
  BY DEF Shape, TypeOK
<1>2. Len(log) \in Nat
  BY ShapeIs
<1>3. ASSUME NEW x \in DOMAIN keep PROVE keep[x].id \in Preserves(log, open)
  <2>1. Ids(keep)[x] = keep[x].id /\ x \in DOMAIN Ids(keep)
    BY DEF Ids
  <2>2. \A y \in DOMAIN Listing(Len(log), Preserves(log, open)) :
           Listing(Len(log), Preserves(log, open))[y] \in Preserves(log, open)
    BY <1>2, ListingIs
  <2> QED  BY <2>1, <2>2 DEF Results
<1> QED  BY <1>1, <1>3 DEF Preserves, TopSets

(* One more block is kept. *)
LEMMA KeepAppends ==
    ASSUME Shape, Results, NEW w \in PreservedBlock, keep' = Append(keep, w)
    PROVE  /\ Ids(keep') = Append(Ids(keep), w.id)
           /\ \A x \in DOMAIN keep' : keep'[x] = w \/ (x \in DOMAIN keep /\ keep'[x] = keep[x])
<1> DEFINE n == Len(keep)
           u == Ids(keep)
           v == Ids(keep')
<1>1. /\ keep \in Seq(PreservedBlock) /\ n \in Nat /\ DOMAIN keep = 1..n
      /\ DOMAIN keep' = 1..(n + 1) /\ keep'[n + 1] = w /\ \A x \in 1..n : keep'[x] = keep[x]
  BY KeptAreClosed
<1>2. w.id \in Nat /\ \A x \in 1..n : keep[x].id \in Nat
  <2>1. \A x \in 1..n : keep[x] \in PreservedBlock
    BY <1>1
  <2> QED  BY <2>1 DEF PreservedBlock
<1> HIDE DEF n
<1>3. \A x \in 1..(n + 1) : x = n + 1 \/ x \in 1..n
  BY <1>1
<1>4. u \in Seq(Nat) /\ Len(u) = n /\ \A x \in 1..n : u[x] = keep[x].id
  <2>1. u \in [1..n -> Nat] /\ \A x \in 1..n : u[x] = keep[x].id
    BY <1>1, <1>2 DEF Ids
  <2> HIDE DEF u
  <2> QED  BY <1>1, <2>1, SeqDef
<1>5. v \in Seq(Nat) /\ Len(v) = n + 1 /\ \A x \in 1..(n + 1) : v[x] = keep'[x].id
  <2>1. \A x \in 1..(n + 1) : keep'[x].id \in Nat
    BY <1>1, <1>2, <1>3
  <2>2. v \in [1..(n + 1) -> Nat] /\ n + 1 \in Nat
    BY <1>1, <2>1 DEF Ids
  <2>3. \A x \in 1..(n + 1) : v[x] = keep'[x].id
    BY <1>1 DEF Ids
  <2> HIDE DEF v
  <2>4. v \in Seq(Nat) /\ Len(v) = n + 1
    BY <2>2, SeqDef
  <2> QED  BY <2>3, <2>4
<1> HIDE DEF u, v
<1>6. /\ Append(u, w.id) \in Seq(Nat) /\ Len(Append(u, w.id)) = n + 1
      /\ Append(u, w.id)[n + 1] = w.id /\ \A x \in 1..n : Append(u, w.id)[x] = u[x]
  BY <1>1, <1>2, <1>4
<1>7. \A x \in 1..(n + 1) : v[x] = Append(u, w.id)[x]
  <2>1. n + 1 \in 1..(n + 1) /\ \A x \in 1..n : x \in 1..(n + 1)
    BY <1>1
  <2>2. v[n + 1] = Append(u, w.id)[n + 1]
    BY <1>1, <1>5, <1>6, <2>1
  <2>3. \A x \in 1..n : v[x] = Append(u, w.id)[x]
    BY <1>1, <1>4, <1>5, <1>6, <2>1, ZenonT(60)
  <2> QED  BY <1>3, <2>2, <2>3
<1>8. v = Append(u, w.id)
  BY <1>5, <1>6, <1>7, SeqEqual
<1>9. \A x \in DOMAIN keep' : keep'[x] = w \/ (x \in DOMAIN keep /\ keep'[x] = keep[x])
  BY <1>1, <1>3
<1> QED  BY <1>8, <1>9 DEF u, v

(* An event is added: the results stay, and an at-rule without a block is
   kept if it is of a preserved kind and stands outside every block. *)
LEMMA ResultsGrow ==
    ASSUME Shape, Results, Writes \/ OpensBlock,
           Writes => log'[Here].event \in {"bodyless", "decl"}, rules' = rules,
           LET adds == Writes /\ open = <<>> /\ log'[Here].event = "bodyless" /\ log'[Here].head \in Preserved
           IN \/ ~adds /\ keep' = keep
              \/ adds /\ keep' = Append(keep, Kept(log'[Here].head, Block(Here)))
    PROVE  Results'
<1> DEFINE adds == Writes /\ open = <<>> /\ log'[Here].event = "bodyless" /\ log'[Here].head \in Preserved
           h == Here
<1>1. /\ Entries(log) /\ Blocks(log, open) /\ Grown(log, open, log') /\ Len(log') = h
      /\ open' = open \/ open' = Append(open, h)
      /\ open' = open => Writes
      /\ Writes => open' = open
      /\ h \in Nat
  <2>1. Entries(log) /\ Blocks(log, open) /\ open \in Seq(DOMAIN log) /\ h \in Nat
    BY ShapeIs DEF Shape, Nesting
  <2>2. Append(open, Here) # open
    <3>1. Len(Append(open, Here)) # Len(open)
      BY <2>1
    <3> QED  BY <3>1
  <2> QED  BY <2>1, <2>2 DEF Writes, OpensBlock
<1>2. open' = Append(open, Len(log')) \/ open' = open
  BY <1>1
<1>3. Shown(rules') = RulesOfAll(log', Listing(Len(log'), TopSets(log', open')))
  <2>1. open' = open => log'[Len(log')].event # "ruleset"
    BY <1>1
  <2>2. RulesOfAll(log', Listing(Len(log'), TopSets(log', open')))
        = RulesOfAll(log, Listing(Len(log), TopSets(log, open)))
    BY <1>1, <1>2, <2>1, RulesStay
  <2> QED  BY <2>2 DEF Results
<1>4. Listing(Len(log'), Preserves(log', open')) =
              IF adds THEN Append(Listing(Len(log), Preserves(log, open)), h)
              ELSE Listing(Len(log), Preserves(log, open))
  <2>1. open' = open => log'[Len(log')].event \in {"bodyless", "decl"}
    BY <1>1
  <2>2. Listing(Len(log'), Preserves(log', open')) =
              IF open' = open /\ open = <<>> /\ log'[Len(log')].event = "bodyless"
                 /\ log'[Len(log')].head \in Preserved
              THEN Append(Listing(Len(log), Preserves(log, open)), Len(log'))
              ELSE Listing(Len(log), Preserves(log, open))
    BY <1>1, <1>2, <2>1, PreservesGrow
  <2> QED  BY <1>1, <2>2
<1>5. \A x \in DOMAIN keep : keep[x].holds = HeldIn(log', keep[x].id)
  <2> TAKE x \in DOMAIN keep
  <2>1. keep[x].id \in DOMAIN log /\ Shut(open, keep[x].id)
    BY KeptAreClosed
  <2>2. HeldIn(log', keep[x].id) = HeldIn(log, keep[x].id)
    BY <1>1, <2>1, HeldStays
  <2> QED  BY <2>2 DEF Results
<1>6. CASE ~adds
  <2>1. keep' = keep
    BY <1>6
  <2> HIDE DEF adds
  <2>2. Ids(keep') = Listing(Len(log'), Preserves(log', open'))
    BY <1>4, <1>6, <2>1 DEF Results
  <2>3. \A x \in DOMAIN keep' : keep'[x].holds = HeldIn(log', keep'[x].id)
    BY <1>5, <2>1
  <2> QED  BY <1>3, <2>2, <2>3 DEF Results
<1>7. CASE adds
  <2> DEFINE w == Kept(log'[h].head, Block(h))
  <2>1. log'[h].head \in AtKind /\ log'[h].event = "bodyless"
    BY <1>7, SheetAssumption
  <2>2. w \in PreservedBlock /\ w.id = h /\ w.holds = {}
    BY <1>1, <2>1, BlockIs, KeptIs
  <2>3. keep' = Append(keep, w)
    BY <1>7
  <2> HIDE DEF w, adds, h
  <2>4. /\ Ids(keep') = Append(Ids(keep), w.id)
        /\ \A x \in DOMAIN keep' : keep'[x] = w \/ (x \in DOMAIN keep /\ keep'[x] = keep[x])
    BY <2>2, <2>3, KeepAppends
  <2>5. Ids(keep') = Listing(Len(log'), Preserves(log', open'))
    BY <1>4, <1>7, <2>2, <2>4 DEF Results
  <2>6. HeldIn(log', h) = {}
    <3>1. Entries(log')
      BY <1>1, EntriesGrow
    <3>2. log' # <<>>
      <4>1. Len(log') # 0
        BY <1>1, ShapeIs DEF h
      <4> QED  BY <4>1
    <3>3. Below(log', h) = {}
      BY <1>1, <3>1, <3>2, NewIsEmpty
    <3> QED  BY <2>1, <3>3 DEF HeldIn, Pairs
  <2>7. \A x \in DOMAIN keep' : keep'[x].holds = HeldIn(log', keep'[x].id)
    BY <1>5, <2>2, <2>4, <2>6
  <2> QED  BY <1>3, <2>5, <2>7 DEF Results
<1> QED  BY <1>6, <1>7

(* A block is closed whose end changes neither result. *)
LEMMA ResultsStay ==
    ASSUME Shape, Results, Closes, rules' = rules, keep' = keep,
           Len(open) = 1 =>
              /\ ~(log[Last(open)].event = "at-rule" /\ log[Last(open)].head \in Preserved)
              /\ ~(log[Last(open)].event = "ruleset" /\ BodyOf(log, Last(open)) # <<>>)
    PROVE  Results'
<1>1. Entries(log) /\ Blocks(log, open) /\ log' = log /\ open' = Front(open) /\ open # <<>>
  BY DEF Shape, Nesting, Closes
<1>2. Listing(Len(log), TopSets(log, Front(open))) = Listing(Len(log), TopSets(log, open))
  BY <1>1, TopSetsShrink
<1>3. Listing(Len(log), Preserves(log, Front(open))) = Listing(Len(log), Preserves(log, open))
  BY <1>1, PreservesShrink
<1> QED  BY <1>1, <1>2, <1>3 DEF Results

(* The end of an at-rule. *)
LEMMA ResultsEndAtRule ==
    ASSUME Shape, Gathered, Results, EndAtRule
    PROVE  Results'
<1>1. /\ Closes /\ Deep(log, open, stack, atKind) /\ log[Last(open)].event = "at-rule"
      /\ open # <<>> /\ rules' = rules
  BY EndAtRuleStep DEF EndAtRule, Closes
<1>2. stack \in Seq(Opened) /\ open \in Seq(DOMAIN log) /\ Last(open) = open[Len(open)]
  BY <1>1, ShapeIs
<1>3. stack # <<>> /\ Len(stack) = Len(open) /\ Len(stack) \in Nat /\ Len(stack) # 0
  BY <1>1, <1>2, DeepIs
<1>4. CASE Len(stack) > 1
  <2>1. keep' = keep
    BY <1>4 DEF EndAtRule
  <2>2. Len(open) # 1
    BY <1>3, <1>4
  <2> QED  BY <1>1, <2>1, <2>2, ResultsStay
<1>5. CASE ~(Len(stack) > 1)
  <2>1. Len(open) = 1 /\ Len(stack) = 1
    <3>1. \A n \in Nat : n # 0 /\ ~(n > 1) => n = 1
      OBVIOUS
    <3> QED  BY <1>3, <1>5, <3>1
  <2>2. Last(open) = open[1] /\ atKind = log[open[1]].head
    BY <1>1, <1>2, <2>1 DEF Deep
  <2>3. CASE atKind \notin Preserved
    <3>1. keep' = keep
      BY <1>5, <2>3 DEF EndAtRule
    <3> QED  BY <1>1, <2>2, <2>3, <3>1, ResultsStay
  <2>4. CASE atKind \in Preserved
    <3> DEFINE w == Kept(atKind, Last(stack))
               b == open[1]
    <3>1. keep' = Append(keep, w)
      BY <1>5, <2>4 DEF EndAtRule
    <3>2. Last(stack) = stack[1] /\ Last(stack) \in Opened
      BY <1>2, <1>3, <2>1, FrontIs
    <3>3. 1 \in 1..Len(open) /\ stack[1].id = b /\ stack[1].holds = Pairs(log, Directly(log, open, 1))
      <4>1. 1 \in 1..Len(open)
        BY <2>1
      <4> QED  BY <1>1, <4>1 DEF Deep, Gathered
    <3>4. Directly(log, open, 1) = Below(log, b)
      BY <2>1 DEF Directly
    <3>5. w \in PreservedBlock /\ w.id = b /\ w.holds = HeldIn(log, b)
      BY <1>1, <2>2, <2>4, <3>2, <3>3, <3>4, KeptIs, SheetAssumption DEF HeldIn
    <3> HIDE DEF w, b
    <3>6. /\ Ids(keep') = Append(Ids(keep), w.id)
          /\ \A x \in DOMAIN keep' : keep'[x] = w \/ (x \in DOMAIN keep /\ keep'[x] = keep[x])
      BY <3>1, <3>5, KeepAppends
    <3>7. Entries(log) /\ Blocks(log, open) /\ log' = log /\ open' = Front(open)
      BY <1>1 DEF Shape, Nesting, Closes
    <3>8. Listing(Len(log), Preserves(log, Front(open))) = Append(Listing(Len(log), Preserves(log, open)), b)
      BY <1>1, <2>1, <2>2, <2>4, <3>7, PreservesShrink DEF b
    <3>9. Listing(Len(log), TopSets(log, Front(open))) = Listing(Len(log), TopSets(log, open))
      BY <1>1, <3>7, TopSetsShrink
    <3>10. Ids(keep') = Listing(Len(log'), Preserves(log', open'))
      BY <3>5, <3>6, <3>7, <3>8 DEF Results
    <3>11. \A x \in DOMAIN keep' : keep'[x].holds = HeldIn(log', keep'[x].id)
      BY <3>5, <3>6, <3>7 DEF Results
    <3> QED  BY <1>1, <3>7, <3>9, <3>10, <3>11 DEF Results
  <2> QED  BY <2>3, <2>4
<1> QED  BY <1>4, <1>5

(* The end of a ruleset. *)
LEMMA ResultsEndRuleset ==
    ASSUME Shape, Gathered, Results, EndRuleset
    PROVE  Results'
<1> DEFINE b == Last(open)
           arms == ArmsOf(log, b)
<1>1. /\ Closes /\ InRuleset(log, open) /\ sel = b /\ open # <<>>
      /\ stack = <<>> => Len(open) = 1
      /\ stack # <<>> => Len(stack) > 1 /\ Deep(log, open, stack, atKind)
      /\ log[b].event = "ruleset" /\ b \in DOMAIN log
  <2>1. /\ Closes /\ InRuleset(log, open) /\ sel = b /\ open # <<>>
        /\ stack = <<>> => Len(open) = 1
        /\ stack # <<>> => Len(stack) > 1 /\ Deep(log, open, stack, atKind)
    BY EndRulesetStep DEF Closes
  <2>2. b = open[Len(open)] /\ b \in DOMAIN log
    BY <2>1, ShapeIs
  <2> QED  BY <2>1, <2>2 DEF InRuleset
<1>2. Entries(log) /\ Blocks(log, open) /\ log' = log /\ open' = Front(open)
  BY <1>1 DEF Shape, Nesting, Closes
<1>3. CASE stack # <<>>
  <2>1. rules' = rules /\ keep' = keep
    BY <1>3 DEF EndRuleset
  <2>2. Len(open) # 1
    BY <1>1, <1>3 DEF Deep
  <2> QED  BY <1>1, <2>1, <2>2, ResultsStay
<1>4. CASE stack = <<>>
  <2>1. FinishRuleset /\ Len(open) = 1
    BY <1>1, <1>4 DEF EndRuleset
  <2>2. Ids(decls) = BodyOf(log, b)
    BY <1>1, <1>4 DEF Gathered
  <2>3. decls \in Seq(Numbered) /\ rules \in Seq(Compiled)
    BY DEF Shape, TypeOK
  <2>4. decls = <<>> <=> BodyOf(log, b) = <<>>
    <3>1. Ids(decls) \in Seq(Nat) /\ Len(Ids(decls)) = Len(decls)
      BY <2>3, IdsIs
    <3> QED  BY <2>2, <2>3, <3>1
  <2>5. CASE decls = <<>>
    <3>1. rules' = rules /\ keep' = keep
      BY <2>1, <2>5 DEF FinishRuleset
    <3> QED  BY <1>1, <2>4, <2>5, <3>1, ResultsStay
  <2>6. CASE decls # <<>>
    <3> DEFINE new == compile(b, arms, decls)
               src == Listing(Len(log), TopSets(log, open))
               w == Written(b, decls)
    <3>1. /\ rules' = rules \o new
          /\ keep' = IF anyIgnored(arms) /\ PreservePseudos THEN Append(keep, w) ELSE keep
      BY <1>1, <2>1, <2>6 DEF FinishRuleset, ArmsOf
    <3>2. b \in Nat /\ arms \in Seq(Arm) /\ RulesOf(log, b) \in Seq(Listed)
      BY <1>1, <1>2, RulesOfIs
    <3>3. new \in Seq(Compiled)
      BY <2>3, <3>2, CompileIs
    <3>4. Shown(new) = RulesOf(log, b)
      BY <2>2, <2>3, <3>2, ShownCompile DEF RulesOf
    <3>5. Listing(Len(log), TopSets(log, Front(open))) = Append(src, b)
      BY <1>1, <1>2, <2>1, <2>4, <2>6, TopSetsShrink
    <3>6. /\ src \in Seq(Nat) /\ \A x \in DOMAIN src : RulesOf(log, src[x]) \in Seq(Listed)
      BY <1>2, SourcesAre
    <3> HIDE DEF new, src, w, b, arms
    <3>7. RulesOfAll(log, Append(src, b)) = RulesOfAll(log, src) \o RulesOf(log, b)
      BY <3>2, <3>6, RulesOfAllStep
    <3>8. Shown(rules') = Shown(rules) \o RulesOf(log, b)
      BY <2>3, <3>1, <3>3, <3>4, ShownConcat
    <3>9. Shown(rules') = RulesOfAll(log', Listing(Len(log'), TopSets(log', open')))
      BY <1>2, <3>5, <3>7, <3>8 DEF Results, src
    <3>10. Listing(Len(log), Preserves(log, Front(open))) =
              IF anyIgnored(arms) /\ PreservePseudos
              THEN Append(Listing(Len(log), Preserves(log, open)), b)
              ELSE Listing(Len(log), Preserves(log, open))
      BY <1>1, <1>2, <2>1, <2>4, <2>6, PreservesShrink DEF b, arms
    <3>11. CASE anyIgnored(arms) /\ PreservePseudos
      <4>1. keep' = Append(keep, w)
        BY <3>1, <3>11
      <4>2. w \in PreservedBlock /\ w.id = b /\ w.holds = {<<b, decls[x].id>> : x \in DOMAIN decls}
        <5>1. \A x \in DOMAIN decls : decls[x].id \in Nat
          <6>1. \A x \in DOMAIN decls : decls[x] \in Numbered
            BY <2>3, ElementOfSeq
          <6> QED  BY <6>1 DEF Numbered
        <5> QED  BY <3>2, <5>1 DEF w, Written, PreservedBlock, Holds
      <4>3. w.holds = HeldIn(log, b)
        <5>1. DOMAIN BodyOf(log, b) = DOMAIN decls /\ \A x \in DOMAIN decls : BodyOf(log, b)[x] = decls[x].id
          BY <2>2 DEF Ids, b
        <5>2. HeldIn(log, b) = {<<b, BodyOf(log, b)[x]>> : x \in DOMAIN BodyOf(log, b)}
          BY <1>1 DEF HeldIn, b
        <5> QED  BY <4>2, <5>1, <5>2
      <4>4. /\ Ids(keep') = Append(Ids(keep), w.id)
            /\ \A x \in DOMAIN keep' : keep'[x] = w \/ (x \in DOMAIN keep /\ keep'[x] = keep[x])
        BY <4>1, <4>2, KeepAppends
      <4>5. Ids(keep') = Listing(Len(log'), Preserves(log', open'))
        BY <1>2, <3>10, <3>11, <4>2, <4>4 DEF Results
      <4>6. \A x \in DOMAIN keep' : keep'[x].holds = HeldIn(log', keep'[x].id)
        BY <1>2, <4>2, <4>3, <4>4 DEF Results
      <4> QED  BY <3>9, <4>5, <4>6 DEF Results
    <3>12. CASE ~(anyIgnored(arms) /\ PreservePseudos)
      <4>1. keep' = keep
        BY <3>1, <3>12
      <4>2. Ids(keep') = Listing(Len(log'), Preserves(log', open'))
        BY <1>2, <3>10, <3>12, <4>1 DEF Results
      <4> QED  BY <1>2, <3>9, <4>1, <4>2 DEF Results
    <3> QED  BY <3>11, <3>12
  <2> QED  BY <2>5, <2>6
<1> QED  BY <1>3, <1>4

(* Of an empty text, nothing is inlined and nothing kept. *)
LEMMA InitResults == Init => Results
<1> SUFFICES ASSUME Init PROVE Results
  OBVIOUS
<1>1. log = <<>> /\ rules = <<>> /\ keep = <<>>
  BY DEF Init
<1>2. Len(log) = 0
  BY <1>1
<1>3. RulesOfAll(log, <<>>) = <<>>
  <2>1. [x \in DOMAIN <<>> |-> RulesOf(log, <<>>[x])] = <<>> /\ FlattenSeq(<<>>) = <<>>
    BY DEF FlattenSeq
  <2> QED  BY <2>1 DEF RulesOfAll
<1>4. Shown(<<>>) = <<>> /\ Ids(<<>>) = <<>> /\ DOMAIN <<>> = {}
  BY DEF Shown, Ids
<1> QED  BY <1>1, <1>2, <1>3, <1>4, ListingOfNone DEF Results

(* Every event leaves rules and kept blocks those of the finished part of the text. *)
LEMMA NextResults == Shape /\ Gathered /\ Results /\ [Next]_vars => Results'
<1> SUFFICES ASSUME Shape, Gathered, Results, [Next]_vars PROVE Results'
  OBVIOUS
<1>1. ASSUME NEW k \in AtKind, BeginAtRule(k) PROVE Results'
  <2>1. OpensBlock /\ ~Writes /\ rules' = rules /\ keep' = keep
    BY <1>1, BeginAtRuleStep, WritesOnly DEF BeginAtRule
  <2> QED  BY <2>1, ResultsGrow
<1>2. ASSUME NEW k \in AtKind, BodylessAtRule(k) PROVE Results'
  <2>1. Writes /\ log'[Here].event = "bodyless" /\ log'[Here].head = k /\ rules' = rules
    BY <1>2, BodylessAtRuleStep DEF BodylessAtRule
  <2>2. stack = <<>> <=> open = <<>>
    <3>1. stack = <<>> => open = <<>>
      BY <1>2, RuleListIs DEF BodylessAtRule
    <3>2. open = <<>> => stack = <<>>
      BY ShapeIs DEF Shallow, Deep
    <3> QED  BY <3>1, <3>2
  <2>3. keep' = IF open = <<>> /\ k \in Preserved THEN Append(keep, Kept(k, Block(Here))) ELSE keep
    BY <1>2, <2>2 DEF BodylessAtRule
  <2> QED  BY <2>1, <2>3, ResultsGrow
<1>3. ASSUME EndAtRule PROVE Results'
  BY <1>3, ResultsEndAtRule
<1>4. ASSUME NEW s \in Selectors, BeginRuleset(s) PROVE Results'
  <2>1. OpensBlock /\ ~Writes /\ rules' = rules /\ keep' = keep
    BY <1>4, BeginRulesetStep, WritesOnly DEF BeginRuleset
  <2> QED  BY <2>1, ResultsGrow
<1>5. ASSUME NEW blank \in BOOLEAN, Declaration(blank) PROVE Results'
  <2>1. Writes /\ log'[Here].event = "decl" /\ rules' = rules /\ keep' = keep
    BY <1>5, DeclarationStep DEF Declaration
  <2> QED  BY <2>1, ResultsGrow
<1>6. ASSUME CustomProperty PROVE Results'
  <2>1. Writes /\ log'[Here].event = "decl" /\ rules' = rules /\ keep' = keep
    BY <1>6, CustomPropertyStep DEF CustomProperty
  <2> QED  BY <2>1, ResultsGrow
<1>7. ASSUME EndRuleset PROVE Results'
  BY <1>7, ResultsEndRuleset
<1>8. ASSUME Stop \/ Done \/ UNCHANGED vars PROVE Results'
  BY <1>8 DEF Stop, Done, vars, Results
<1> QED  BY <1>1, <1>2, <1>3, <1>4, <1>5, <1>6, <1>7, <1>8 DEF Next

(***************************************************************************)
(* What the two properties below rest on: the shape of the state, what has *)
(* been gathered from the blocks that are open, and the results from those *)
(* that are closed.                                                        *)
(***************************************************************************)
THEOREM InductiveInvariant == Spec => [](Shape /\ Numbers /\ Gathered /\ Results)
<1>1. Init => Shape /\ Numbers /\ Gathered /\ Results
  BY InitShape, InitNumbers, InitGathered, InitResults
<1>2. Shape /\ Numbers /\ Gathered /\ Results /\ [Next]_vars => (Shape /\ Numbers /\ Gathered /\ Results)'
  BY NextShape, NextNumbers, NextGathered, NextResults
<1> QED  BY <1>1, <1>2, PTL DEF Spec

(***************************************************************************)
(* Every ruleset outside the at-rules becomes the rules its selector calls *)
(* for, with the declarations of its own body, in the order of the text,   *)
(* and nothing inside an at-rule becomes a rule.                           *)
(***************************************************************************)
THEOREM EveryRuleInlined == Spec => []InlinedAsWritten
<1>1. Shape /\ Results => InlinedAsWritten
  <2> SUFFICES ASSUME Shape, Results PROVE InlinedAsWritten
    OBVIOUS
  <2>1. InOrder(TopRulesets) = Listing(Len(log), TopSets(log, open)) /\ \A b : Body(b) = BodyOf(log, b)
    BY TextIs
  <2> DEFINE src == Listing(Len(log), TopSets(log, open))
  <2>2. Shown(rules) = RulesOfAll(log, src)
    BY DEF Results
  <2>3. RulesOfAll(log, src) = FlattenSeq([x \in DOMAIN src |->
             compile(src[x], Arms[log[src[x]].head], Body(src[x]))])
    BY <2>1 DEF RulesOfAll, RulesOf, ArmsOf
  <2> HIDE DEF src
  <2> QED  BY <2>1, <2>2, <2>3 DEF InlinedAsWritten, Shown, Ids, src
<1> QED  BY <1>1, InductiveInvariant, PTL

(***************************************************************************)
(* What cannot be inlined is kept whole: once, in the order of the text,   *)
(* with all that is nested in it, each thing in its own block.             *)
(***************************************************************************)
THEOREM EverythingElseKept == Spec => []PreservedAsWritten
<1>1. Shape /\ Results => PreservedAsWritten
  BY TextIs DEF Results, PreservedAsWritten, Ids
<1> QED  BY <1>1, InductiveInvariant, PTL

=============================================================================
