----------------------------- MODULE Variables -----------------------------
(***************************************************************************)
(* Custom property resolution (variables.go): resolveVariables walks the   *)
(* elements some rule matched and has substitute splice a value into every *)
(* var() reference of every ordinary declaration.                          *)
(*                                                                         *)
(* substitute is recursive; its activations are the records of frames,     *)
(* innermost last.  A value is a sequence of the pieces its scan finds:    *)
(* plain text, a var() reference, or a var( whose parenthesis is never     *)
(* closed, which parenEnd takes to reach to the end of the value.  Such a  *)
(* piece holds the name and the fallback splitVarArgs reads in it, and     *)
(* whether the value's last byte is a ")": var(--a, var(--b) is one that   *)
(* closes so, and its fallback is one that does not.                       *)
(***************************************************************************)
EXTENDS Naturals, Sequences, SequencesExt

CONSTANTS
    Property,        \* property names
    CustomProperty,  \* those that start with "--"
    Name,            \* the names a reference may hold
    Piece,           \* the pieces values are made of
    NoFallback,      \* the fallback of a reference without one
    Pages,           \* documents, with the property map of each element
    maxVarDepth      \* 16 in the code

Value == Seq(Piece)

(* A var( that is never closed leaves nothing behind it. *)
AsRead(v) == \A x \in DOMAIN v : v[x].kind = "unclosed" => x = Len(v)

SlotOf == [prop : Property, value : Value, dead : BOOLEAN]

(* A document is a tree of elements numbered in document order; parent[n] is
   0 at the root.  byNode gives the property map of the elements some rule
   matched, in which a property has one live slot (module CascadeProofs,
   lemma FindLive). *)
IsPage(p) ==
    /\ p.parent \in Seq(Nat)
    /\ \A n \in DOMAIN p.parent : p.parent[n] \in 0..n - 1
    /\ DOMAIN p.byNode \subseteq DOMAIN p.parent
    /\ \A n \in DOMAIN p.byNode :
          /\ p.byNode[n] \in Seq(SlotOf)
          /\ \A k \in DOMAIN p.byNode[n] : AsRead(p.byNode[n][k].value)
          /\ \A k, l \in DOMAIN p.byNode[n] :
                /\ p.byNode[n][k].prop = p.byNode[n][l].prop
                /\ ~p.byNode[n][k].dead /\ ~p.byNode[n][l].dead
                => k = l

ASSUME PieceAssumption ==
    \A x \in Piece :
        /\ x.kind \in {"text", "ref", "unclosed"}
        /\ x.kind # "text" => x.name \in Name /\ x.fallback \in Value \union {NoFallback}
        /\ x.kind # "text" /\ x.fallback # NoFallback => AsRead(x.fallback)
        /\ x.kind = "unclosed" => x.closes \in BOOLEAN

(* No reference names an ordinary property.  The code would find one, and what
   resolution has written into it by then. *)
ASSUME NameAssumption == Name \intersect Property \subseteq CustomProperty

ASSUME PagesAssumption ==
    /\ CustomProperty \subseteq Property
    /\ maxVarDepth \in Nat
    /\ \A p \in Pages : IsPage(p)

VARIABLES
    parent,    \* the tree
    declared,  \* the property maps resolveVariables is given
    byNode,    \* the property maps now
    node,      \* the element whose slots are being resolved
    slot,      \* the slot being resolved
    frames     \* the activations of substitute

vars == <<parent, declared, byNode, node, slot, frames>>

-----------------------------------------------------------------------------

Opening(x) == x.kind \in {"ref", "unclosed"}

(* A var( that does not end in a ")": not a usable span. *)
Stuck(x) == x.kind = "unclosed" /\ ~x.closes

Usable(x) == Opening(x) /\ ~Stuck(x)

HasVar(v) == \E x \in DOMAIN v : Opening(v[x])

(* The live slots of a property in a map: at most one (module Cascade). *)
Live(s, name) == {k \in DOMAIN s : ~s[k].dead /\ s[k].prop = name}

(* An element with its ancestors. *)
Line(n) == LET up[k \in 0..n] == IF k = 0 THEN {} ELSE {k} \union up[parent[k]] IN up[n]

(* The elements lookupVar may stop at: an element no rule matched has no map. *)
Holders(m, n, name) == {e \in Line(n) : e \in DOMAIN m /\ Live(m[e], name) # {}}

(* The nearest of them, which is the last in document order. *)
Nearest(m, n, name) ==
    {e \in Holders(m, n, name) : \A f \in Holders(m, n, name) : f <= e}

(* The value of a property on the element itself or its nearest ancestor
   that has it; none if there is no such element. *)
lookupVar(m, n, name) ==
    UNION {{m[e][k].value : k \in Live(m[e], name)} : e \in Nearest(m, n, name)}

(* What a reference is replaced by. *)
Referent(m, n, ref) ==
    IF lookupVar(m, n, ref.name) # {} THEN lookupVar(m, n, ref.name)
    ELSE {ref.fallback} \ {NoFallback}

-----------------------------------------------------------------------------

Init ==
    /\ \E p \in Pages : parent = p.parent /\ declared = p.byNode
    /\ byNode = declared
    /\ node = 1
    /\ slot = 1
    /\ frames = <<>>

Slots == IF node \in DOMAIN byNode THEN byNode[node] ELSE <<>>

Current == byNode[node][slot]

(* Mutant of Eligible: superseded slots are passed over, though a fallback
   declaration is one. *)
Eligible_LiveOnly ==
    /\ ~Current.dead
    /\ Current.prop \notin CustomProperty
    /\ HasVar(Current.value)

Eligible == Current.prop \notin CustomProperty /\ HasVar(Current.value)

Idle == frames = <<>> /\ node \in DOMAIN parent

NextNode ==
    /\ Idle
    /\ slot > Len(Slots)
    /\ node' = node + 1
    /\ slot' = 1
    /\ UNCHANGED <<parent, declared, byNode, frames>>

(* A custom property, and a value without var(), are left alone. *)
SkipSlot ==
    /\ Idle
    /\ slot <= Len(Slots)
    /\ ~Eligible
    /\ slot' = slot + 1
    /\ UNCHANGED <<parent, declared, byNode, node, frames>>

Activation(v, depth) == [out |-> v, from |-> 1, depth |-> depth]

StartSlot ==
    /\ Idle
    /\ slot <= Len(Slots)
    /\ Eligible
    /\ frames' = <<Activation(Current.value, 0)>>
    /\ UNCHANGED <<parent, declared, byNode, node, slot>>

F == Last(frames)

(* Where the innermost activation finds the next var(; 0 if nowhere. *)
at == SelectInSubSeq(F.out, F.from, Len(F.out), Opening)

Found == at # 0 /\ Usable(F.out[at])

(* Mutant of CapReached: the depth is not looked at. *)
CapReached_Never == FALSE

CapReached == F.depth > maxVarDepth

(* The activation returns: too deep, nothing left to replace, or a var( that is
   not a usable span. *)
Returns == frames # <<>> /\ (CapReached \/ ~Found)

Splice(v, k, w) == SubSeq(v, 1, k - 1) \o w \o SubSeq(v, k + 1, Len(v))

(* Mutant of Resume: the scan resumes at what was spliced in. *)
Resume_Rescans(f, k, w) == [f EXCEPT !.out = Splice(@, k, w), !.from = k]

(* The caller replaces its reference at k by w and goes on behind it. *)
Resume(f, k, w) == [f EXCEPT !.out = Splice(@, k, w), !.from = k + Len(w)]

(* The caller's pending reference. *)
Pending(f) == SelectInSubSeq(f.out, f.from, Len(f.out), Opening)

ReturnToCaller ==
    /\ Returns
    /\ Len(frames) > 1
    /\ LET below == Front(frames)
           f == Last(below)
       IN frames' = [below EXCEPT ![Len(below)] = Resume(f, Pending(f), F.out)]
    /\ UNCHANGED <<parent, declared, byNode, node, slot>>

FinishSlot ==
    /\ Returns
    /\ Len(frames) = 1
    /\ byNode' = [byNode EXCEPT ![node][slot].value = F.out]
    /\ frames' = <<>>
    /\ slot' = slot + 1
    /\ UNCHANGED <<parent, declared, node>>

(* A reference that resolves, or has a fallback, is substituted in turn. *)
Descend ==
    /\ frames # <<>>
    /\ ~CapReached
    /\ Found
    /\ \E v \in Referent(byNode, node, F.out[at]) :
          frames' = Append(frames, Activation(v, F.depth + 1))
    /\ UNCHANGED <<parent, declared, byNode, node, slot>>

(* Mutant of PassOver: the reference left in place is found again. *)
PassOver_Stuck ==
    /\ frames # <<>>
    /\ ~CapReached
    /\ Found
    /\ Referent(byNode, node, F.out[at]) = {}
    /\ frames' = [frames EXCEPT ![Len(frames)].from = at]
    /\ UNCHANGED <<parent, declared, byNode, node, slot>>

(* One that does not is left in place. *)
PassOver ==
    /\ frames # <<>>
    /\ ~CapReached
    /\ Found
    /\ Referent(byNode, node, F.out[at]) = {}
    /\ frames' = [frames EXCEPT ![Len(frames)].from = at + 1]
    /\ UNCHANGED <<parent, declared, byNode, node, slot>>

Finished == frames = <<>> /\ node \notin DOMAIN parent

Done == Finished /\ UNCHANGED vars

Next ==
    \/ NextNode
    \/ SkipSlot
    \/ StartSlot
    \/ ReturnToCaller
    \/ FinishSlot
    \/ Descend
    \/ PassOver
    \/ Done

Spec == Init /\ [][Next]_vars

(* The code is sequential and no step of it waits for anything. *)
FairSpec == Spec /\ WF_vars(Next)

-----------------------------------------------------------------------------
(* What substitution means, without splicing or a position: the expansion of *)
(* a value is that of its pieces, one after the other, up to a var( that is  *)
(* not a usable span.                                                        *)

Fallbacks == {x.fallback : x \in {x \in Piece : Usable(x)}} \ {NoFallback}

(* The texts an expansion may run into: fallbacks, and those declared. *)
Texts ==
    Fallbacks \union
    UNION {{declared[n][x].value : x \in DOMAIN declared[n]} : n \in DOMAIN declared}

(* The expansion of text v on element n, given that of every text one
   activation deeper. *)
Expanded(deeper, n, v) ==
    FlattenSeq([x \in DOMAIN v |->
        IF \/ \E y \in 1..x : Stuck(v[y])
           \/ ~Usable(v[x]) \/ Referent(declared, n, v[x]) = {}
        THEN <<v[x]>>
        ELSE deeper[CHOOSE w \in Referent(declared, n, v[x]) : TRUE]])

(* The expansions on element n, k activations before the cap. *)
Expansion(n) ==
    LET expand[k \in 0..maxVarDepth + 1] ==
            [v \in Texts |-> IF k = 0 THEN v ELSE Expanded(expand[k - 1], n, v)]
    IN expand[maxVarDepth + 1]

-----------------------------------------------------------------------------
(* Properties *)

(* The shape of the state.  Activations nest no deeper than the cap allows,
   however custom properties refer to one another. *)
TypeOK ==
    /\ DOMAIN byNode = DOMAIN declared
    /\ \A n \in DOMAIN byNode : byNode[n] \in Seq(SlotOf) /\ Len(byNode[n]) = Len(declared[n])
    /\ node \in 1..Len(parent) + 1
    /\ slot \in Nat \ {0}
    /\ \A x \in DOMAIN frames :
          /\ frames[x].out \in Value
          /\ frames[x].from \in 1..Len(frames[x].out) + 1
          /\ frames[x].depth = x - 1
    /\ Len(frames) <= maxVarDepth + 2

(***************************************************************************)
(* When resolution ends, every ordinary declaration has the expansion of   *)
(* the value declared, computed from the maps as they were before any      *)
(* substitution.  Splicing in place, resuming behind what was spliced in,  *)
(* leaving references in place and visiting other slots and elements first *)
(* make no difference; custom properties keep the values declared.         *)
(***************************************************************************)
ResolvedIsExpansion ==
    Finished => \A n \in DOMAIN byNode :
        LET expand == Expansion(n) IN
        \A x \in DOMAIN byNode[n] :
            byNode[n][x].value =
                IF declared[n][x].prop \in CustomProperty THEN declared[n][x].value
                ELSE expand[declared[n][x].value]

(* The texts from which k references can be followed on element n, each in
   what the one before it stands for. *)
Chained(n) ==
    LET chained[k \in 0..maxVarDepth + 2] ==
            {v \in Texts : k > 0 => \E x \in DOMAIN v :
                 /\ Usable(v[x])
                 /\ \E w \in Referent(declared, n, v[x]) : w \in chained[k - 1]}
    IN chained

(* One more reference than there are activations to replace one. *)
TooDeep(n) == Chained(n)[maxVarDepth + 2]

(***************************************************************************)
(* A reference survives only for a reason: a chain of references longer    *)
(* than the cap, such as a cycle, a var( before it that is never closed in *)
(* a value that does not end in ")", or a name that nothing up the tree    *)
(* declares and that has no fallback.  Otherwise no mail client is left a  *)
(* var() that the stylesheet defines, one written without its closing      *)
(* parenthesis included, whatever else the value, the element or the page  *)
(* refers to.                                                              *)
(***************************************************************************)
NoneResolvableLeft ==
    Finished =>
        \A n \in DOMAIN byNode : \A x \in DOMAIN byNode[n] :
            /\ declared[n][x].prop \notin CustomProperty
            /\ declared[n][x].value \notin TooDeep(n)
            => LET v == byNode[n][x].value IN
               \A y \in DOMAIN v :
                   Usable(v[y]) /\ (\A z \in 1..y : ~Stuck(v[z]))
                   => Referent(declared, n, v[y]) = {}

(***************************************************************************)
(* "Resolution here is depth-capped" (README): it ends, also when custom   *)
(* properties refer to one another in a circle.                            *)
(***************************************************************************)
ResolutionEnds == <>Finished

=============================================================================
