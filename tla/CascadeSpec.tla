---------------------------- MODULE CascadeSpec ----------------------------
(***************************************************************************)
(* What inlining promises for the declarations of one element: for every   *)
(* property the winner of the CSS cascade, together with the earlier       *)
(* declarations of the same rule the winner superseded, which are kept as  *)
(* fallbacks (`background: #fff; background: linear-gradient(...)`).       *)
(*                                                                         *)
(* The state is a map from properties to declarations; there is no arena,  *)
(* no packed key and no link between slots.  Module Cascade implements it. *)
(***************************************************************************)
EXTENDS Integers

CONSTANTS
    Prop,      \* the property names
    Decl,      \* the declarations an element may be offered
    FieldMax,  \* where a component of a specificity vector stops counting
    None       \* the absence of a declaration

VARIABLES
    best,       \* property -> the declaration that wins it so far, or None
    fallbacks   \* property -> superseded declarations of the winning rule

absVars == <<best, fallbacks>>

(***************************************************************************)
(* The cascade order.  Layers first: a stylesheet's normal declarations,   *)
(* the style attribute, a stylesheet's !important ones, the attribute's    *)
(* !important ones.  Then specificity, field by field.  Then source order. *)
(***************************************************************************)
Layer(d) == (IF d.inline THEN 1 ELSE 0) + (IF d.important THEN 2 ELSE 0)

Clamp(v) == IF v > FieldMax THEN FieldMax ELSE v

MoreSpecific(s, t) ==
    \/ Clamp(s[1]) > Clamp(t[1])
    \/ Clamp(s[1]) = Clamp(t[1]) /\ Clamp(s[2]) > Clamp(t[2])
    \/ Clamp(s[1]) = Clamp(t[1]) /\ Clamp(s[2]) = Clamp(t[2]) /\ Clamp(s[3]) > Clamp(t[3])

EquallySpecific(s, t) ==
    Clamp(s[1]) = Clamp(t[1]) /\ Clamp(s[2]) = Clamp(t[2]) /\ Clamp(s[3]) = Clamp(t[3])

Beats(d, e) ==
    \/ Layer(d) > Layer(e)
    \/ Layer(d) = Layer(e) /\ MoreSpecific(d.spec, e.spec)
    \/ Layer(d) = Layer(e) /\ EquallySpecific(d.spec, e.spec) /\ d.ord > e.ord

-----------------------------------------------------------------------------

AbsInit ==
    /\ best = [p \in Prop |-> None]
    /\ fallbacks = [p \in Prop |-> {}]

(* A declaration nothing beats takes its property; what the same rule said
   about the property before stays behind it. *)
Win(d) ==
    /\ best[d.prop] = None \/ Beats(d, best[d.prop])
    /\ best' = [best EXCEPT ![d.prop] = d]
    /\ fallbacks' = [fallbacks EXCEPT ![d.prop] =
           IF best[d.prop] # None /\ best[d.prop].rule = d.rule
           THEN @ \union {best[d.prop]}
           ELSE {}]

AbsNext == \E d \in Decl : Win(d)

AbsSpec == AbsInit /\ [][AbsNext]_absVars

=============================================================================
