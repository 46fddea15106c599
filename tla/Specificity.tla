---------------------------- MODULE Specificity ----------------------------
(***************************************************************************)
(* Packed specificity keys (props.go, packKey and sat).                    *)
(*                                                                         *)
(* A declaration is ranked by one machine word with four fields: priority, *)
(* ids, classes and types.  Each field is clamped before it is placed, so  *)
(* that a selector with more simple selectors of one kind than a field can *)
(* hold does not spill into the field above it.                            *)
(*                                                                         *)
(* FieldMax is 0xFFFF in the code.  It is a parameter so that TLC can      *)
(* reach the limit with small numbers.  All that is needed of it is that   *)
(* the four priorities, 0 to 3, stay apart.                                *)
(***************************************************************************)
EXTENDS Integers

CONSTANT FieldMax  \* the largest value of one field of a packed key

ASSUME FieldMaxAssumption == FieldMax \in Nat /\ FieldMax >= 3

(* One field's worth of room: a shift by 16 bits in the code. *)
FieldSize == FieldMax + 1

(* Clamp v into one field. *)
sat(v) == IF v < 0 THEN 0 ELSE IF v > FieldMax THEN FieldMax ELSE v

(* x shifted by one field, with the value v in the field it frees. *)
Place(x, v) == x * FieldSize + v

(* Mutant of packKey: the fields are placed without being clamped. *)
packKey_Spills(prio, spec) ==
    Place(Place(Place(prio, spec[1]), spec[2]), spec[3])

(* The packed key.  spec is the vector <<ids, classes, types>>. *)
packKey(prio, spec) ==
    Place(Place(Place(sat(prio), sat(spec[1])), sat(spec[2])), sat(spec[3]))

=============================================================================
