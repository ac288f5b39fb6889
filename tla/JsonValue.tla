------------------------------ MODULE JsonValue ------------------------------
(***************************************************************************)
(* What a JsonDocument promises: a tree of values.  Every operation names  *)
(* a value by its path and changes that value alone; an operation that     *)
(* runs out of memory leaves the value as it was or changed in part, in    *)
(* the ways listed here, and never touches another value.  There are no    *)
(* slots, links or pools: JsonCollections implements this.                 *)
(***************************************************************************)
EXTENDS Naturals, Sequences, FiniteSets, SequencesExt

CONSTANTS Key, Scalar, Index

VARIABLE doc

(* A value: its type and the items in it, each with its key ("" in arrays). *)
Plain(x) == [type |-> x, in |-> <<>>]
NullValue == Plain("null")

(* The value as an array or object: null becomes an empty one. *)
As(v, t) == IF v = NullValue THEN Plain(t) ELSE v

With(v, k, x) == [v EXCEPT !.in = Append(@, [key |-> k, value |-> x])]

(* What each operation can make of the value v. *)

Set(v) == {Plain(x) : x \in Scalar \cup {"null", "array", "object"}}

Add(v) ==
  LET a == As(v, "array")
  IN IF a.type # "array" THEN {}
     ELSE {a} \cup {With(a, "", Plain(x)) : x \in Scalar \cup {"null"}}

(* An index past the end adds nulls up to it, as far as there is memory. *)
Pad(v) ==
  LET a == As(v, "array")
      padded[n \in 0..Cardinality(Index)] ==
        IF n = 0 THEN a ELSE With(padded[n - 1], "", NullValue)
  IN IF a.type # "array" THEN {} ELSE {padded[n] : n \in 0..Cardinality(Index)}

AddMember(v) ==
  LET o == As(v, "object")
      new == {k \in Key : \A i \in DOMAIN o.in : o.in[i].key # k}
  IN IF o.type # "object" THEN {} ELSE {o} \cup {With(o, k, NullValue) : k \in new}

RemoveItem(v) == {[v EXCEPT !.in = RemoveAt(@, i)] : i \in DOMAIN v.in}

Outcomes(v) == Set(v) \cup Add(v) \cup Pad(v) \cup AddMember(v) \cup RemoveItem(v)

(* e is d with the value at one place, d itself or one below, changed by   *)
(* an operation.                                                           *)
RECURSIVE Step(_, _)
Step(d, e) ==
  \/ e \in Outcomes(d)
  \/ \E i \in DOMAIN d.in \cap DOMAIN e.in :
       /\ e = [d EXCEPT !.in[i].value = e.in[i].value]
       /\ Step(d.in[i].value, e.in[i].value)

----------------------------------------------------------------------------
Init == doc = NullValue

Next == \E d \in {doc}, e \in {doc'} : Step(d, e)

Spec == Init /\ [][Next]_doc
=============================================================================
