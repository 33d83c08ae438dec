--------------------------- MODULE MCTokenEditing ---------------------------
(* A small instance of TokenEditing: two instances of one definition with    *)
(* two activities.                                                           *)
EXTENDS TokenEditing, TLC

CONSTANTS i1, i2, d1, a, b, r1, r2

\* Instances, activities and request slots are interchangeable.
Interchangeable ==
  Permutations({a, b}) \cup Permutations({i1, i2}) \cup Permutations({r1, r2})

MCDiagramOf == [i \in {i1, i2} |-> d1]
MCShown     == [d \in {d1} |-> {a, b}]
=============================================================================
