--------------------------- MODULE MCJobPipeline ---------------------------
(* Instances of JobPipeline for TLC. *)
EXTENDS JobPipeline, TLC

CONSTANTS e1, e2, k1, r1, r2, l1, l2, s1, s2, h1

PermanentPolicy == [k \in {k1} |-> "PERMANENT"]
ReplaceablePolicy == [k \in {k1} |-> "REPLACEABLE"]

Symmetry == Permutations({e1, e2}) \cup Permutations({r1, r2})
            \cup Permutations({l1, l2}) \cup Permutations({s1, s2})
=============================================================================
