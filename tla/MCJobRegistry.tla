--------------------------- MODULE MCJobRegistry ---------------------------
(* Instances of JobRegistry for TLC. *)
EXTENDS JobRegistry, TLC

CONSTANTS e1, e2, e3, k1, k2, k3, k4, t1, t2, c1, c2, h1

MixedPolicy == (k1 :> "REPLACEABLE") @@ (k2 :> "PERMANENT")
               @@ (k3 :> "WINDOWED") @@ (k4 :> "ACTIVE_ONLY")

Symmetry == Permutations({e1, e2, e3}) \cup Permutations({t1, t2})
            \cup Permutations({c1, c2})
=============================================================================
