------------------------------ MODULE MCJournal ------------------------------
(* Three requests in flight; two missions compete for one period, one of    *)
(* them with a second entry that does not balance, a third has no proposal. *)
EXTENDS Journal, TLC

CONSTANTS m1, m2, m3

MCProposal == (m1 :> <<TRUE, TRUE>>) @@ (m2 :> <<TRUE, FALSE>>) @@ (m3 :> NoProposal)

Symmetry == Permutations(Users)
=============================================================================
