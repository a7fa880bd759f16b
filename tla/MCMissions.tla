----------------------------- MODULE MCMissions -----------------------------
(* Missions with interchangeable instances, clients and proposals.         *)
EXTENDS Missions, TLC

Symmetry == Permutations(Instances) \cup Permutations(Clients)
              \cup Permutations(Proposals)
=============================================================================
