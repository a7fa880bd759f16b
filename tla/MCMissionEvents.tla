---------------------------- MODULE MCMissionEvents ----------------------------
(* Three appends and two clients; no symmetry, because liveness is checked. *)
EXTENDS MissionEvents

CONSTANTS a1, a2, a3, s1, s2

MCAppends == {a1, a2, a3}
MCStreams == {s1, s2}
=============================================================================
