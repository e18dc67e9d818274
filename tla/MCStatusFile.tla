---------------------------- MODULE MCStatusFile ----------------------------
(* Two runners, so that one saves while the other changes its entry or saves. *)
EXTENDS StatusFile

CONSTANTS z1, z2, s1, s2

MCZones == {z1, z2}
MCStates == {s1, s2}
=============================================================================
