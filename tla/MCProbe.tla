------------------------------- MODULE MCProbe -------------------------------
(***************************************************************************)
(* One key at first and another to roll to, on two name servers, the       *)
(* second of which may leave the delegation and come back.                 *)
(***************************************************************************)
EXTENDS Probe

CONSTANTS k1, k2

MCKeys == {k1, k2}
MCInitialKeys == {k1}
MCServers == 1..2
MCNSSets == {{1}, {1, 2}}
=============================================================================
