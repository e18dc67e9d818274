------------------------------ MODULE MCOVHv1 ------------------------------
(***************************************************************************)
(* Two keys and the key sets of a rollover between them; two slots for     *)
(* DNSSEC tasks and another task of the domain that runs all the time.     *)
(***************************************************************************)
EXTENDS OVHv1

CONSTANTS k1, k2, t1, t2, x

MCKeys == {k1, k2}
MCKeySets == {{k1}, {k1, k2}, {k2}}
MCTaskIds == {t1, t2, x}
MCOtherTasks == {x}
=============================================================================
