----------------------------- MODULE MCRFC2136 -----------------------------
(* The DS sets of a rollover between two keys, over a third of either. *)
EXTENDS RFC2136

CONSTANTS d1, d2, d3

MCRecords == {d1, d2, d3}
MCWishes == {{d1}, {d1, d2}, {d2}, {d3}}
=============================================================================
