----------------------------- MODULE MCLimiter -----------------------------
(* Five callers, so that three wait in line for two slots. *)
EXTENDS Limiter

CONSTANTS c1, c2, c3, c4, c5

MCCallers == {c1, c2, c3, c4, c5}
=============================================================================
