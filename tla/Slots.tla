------------------------------- MODULE Slots -------------------------------
(***************************************************************************)
(* What a concurrency limiter promises: never more than Limit callers are  *)
(* at work.  A slot that is given back may go straight to the next caller. *)
(***************************************************************************)
EXTENDS Naturals, FiniteSets

CONSTANTS Callers, Limit

VARIABLE busy    \* the callers that hold a slot

Init == busy = {}

Take(c) ==
  /\ c \notin busy
  /\ Cardinality(busy) < Limit
  /\ busy' = busy \cup {c}

Give(c) ==
  /\ c \in busy
  /\ busy' = busy \ {c}

Pass(c, d) ==
  /\ c \in busy
  /\ d \notin busy
  /\ busy' = (busy \ {c}) \cup {d}

Next == \E c \in Callers : Take(c) \/ Give(c) \/ \E d \in Callers : Pass(c, d)

Spec == Init /\ [][Next]_busy
=============================================================================
