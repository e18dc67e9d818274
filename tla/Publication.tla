---------------------------- MODULE Publication ----------------------------
(***************************************************************************)
(* What the daemon is for, seen from the parent.  A signer changes its     *)
(* wish once the parent has the last one; from then on the published DS    *)
(* set is on its way between the two: what both wishes have stays          *)
(* published, and nothing is published that neither has.                   *)
(***************************************************************************)
CONSTANT Wishes

VARIABLES
  want,       \* the zone's wish
  last,       \* the wish before, whose keys the zone may still have
  published   \* the DS set at the parent

Init == want \in Wishes /\ last \in Wishes /\ published \in {want, last}

\* The zone turns from its wish, which is published, to another or to its keys alone.
Turn ==
  /\ published = want
  /\ want' \in Wishes
  /\ last' = want
  /\ UNCHANGED published

Publish ==
  /\ published' \in SUBSET (want \cup last)
  /\ want \cap last \subseteq published'
  /\ UNCHANGED <<want, last>>

Next == Turn \/ Publish

Spec == Init /\ [][Next]_<<want, last, published>>
=============================================================================
