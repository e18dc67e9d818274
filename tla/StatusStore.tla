---------------------------- MODULE StatusStore ----------------------------
(***************************************************************************)
(* What the status store promises the runners: changes in memory, a Save   *)
(* that writes all of it at one instant or fails and writes nothing, and a *)
(* Load that returns what was last saved, pruned, or nothing if the file   *)
(* cannot be read.  Daemon is built on these steps.                        *)
(***************************************************************************)
CONSTANTS Zones, States, None

VARIABLES data, saved

Empty == [z \in Zones |-> None]

Init == data = Empty /\ saved = Empty

Change(z, s) ==
  /\ data' = [data EXCEPT ![z] = s]
  /\ UNCHANGED saved

Save ==
  /\ saved' = data
  /\ UNCHANGED data

\* A new Store, after a crash or on a reload.
Reopen ==
  /\ \E valid \in SUBSET Zones :
       \/ data' = [z \in Zones |-> IF z \in valid THEN saved[z] ELSE None]
       \/ data' = Empty
  /\ UNCHANGED saved

Next ==
  \/ \E z \in Zones, s \in States \cup {None} : Change(z, s)
  \/ Save
  \/ Reopen

Spec == Init /\ [][Next]_<<data, saved>>
=============================================================================
