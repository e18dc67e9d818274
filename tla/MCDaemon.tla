------------------------------ MODULE MCDaemon ------------------------------
(***************************************************************************)
(* Two zones and three configurations that move a zone between groups,     *)
(* change the plugin behind a group, and drop a zone.                      *)
(***************************************************************************)
EXTENDS Daemon

CONSTANTS z1, z2, g1, g2

MCZones == {z1, z2}
MCGroups == {g1, g2}
MCPlugins == {"ovh-v1", "rfc2136"}

BothInOne ==
  [owner |-> [z \in MCZones |-> g1],
   plugin |-> [g \in MCGroups |-> IF g = g1 THEN "ovh-v1" ELSE "rfc2136"]]
Moved == [BothInOne EXCEPT !.owner[z1] = g2]
Replaced ==
  [BothInOne EXCEPT !.owner[z2] = NoGroup, !.plugin[g1] = "rfc2136"]

MCConfigs == {BothInOne, Moved, Replaced}

\* Two raw states for one zone, to tell an older one from the latest.
MCTokensOf == [z \in MCZones |-> IF z = z1 THEN {"a", "b"} ELSE {"a"}]
=============================================================================
