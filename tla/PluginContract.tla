---------------------------- MODULE PluginContract ----------------------------
(***************************************************************************)
(* What internal/plugin/plugin.go promises a plugin of its host: a global  *)
(* object is initialised once, a group instance is made only of one that   *)
(* is, Update is called only on an instance that is not closed, and what   *)
(* is closed is not in use.  One zone has at most one Update at a time,    *)
(* which no comment says but on which the plugins' reads before a write    *)
(* rely.  The process may end at any time.                                 *)
(***************************************************************************)
CONSTANTS Plugins, Groups, Names

VARIABLES
  global,  \* the plugins whose global object is initialised
  group,   \* the group instances: pairs of a group and its plugin
  calls    \* the Updates under way: pairs of a group and a zone

vars == <<global, group, calls>>

Nothing == global = {} /\ group = {} /\ calls = {}

InitGlobal(p) ==
  /\ p \notin global
  /\ global' = global \cup {p}
  /\ UNCHANGED <<group, calls>>

NewGroup(g, p) ==
  /\ p \in global
  /\ \A q \in Plugins : <<g, q>> \notin group
  /\ group' = group \cup {<<g, p>>}
  /\ UNCHANGED <<global, calls>>

Update(g, n) ==
  /\ \E p \in global : <<g, p>> \in group
  /\ \A h \in Groups : <<h, n>> \notin calls
  /\ calls' = calls \cup {<<g, n>>}
  /\ UNCHANGED <<global, group>>

Return(g, n) ==
  /\ <<g, n>> \in calls
  /\ calls' = calls \ {<<g, n>>}
  /\ UNCHANGED <<global, group>>

CloseGroup(g, p) ==
  /\ <<g, p>> \in group
  /\ \A n \in Names : <<g, n>> \notin calls
  /\ group' = group \ {<<g, p>>}
  /\ UNCHANGED <<global, calls>>

CloseGlobal(p) ==
  /\ p \in global
  /\ \A g \in Groups : <<g, p>> \notin group
  /\ global' = global \ {p}
  /\ UNCHANGED <<group, calls>>

Exit == global' = {} /\ group' = {} /\ calls' = {}

Next ==
  \/ \E p \in Plugins : InitGlobal(p) \/ CloseGlobal(p)
  \/ \E g \in Groups, p \in Plugins : NewGroup(g, p) \/ CloseGroup(g, p)
  \/ \E g \in Groups, n \in Names : Update(g, n) \/ Return(g, n)
  \/ Exit

Spec == Nothing /\ [][Next]_vars
=============================================================================
