-------------------------------- MODULE Probe --------------------------------
(***************************************************************************)
(* The Xymon probe (xymon/server/ext): one zone over successive runs.  A   *)
(* run loads the cache file, takes the parent's delegation from it or from *)
(* the parent, asks each name server, keeps for each key how long the      *)
(* parent has had no DS for it (check_rollover of Checks.pm), and saves    *)
(* the cache.  The zone and its parent change meanwhile.                   *)
(*                                                                         *)
(* Time passes in Ticks: a timestamp in the file is represented by its age *)
(* or by what is left of it.  A report is green or an alarm, yellow and    *)
(* red.  The checks that keep nothing (algorithms, NSEC3, glue, NS set)    *)
(* may add one whenever a report is sent.  xymonlaunch does not start a    *)
(* run while another is under way.                                         *)
(***************************************************************************)
EXTENDS Integers, FiniteSets, Functions, TLC

CONSTANTS
  Keys,           \* keys, by tag, algorithm and the start of the digest
  Servers,        \* name servers, as numbers in the order of their names
  NSSets,         \* what the parent may delegate to
  InitialKeys,    \* those of the zone and its parent at first
  RequireSignals, \* zone_require_permanent_cds_cdnskey
  Warn,           \* the warning age of zone_rollover_ds_propagation_delay
  MaxTTL,         \* bound: TTLs of a delegation
  MaxChanges,     \* bound: changes of the zone and its parent
  MaxFaults       \* bound: failures and warnings of other checks

ASSUME KeysAssumption == InitialKeys \in (SUBSET Keys) \ {{}}
ASSUME ServersAssumption == Servers \subseteq Nat /\ Servers \in NSSets /\ NSSets \subseteq SUBSET Servers
ASSUME SignalsAssumption == RequireSignals \in BOOLEAN
ASSUME TimeAssumption == {Warn, MaxTTL} \subseteq Nat \ {0}
ASSUME BoundsAssumption == {MaxChanges, MaxFaults} \subseteq Nat

VARIABLES
  parent, child,  \* the DS and NS at the parent; the DNSKEY and CDS of the zone
  changes, faults,
  file,           \* the zone's entry in the cache file
  pc,
  color,          \* of the report so far
  zone_cache, zone_status,
  delegation,     \* parent_delegation
  todo,           \* the servers to ask
  collection,     \* ns_keytag_collection: what the servers have answered
  resolved,       \* observation: the timers this run has reason to stop
  report,         \* the color of the last report sent
  since           \* observation: ages of the last saved reasons to stop a timer

world == <<parent, child, changes>>
run == <<pc, color, zone_cache, zone_status, delegation, todo, collection, resolved>>
vars == <<world, faults, file, run, report, since>>

-----------------------------------------------------------------------------

Rules == {"absent_parent", "absent_parent_no_signal"}
Delegations == [ds : SUBSET Keys, ns : NSSets]
NoTimers == [t \in {} |-> 0]
NoCache == [ttl |-> 0, of |-> [ds |-> {}, ns |-> {}]]
NoEntry == [volatile |-> NoCache, permanent |-> NoTimers]

Older(age) == IF age < Warn THEN age + 1 ELSE Warn
AllOlder(timers) == [t \in DOMAIN timers |-> Older(timers[t])]
Shorter(cache) == [cache EXCEPT !.ttl = IF @ > 0 THEN @ - 1 ELSE 0]

Idle ==
  /\ pc' = "idle"
  /\ color' = "green"
  /\ zone_cache' = NoCache /\ zone_status' = NoTimers
  /\ delegation' = NoCache.of
  /\ todo' = {} /\ collection' = {} /\ resolved' = {}

Init ==
  /\ parent = [ds |-> InitialKeys, ns |-> Servers]
  /\ child = [dnskey |-> InitialKeys, signal |-> InitialKeys]
  /\ changes = 0 /\ faults = 0
  /\ file = NoEntry
  /\ pc = "idle"
  /\ color = "green"
  /\ zone_cache = NoCache /\ zone_status = NoTimers
  /\ delegation = NoCache.of
  /\ todo = {} /\ collection = {} /\ resolved = {}
  /\ report = "green"
  /\ since = [t \in Servers \X Keys |-> 0]

Fault == faults < MaxFaults /\ faults' = faults + 1

-----------------------------------------------------------------------------
(* The world.                                                              *)

Change ==
  /\ changes < MaxChanges
  /\ changes' = changes + 1
  /\ \/ parent' \in Delegations \ {parent} /\ UNCHANGED child
     \/ child' \in [dnskey : SUBSET Keys, signal : SUBSET Keys] \ {child}
        /\ UNCHANGED parent
  /\ UNCHANGED <<faults, file, run, report, since>>

Tick ==
  /\ file' = [volatile |-> Shorter(file.volatile), permanent |-> AllOlder(file.permanent)]
  /\ zone_cache' = Shorter(zone_cache)
  /\ zone_status' = AllOlder(zone_status)
  /\ since' = AllOlder(since)
  /\ UNCHANGED <<world, faults, pc, color, delegation, todo, collection, resolved, report>>

-----------------------------------------------------------------------------
(* A run.                                                                  *)

\* Mutant of Start: a delegation is used whatever its age.
StartWithExpired ==
  /\ pc = "idle"
  /\ pc' = "delegation"
  /\ zone_cache' = file.volatile
  /\ zone_status' = file.permanent
  /\ UNCHANGED <<world, faults, file, color, delegation, todo, collection, resolved,
                 report, since>>

\* An expired delegation is not used.
Start ==
  /\ pc = "idle"
  /\ pc' = "delegation"
  /\ zone_cache' = IF file.volatile.ttl > 0 THEN file.volatile ELSE NoCache
  /\ zone_status' = file.permanent
  /\ UNCHANGED <<world, faults, file, color, delegation, todo, collection, resolved,
                 report, since>>

\* Mutant of Judge: what is known of another server is kept.
JudgeUnpruned(d) ==
  /\ delegation' = d
  /\ IF d.ds = {} \/ d.ns = {}
       THEN /\ color' = "alarm" /\ pc' = "report"
            /\ UNCHANGED <<zone_status, todo, resolved>>
       ELSE /\ resolved' = (Servers \ d.ns) \X Keys
            /\ todo' = d.ns
            /\ pc' = "ask"
            /\ UNCHANGED <<zone_status, color>>

\* Without DS or NS the checks end, and the timers stay; else those of servers
\* that are no longer listed go.
Judge(d) ==
  /\ delegation' = d
  /\ IF d.ds = {} \/ d.ns = {}
       THEN /\ color' = "alarm" /\ pc' = "report"
            /\ UNCHANGED <<zone_status, todo, resolved>>
       ELSE /\ zone_status' =
                 Restrict(zone_status, {t \in DOMAIN zone_status : t[1] \in d.ns})
            /\ resolved' = (Servers \ d.ns) \X Keys
            /\ todo' = d.ns
            /\ pc' = "ask"
            /\ UNCHANGED color

UseCached ==
  /\ pc = "delegation"
  /\ zone_cache # NoCache
  /\ Judge(zone_cache.of)
  /\ UNCHANGED <<world, faults, file, zone_cache, collection, report, since>>

Fetch ==
  /\ pc = "delegation"
  /\ zone_cache = NoCache
  /\ \E ttl \in 1..MaxTTL : zone_cache' = [ttl |-> ttl, of |-> parent]
  /\ Judge(parent)
  /\ UNCHANGED <<world, faults, file, collection, report, since>>

\* Here too the timers stay.
FetchFails ==
  /\ pc = "delegation"
  /\ zone_cache = NoCache
  /\ Fault
  /\ color' = "alarm"
  /\ pc' = "report"
  /\ UNCHANGED <<world, file, zone_cache, zone_status, delegation, todo, collection,
                 resolved, report, since>>

\* check_rollover and tidy_status for server n, which has answered with these
\* keys and signals.
Rule(k, signal) == IF k \in signal THEN "absent_parent" ELSE "absent_parent_no_signal"
Missing(dnskey) == dnskey \ delegation.ds

Rollover(timers, n, dnskey, signal) ==
  LET running == {<<n, k, Rule(k, signal)>> : k \in Missing(dnskey)}
      others == {t \in DOMAIN timers : t[1] # n}
  IN [t \in others \cup running |-> IF t \in DOMAIN timers THEN timers[t] ELSE 0]

\* Nothing to warn of: only a key without DS has an age that matters.
Covered(timers, n, dnskey, signal) ==
  /\ delegation.ds \subseteq dnskey
  /\ signal \subseteq dnskey
  /\ RequireSignals => signal # {}
  /\ \A k \in Missing(dnskey) : timers[<<n, k, Rule(k, signal)>>] < Warn

IsNext(n) == n \in todo /\ \A m \in todo : n <= m

Answer(n, dnskey, signal) ==
  /\ pc = "ask" /\ IsNext(n)
  /\ dnskey # {}
  /\ zone_status' = Rollover(zone_status, n, dnskey, signal)
  /\ collection' = collection \cup {<<dnskey, signal>>}
  /\ resolved' = resolved \cup ({n} \X (Keys \ Missing(dnskey)))
  /\ todo' = todo \ {n}
  /\ UNCHANGED <<world, file, pc, zone_cache, delegation, report, since>>

Ask(n) ==
  /\ Answer(n, child.dnskey, child.signal)
  /\ color' = IF Covered(zone_status', n, child.dnskey, child.signal) THEN color ELSE "alarm"
  /\ UNCHANGED faults

\* The queries for CDS and CDNSKEY fail: a warning, and the checks go on without.
AskWithoutSignal(n) ==
  /\ Answer(n, child.dnskey, {})
  /\ Fault
  /\ color' = "alarm"

\* Mutant of AskFails: the server's timers go with its answer.
AskFailsAfresh(n) ==
  /\ pc = "ask" /\ IsNext(n)
  /\ IF child.dnskey = {} THEN UNCHANGED faults ELSE Fault
  /\ color' = "alarm"
  /\ zone_status' = Restrict(zone_status, {t \in DOMAIN zone_status : t[1] # n})
  /\ todo' = todo \ {n}
  /\ UNCHANGED <<world, file, pc, zone_cache, delegation, collection, resolved, report,
                 since>>

\* No address, no answer, no DNSKEY or no valid signature: "next", and the
\* timers stay.
AskFails(n) ==
  /\ pc = "ask" /\ IsNext(n)
  /\ IF child.dnskey = {} THEN UNCHANGED faults ELSE Fault
  /\ color' = "alarm"
  /\ todo' = todo \ {n}
  /\ UNCHANGED <<world, file, pc, zone_cache, zone_status, delegation, collection,
                 resolved, report, since>>

\* The servers that have answered must agree.  The guard sends the report.
Send ==
  /\ \/ pc = "report"
     \/ pc = "ask" /\ todo = {}
  /\ \/ /\ color' = IF Cardinality(collection) > 1 THEN "alarm" ELSE color
        /\ UNCHANGED faults
     \/ Fault /\ color' = "alarm"
  /\ report' = color'
  /\ pc' = "save"
  /\ delegation' = NoCache.of /\ collection' = {}
  /\ UNCHANGED <<world, file, zone_cache, zone_status, todo, resolved, since>>

\* Mutant of Save: the delegation is kept whatever the report was, and its TTL
\* counts from the save.
SaveAnew ==
  /\ pc = "save"
  /\ file' = [volatile |-> IF zone_cache = NoCache THEN NoCache
                           ELSE [zone_cache EXCEPT !.ttl = MaxTTL],
              permanent |-> zone_status]
  /\ since' = [t \in DOMAIN since |-> IF t \in resolved THEN 0 ELSE since[t]]
  /\ Idle
  /\ UNCHANGED <<world, faults, report>>

\* The delegation is kept if the report was green.
Save ==
  /\ pc = "save"
  /\ file' = [volatile |-> IF color = "green" THEN zone_cache ELSE NoCache,
              permanent |-> zone_status]
  /\ since' = [t \in DOMAIN since |-> IF t \in resolved THEN 0 ELSE since[t]]
  /\ Idle
  /\ UNCHANGED <<world, faults, report>>

\* nstore writes in place: what a killed or failing save leaves may not be read.
Kill ==
  /\ pc # "idle"
  /\ Fault
  /\ file' \in {file} \cup {f \in {NoEntry} : pc = "save"}
  /\ Idle
  /\ UNCHANGED <<world, report, since>>

\* A run without this zone in its list drops the zone from the file.
RunElsewhere ==
  /\ pc = "idle"
  /\ Fault
  /\ file' = NoEntry
  /\ UNCHANGED <<world, run, report, since>>

-----------------------------------------------------------------------------

Step ==
  \/ Start \/ UseCached \/ Fetch \/ FetchFails
  \/ \E n \in Servers : Ask(n) \/ AskWithoutSignal(n) \/ AskFails(n)
  \/ Send \/ Save

Next == Step \/ Tick \/ Change \/ Kill \/ RunElsewhere

Spec == Init /\ [][Next]_vars

\* Runs are started every five minutes and end, as queries time out.
Fairness == WF_vars(Step) /\ WF_vars(Tick)

LiveSpec == Spec /\ Fairness

-----------------------------------------------------------------------------
(* Properties.                                                             *)

Timers == Servers \X Keys \X Rules
IsStatus(f) == DOMAIN f \subseteq Timers /\ \A t \in DOMAIN f : f[t] \in 0..Warn
IsCache(c) == c = NoCache \/ c \in [ttl : 0..MaxTTL, of : Delegations]

\* Types of the variables.
TypeOK ==
  /\ parent \in Delegations
  /\ child \in [dnskey : SUBSET Keys, signal : SUBSET Keys]
  /\ changes \in 0..MaxChanges /\ faults \in 0..MaxFaults
  /\ IsCache(file.volatile) /\ IsStatus(file.permanent)
  /\ pc \in {"idle", "delegation", "ask", "report", "save"}
  /\ {color, report} \subseteq {"green", "alarm"}
  /\ IsCache(zone_cache) /\ IsStatus(zone_status)
  /\ delegation \in Delegations \cup {NoCache.of}
  /\ todo \subseteq Servers
  /\ collection \subseteq (SUBSET Keys) \X (SUBSET Keys)
  /\ resolved \subseteq Servers \X Keys
  /\ since \in [Servers \X Keys -> 0..Warn]

\* A rollover is never held to be older than it is: a timer of the file is not
\* older than the last finished run that found its key published or gone, or
\* its server out of the delegation, whatever failed since (Checks.pm:54-58,
\* 288-292, 329-344).  A key in its second rollover starts from nought.
TimersAreEarned ==
  \A t \in DOMAIN file.permanent : file.permanent[t] <= since[<<t[1], t[2]>>]

\* Nor younger: a run that cannot reach the parent or a server neither stops nor
\* restarts a timer (Checks.pm:40-43, 71-77); only an answer does, or the loss
\* of the file.
TimersSurvive ==
  [][\/ file' = NoEntry /\ faults' # faults
     \/ \A t \in DOMAIN file.permanent :
          \/ <<t[1], t[2]>> \in resolved
          \/ \E r \in Rules \ {t[3]} : <<t[1], t[2], r>> \in DOMAIN file'.permanent
          \/ t \in DOMAIN file'.permanent /\ file'.permanent[t] >= file.permanent[t]]_file

Aligned ==
  /\ parent.ns # {}
  /\ parent.ds # {} /\ parent.ds = child.dnskey
  /\ child.signal \subseteq child.dnskey
  /\ RequireSignals => child.signal # {}

\* Once a rollover has ended everywhere, the reports turn green and stay so: no
\* stale delegation keeps an alarm up (xymon-ext-dnssec:93-98, 121-125).
Recovers == <>[]Aligned => <>[](report = "green")

\* A defect that stays (a DS without its key, a key whose DS never comes, no
\* signal) is reported in the end, and in every report from then on: a cached
\* delegation hides it no longer than its TTL (xymon-ext-dnssec:93-98), and a
\* rollover that never ends gets old.
Reports == <>[]~Aligned => <>[](report = "alarm")
=============================================================================
