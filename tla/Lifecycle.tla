------------------------------ MODULE Lifecycle ------------------------------
(***************************************************************************)
(* The life of the process around its runners: config.Load, which reads    *)
(* the main file and then those of conf.d one by one while the operator    *)
(* may be editing them, the start of runOnce (internal/core/engine.go)     *)
(* with the global and group objects of the plugins, a signal, the drain,  *)
(* the closing, and the next Load on SIGHUP.  Any step may fail and the    *)
(* process may be killed.  What runners do but call Update is Daemon's.    *)
(***************************************************************************)
EXTENDS Configuration

CONSTANTS
  ConfD,      \* the files of conf.d, as numbers in the order of their names
  NotToml,    \* those of other names than *.toml
  Contents,   \* for each file (0: the main one) what it may hold
  Absent,     \* a file that does not exist
  Unreadable, \* one that cannot be opened or parsed
  MaxEdits    \* bound: changes of the operator

ASSUME FilesAssumption == ConfD \subseteq Nat \ {0} /\ NotToml \subseteq ConfD
ASSUME EditsAssumption == MaxEdits \in Nat
ASSUME ContentsAssumption ==
  \A f \in {0} \cup ConfD : \A c \in Contents[f] \ {Absent, Unreadable} : IsSettings(c)

VARIABLES
  files, edits,  \* the operator's
  phase,
  settings,      \* the settings viper holds
  todo,          \* mergeConfD: the entries still to merge
  cfg,           \* Engine.cfg
  sig,
  global,        \* pluginGlobals
  slots,         \* the capacity of the OVH plugin's limiter
  instance,      \* groupPlugins: for each open group, what its instance was given
  runners,       \* the runners that have not returned
  busy,          \* those in Update
  seen           \* observation: the files merged, as they were then

load == <<settings, todo, seen>>
plugins == <<global, slots, instance>>
open == DOMAIN instance
vars == <<files, edits, phase, load, cfg, sig, plugins, runners, busy>>

Sources == {0} \cup ConfD
Registered == {OVH, RFC2136}
Empty == [s \in {} |-> 0]
NoConfig == [dns_timeout |-> 0, groups |-> Empty, plugins |-> Empty]

Starting == {"main", "list", "merge", "init", "groups"}
Phases == Starting \cup {"down", "running", "draining"}

Init ==
  /\ files \in [Sources -> UNION {Contents[f] : f \in Sources}]
  /\ \A f \in Sources : files[f] \in Contents[f]
  /\ edits = 0
  /\ phase = "down"
  /\ settings = Empty /\ todo = {} /\ seen = Empty
  /\ cfg = NoConfig
  /\ sig = "none"
  /\ global = {} /\ slots = 0 /\ instance = Empty
  /\ runners = {} /\ busy = {}

-----------------------------------------------------------------------------
(* config.Load.                                                            *)

Readable(f) == files[f] \notin {Absent, Unreadable}

BeginLoad ==
  /\ phase' = "main"
  /\ settings' = Empty /\ todo' = {} /\ seen' = Empty

\* The process is gone, and all it held.
Ended ==
  /\ phase' = "down"
  /\ settings' = Empty /\ todo' = {} /\ seen' = Empty
  /\ cfg' = NoConfig
  /\ sig' = "none"
  /\ global' = {} /\ slots' = 0 /\ instance' = Empty
  /\ runners' = {} /\ busy' = {}
  /\ UNCHANGED <<files, edits>>

Boot ==
  /\ phase = "down"
  /\ BeginLoad
  /\ UNCHANGED <<files, edits, cfg, sig, plugins, runners, busy>>

ReadMain ==
  /\ phase = "main"
  /\ Readable(0)
  /\ settings' = Merge(settings, files[0])
  /\ seen' = [f \in {0} |-> files[0]]
  /\ phase' = "list"
  /\ UNCHANGED <<files, edits, todo, cfg, sig, plugins, runners, busy>>

\* os.ReadDir; without a conf.d there is nothing to merge.
ListConfD ==
  /\ phase = "list"
  /\ todo' = {f \in ConfD \ NotToml : files[f] # Absent}
  /\ phase' = "merge"
  /\ UNCHANGED <<files, edits, settings, seen, cfg, sig, plugins, runners, busy>>

IsNext(f) == f \in todo /\ \A h \in todo : f <= h

MergeFile(f) ==
  /\ phase = "merge"
  /\ IsNext(f)
  /\ Readable(f)
  /\ settings' = Merge(settings, files[f])
  /\ seen' = [h \in DOMAIN seen \cup {f} |-> IF h = f THEN files[f] ELSE seen[h]]
  /\ todo' = todo \ {f}
  /\ UNCHANGED <<files, edits, phase, cfg, sig, plugins, runners, busy>>

\* None if a setting does not decode or validate refuses the configuration.
Loaded ==
  {c \in {Resolve(e) : e \in {e \in {Effective(settings)} : Decodable(e)}} : Valid(c)}

Accept ==
  /\ phase = "merge"
  /\ todo = {}
  /\ cfg' \in Loaded
  /\ phase' = "init"
  /\ settings' = Empty
  /\ UNCHANGED <<files, edits, todo, seen, sig, plugins, runners, busy>>

\* An error of Load ends the process, at its start as on a reload.
LoadFails ==
  /\ \/ phase = "main" /\ ~Readable(0)
     \/ phase = "list"
     \/ phase = "merge" /\ \E f \in todo : IsNext(f) /\ ~Readable(f)
     \/ phase = "merge" /\ todo = {} /\ Loaded = {}
  /\ Ended

-----------------------------------------------------------------------------
(* runOnce: the plugins' objects.                                          *)

Used == {cfg.groups[g].plugin : g \in DOMAIN cfg.groups}
PluginOf(g) == cfg.groups[g].plugin
OptionsOf(g) == cfg.groups[g].plugin_config

InitPlugin(p, n) ==
  /\ phase = "init"
  /\ p \in Used \ global
  /\ n \in InitResults(p, cfg.plugins[p])
  /\ global' = global \cup {p}
  /\ slots' = IF p = OVH THEN n ELSE slots
  /\ UNCHANGED <<files, edits, phase, load, cfg, sig, instance, runners, busy>>

InitDone ==
  /\ phase = "init"
  /\ Used \subseteq global
  /\ phase' = "groups"
  /\ UNCHANGED <<files, edits, load, cfg, sig, plugins, runners, busy>>

NewGroup(g) ==
  /\ phase = "groups"
  /\ g \in DOMAIN cfg.groups \ open
  /\ \E result \in GroupResults(PluginOf(g), OptionsOf(g)) :
       instance' = [h \in open \cup {g} |-> IF h = g THEN result ELSE instance[h]]
  /\ UNCHANGED <<files, edits, phase, load, cfg, sig, global, slots, runners, busy>>

\* plugin.Get, Init or NewGroup fails: runOnce returns without closing what is
\* open, and the process ends.
StartFails ==
  /\ \/ /\ phase = "init"
        /\ \E p \in Used \ global :
             p \notin Registered \/ InitFails(p, cfg.plugins[p])
     \/ /\ phase = "groups"
        /\ \E g \in DOMAIN cfg.groups \ open : GroupFails(PluginOf(g), OptionsOf(g))
  /\ Ended

Launch ==
  /\ phase = "groups"
  /\ open = DOMAIN cfg.groups
  /\ runners' = UNION {{<<g, cfg.groups[g].zones[i]>> : i \in DOMAIN cfg.groups[g].zones}
                       : g \in DOMAIN cfg.groups}
  /\ phase' = "running"
  /\ UNCHANGED <<files, edits, load, cfg, sig, plugins, busy>>

-----------------------------------------------------------------------------
(* The runners.                                                            *)

\* A step that has begun when the signal comes still makes its call.
CallUpdate(r) ==
  /\ phase \in {"running", "draining"}
  /\ r \in runners \ busy
  /\ busy' = busy \cup {r}
  /\ UNCHANGED <<files, edits, phase, load, cfg, sig, plugins, runners>>

\* Mutant of UpdateReturns: the runner does not look whether it is cancelled.
UpdateReturnsUncancelled(r) ==
  /\ r \in busy
  /\ busy' = busy \ {r}
  /\ UNCHANGED <<files, edits, phase, load, cfg, sig, plugins, runners>>

\* After Update the step ends, and with it a cancelled runner.
UpdateReturns(r) ==
  /\ r \in busy
  /\ busy' = busy \ {r}
  /\ runners' = IF phase = "draining" THEN runners \ {r} ELSE runners
  /\ UNCHANGED <<files, edits, phase, load, cfg, sig, plugins>>

RunnerEnds(r) ==
  /\ phase = "draining"
  /\ r \in runners \ busy
  /\ runners' = runners \ {r}
  /\ UNCHANGED <<files, edits, phase, load, cfg, sig, plugins, busy>>

-----------------------------------------------------------------------------
(* runOnce: from the signal to its return.                                 *)

Signal ==
  /\ phase = "running"
  /\ phase' = "draining"
  /\ sig' \in {"TERM", "HUP"}
  /\ UNCHANGED <<files, edits, load, cfg, plugins, runners, busy>>

Drained == phase = "draining" /\ runners = {}

\* An error of Close is only logged.
CloseGroup(g) ==
  /\ Drained
  /\ g \in open
  /\ instance' = [h \in open \ {g} |-> instance[h]]
  /\ UNCHANGED <<files, edits, phase, load, cfg, sig, global, slots, runners, busy>>

\* Mutant of CloseGlobal: the group instances are still open.
CloseGlobalFirst(p) ==
  /\ Drained
  /\ p \in global
  /\ global' = global \ {p}
  /\ slots' = IF p = OVH THEN 0 ELSE slots
  /\ UNCHANGED <<files, edits, phase, load, cfg, sig, instance, runners, busy>>

CloseGlobal(p) ==
  /\ Drained
  /\ open = {}
  /\ p \in global
  /\ global' = global \ {p}
  /\ slots' = IF p = OVH THEN 0 ELSE slots
  /\ UNCHANGED <<files, edits, phase, load, cfg, sig, instance, runners, busy>>

\* The status is saved; the process ends or loads its configuration again.
Leave ==
  /\ Drained
  /\ open = {} /\ global = {}
  /\ IF sig = "HUP"
       THEN BeginLoad /\ sig' = "none"
            /\ UNCHANGED <<files, edits, cfg, plugins, runners, busy>>
       ELSE Ended

\* Killed, or a signal while signal.Notify is not in force.
Crash ==
  /\ phase # "down"
  /\ Ended

Edit(f) ==
  /\ edits < MaxEdits
  /\ edits' = edits + 1
  /\ \E content \in Contents[f] \ {files[f]} : files' = [files EXCEPT ![f] = content]
  /\ UNCHANGED <<phase, load, cfg, sig, plugins, runners, busy>>

-----------------------------------------------------------------------------

Engine ==
  \/ ReadMain \/ ListConfD \/ Accept \/ LoadFails
  \/ \E f \in ConfD : MergeFile(f)
  \/ InitDone \/ StartFails \/ Launch \/ Leave
  \/ \E p \in Registered, n \in MinInt..MaxInt : InitPlugin(p, n)
  \/ \E g \in Groups : NewGroup(g) \/ CloseGroup(g)
  \/ \E p \in Registered : CloseGlobal(p)

Returns(r) == UpdateReturns(r) \/ RunnerEnds(r)

Next ==
  \/ Engine \/ Boot \/ Signal \/ Crash
  \/ \E r \in Groups \X Names : CallUpdate(r) \/ Returns(r)
  \/ \E f \in Sources : Edit(f)

Spec == Init /\ [][Next]_vars

\* Reading files, Init and NewGroup return, and so does an Update, which runs
\* under a cancelled context; a cancelled runner ends (Daemon!DrainEnds).
Fairness == WF_vars(Engine) /\ \A r \in Groups \X Names : WF_vars(Returns(r))

LiveSpec == Spec /\ Fairness

-----------------------------------------------------------------------------
(* Properties.                                                             *)

\* Types of the variables.
TypeOK ==
  /\ files \in [Sources -> UNION {Contents[f] : f \in Sources}]
  /\ \A f \in Sources : files[f] \in Contents[f]
  /\ edits \in 0..MaxEdits
  /\ phase \in Phases
  /\ IsSettings(settings)
  /\ todo \subseteq ConfD
  /\ DOMAIN seen \subseteq Sources
  /\ DOMAIN cfg.groups \subseteq Groups
  /\ sig \in {"none", "TERM", "HUP"}
  /\ global \subseteq Registered
  /\ slots \in MinInt..MaxInt
  /\ open \subseteq Groups
  /\ \A g \in open : instance[g] \in
       [port : MinInt..MaxInt, ttl : MinInt..MaxInt,
        auth : {"none", "tsig", "credentials"}]
  /\ runners \subseteq Groups \X Names
  /\ busy \subseteq runners

\* What the merged files say of a setting, put without merging: the
\* environment's word, else that of the last file which has it.
Written(table, field, default) ==
  LET by == {f \in DOMAIN seen : <<table, field>> \in DOMAIN seen[f]}
      last == CHOOSE f \in by : \A h \in by : h <= f
  IN IF by = {} THEN default
     ELSE IF <<table, field>> \in DOMAIN Env THEN Env[<<table, field>>]
     ELSE seen[last][<<table, field>>]

InForce == phase \in {"init", "groups", "running", "draining"}

\* A group is put together from all files that mention it, each setting from
\* the last one (config_test.go:124, TestLoadConfDOrderLastFileWins), those in a
\* tsig table too, and no group or option any file mentions is lost (config.go:54-67,
\* 106-119).  The exceptions are tsig as a whole, of which nothing is left if it is an
\* empty table, and what a variable of that name hides.
LastFileWins == InForce =>
  /\ \A f \in DOMAIN seen : \A s \in DOMAIN seen[f] :
       s[1] \in Groups /\ s[2] \notin {"tsig"} \cup TSIGFields => s[1] \in DOMAIN cfg.groups
  /\ \A g \in DOMAIN cfg.groups :
       /\ cfg.groups[g].plugin = Written(g, "plugin", "")
       /\ cfg.groups[g].zones = Written(g, "zones", <<>>)
       /\ \A o \in OptionFields \ {"tsig"} :
            IF (\E f \in DOMAIN seen : <<g, o>> \in DOMAIN seen[f]) /\ ~Shadowed(<<g, o>>)
              THEN o \in DOMAIN OptionsOf(g) /\ OptionsOf(g)[o] = Written(g, o, 0)
              ELSE o \notin DOMAIN OptionsOf(g)

\* Over edits of the files and reloads, a zone name has one runner, of a group
\* that lists it and whose plugin objects are open (engine.go:100-112): the
\* runner of an earlier configuration never meets that of a later one.
OneRunnerPerZone ==
  \A r \in runners :
    /\ \A q \in runners : q[2] = r[2] => q = r
    /\ r[1] \in open /\ PluginOf(r[1]) \in global
    /\ \E i \in DOMAIN cfg.groups[r[1]].zones : cfg.groups[r[1]].zones[i] = r[2]

\* Whatever type and value the options have, the limiter of an open OVH plugin
\* has a slot (which Limiter takes for granted; with none every call waits for
\* ever), and an open rfc2136 instance has a port, a TTL that fits 32 bits, and
\* signs its updates if any merged file puts anything in a tsig table for it, whatever
\* the others put there or in place of it, unless a variable hides it
\* (ovhv1_plugin.go:34-42, rfc2136_plugin.go:38-74).
OptionsAreLegal ==
  /\ OVH \in global => slots \in 1..MaxInt
  /\ \A g \in open : PluginOf(g) = RFC2136 =>
       /\ instance[g].port \in 1..MaxPort
       /\ instance[g].ttl \in 0..MaxTTL
       /\ (\E f \in DOMAIN seen, l \in TSIGFields :
              <<g, l>> \in DOMAIN seen[f] /\ ~Shadowed(<<g, l>>))
            => instance[g].auth = "tsig"

\* The host keeps the promises of the plugin interface.
Contract == INSTANCE PluginContract WITH
  Plugins <- Registered,
  group <- {<<g, PluginOf(g)>> : g \in open},
  calls <- busy

\* Over every start that fails half-way, drain, reload and crash, the objects
\* of the plugins are made, used and closed in the order plugin.go asks for,
\* and no zone has two Updates at once.
IsContract == Contract!Spec

\* A start, a reload and a shutdown come to an end, whatever fails on the way.
Settles == []<>(phase \in {"down", "running"})
=============================================================================
