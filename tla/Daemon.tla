------------------------------- MODULE Daemon -------------------------------
(***************************************************************************)
(* The core of dnssec-publish-ds: the engine (internal/core/engine.go),    *)
(* one runner per zone (internal/core/zone.go) and the status store they   *)
(* share (internal/status/status.go).                                      *)
(*                                                                         *)
(* The engine loads the status file, prunes it, starts one goroutine per   *)
(* configured zone and waits for a signal.  A runner repeats: read the     *)
(* stored state, ask DNS whether the zone is aligned (or resume the        *)
(* operation the stored state tracks), call the plugin, store its answer,  *)
(* sleep.  A signal cancels the runners, waits for them, saves the store   *)
(* and exits or, for SIGHUP, starts again with a new configuration.  The   *)
(* process may be killed at any point; Save and Load may fail at any point.*)
(*                                                                         *)
(* A plugin is opaque here, as it is for the code: an Update fails, is     *)
(* done, or is in progress with a raw state to be handed back later.  DNS  *)
(* is opaque too: a check fails, finds nothing to do, or finds work.       *)
(***************************************************************************)
CONSTANTS
  Zones,              \* zone names, as they key the store
  Groups,             \* group names
  Plugins,            \* plugin type names
  Tokens,             \* what a plugin may put in its raw state
  TokensOf,           \* ... for each zone
  Configs,            \* the configurations the operator may install
  SkipInitialJitter,  \* the -skip-initial-jitter flag
  NoGroup,            \* the owner of a zone no group lists
  None                \* an absent store entry, request or raw state

Config == [owner : [Zones -> Groups \cup {NoGroup}], plugin : [Groups -> Plugins]]

ASSUME ConfigsAssumption == Configs \subseteq Config
ASSUME FlagAssumption == SkipInitialJitter \in BOOLEAN
ASSUME NoGroupAssumption == NoGroup \notin Groups

\* The raw state a plugin produces for a zone names its producer, so that the
\* properties can tell whose state an Update is resumed with.
Raw == [zone : Zones, group : Groups, plugin : Plugins, token : Tokens]
ZoneState == [group : Groups, plugin : Plugins, raw : Raw]

ASSUME NoneAssumption == None \notin Raw /\ None \notin ZoneState

VARIABLES
  phase,      \* what the engine's own goroutine is doing
  cfg,        \* Engine.cfg
  sig,        \* the signal that ended the current runOnce
  mem,        \* Store.data.Zones
  disk,       \* the zones of the status file
  pc,         \* where each runner is
  req,        \* UpdateRequest.Raw of the Update in flight; None: a fresh one
  wait,       \* the interval a step returned; a new round starts with "check"
  \* Observation only; no action's guard reads them.
  reported,   \* what the last Update of the zone reported as in progress
  diskStale,  \* the last access to the status file failed
  excused     \* zones whose stored state was lost to a fault or a new config

proc == <<phase, cfg, sig>>
vars == <<phase, cfg, sig, mem, disk, pc, req, wait, reported, diskStale, excused>>

Phases == {"down", "boot", "running", "draining", "closing", "reload"}
PCs == {"none", "jitter", "load", "discardSave", "check", "update", "save",
        "sleep", "ended"}
\* checkInterval, errorRetryInterval, and NextWait or the default poll interval.
Intervals == {"check", "retry", "poll"}

Configured == {z \in Zones : cfg.owner[z] # NoGroup}
GroupOf(z) == cfg.owner[z]
PluginOf(z) == cfg.plugin[cfg.owner[z]]
Cancelled == phase # "running"
Unsaved(z) == pc[z] \in {"discardSave", "save"}

Init ==
  /\ phase = "down"
  /\ cfg \in Configs
  /\ sig = "none"
  /\ mem = [z \in Zones |-> None]
  /\ disk = [z \in Zones |-> None]
  /\ pc = [z \in Zones |-> "none"]
  /\ req = [z \in Zones |-> None]
  /\ wait = [z \in Zones |-> "check"]
  /\ reported = [z \in Zones |-> None]
  /\ diskStale = FALSE
  /\ excused = {}

-----------------------------------------------------------------------------
(* The store.  Save writes every zone at once, under the store's mutex, by *)
(* a rename: the file is the old one or the new one.                       *)

\* Mutant of Save: the file is never replaced.
SaveNothing(ok) ==
  /\ disk' = disk
  /\ diskStale' = ~ok

Save(ok) ==
  /\ disk' = IF ok THEN mem ELSE disk
  /\ diskStale' = ~ok

Load(ok) == IF ok THEN disk ELSE [z \in Zones |-> None]

Prune(entries, valid) == [z \in Zones |-> IF z \in valid THEN entries[z] ELSE None]

-----------------------------------------------------------------------------
(* The engine.                                                             *)

\* The service manager or the operator starts the process; config.Load succeeds.
Boot ==
  /\ phase = "down"
  /\ phase' = "boot"
  /\ cfg' \in Configs
  /\ sig' = "none"
  /\ UNCHANGED <<mem, disk, pc, req, wait, reported, diskStale, excused>>

\* runOnce up to the launch of the runners: Load, Prune, plugin initialisation.
Start(readable) ==
  /\ phase = "boot"
  /\ phase' = "running"
  /\ mem' = Prune(Load(readable), Configured)
  /\ pc' = [z \in Zones |-> IF z \notin Configured THEN "none"
                            ELSE IF SkipInitialJitter THEN "load" ELSE "jitter"]
  /\ req' = [z \in Zones |-> None]
  /\ wait' = [z \in Zones |-> "check"]
  /\ diskStale' = ~readable
  /\ excused' = IF ~readable \/ diskStale THEN Zones
                ELSE excused \cup {z \in Zones \ Configured : disk[z] # None}
  /\ UNCHANGED <<cfg, sig, disk, reported>>

\* A plugin's Init or NewGroup fails: runOnce returns the error, the process exits.
StartFails ==
  /\ phase = "boot"
  /\ phase' = "down"
  /\ UNCHANGED <<cfg, sig, mem, disk, pc, req, wait, reported, diskStale, excused>>

\* sigCh delivers; the context is cancelled.
Signal ==
  /\ phase = "running"
  /\ phase' = "draining"
  /\ sig' \in {"TERM", "HUP"}
  /\ UNCHANGED <<cfg, mem, disk, pc, req, wait, reported, diskStale, excused>>

\* Mutant of CloseAll: the plugins are closed without waiting.
CloseAtOnce ==
  /\ phase = "draining"
  /\ phase' = "closing"
  /\ UNCHANGED <<cfg, sig, mem, disk, pc, req, wait, reported, diskStale, excused>>

\* wg.Wait() returns; the group plugins, then the global ones, are closed.
CloseAll ==
  /\ phase = "draining"
  /\ \A z \in Zones : pc[z] \in {"none", "ended"}
  /\ phase' = "closing"
  /\ UNCHANGED <<cfg, sig, mem, disk, pc, req, wait, reported, diskStale, excused>>

\* The Save before leaving; an error is only logged.
FinalSave(ok) ==
  /\ phase = "closing"
  /\ Save(ok)
  /\ phase' = IF sig = "HUP" THEN "reload" ELSE "down"
  /\ UNCHANGED <<cfg, sig, mem, pc, req, wait, reported, excused>>

\* config.Load on SIGHUP: a new runOnce, or an error that ends the process.
Reload ==
  /\ phase = "reload"
  /\ phase' \in {"boot", "down"}
  /\ IF phase' = "boot" THEN cfg' \in Configs ELSE cfg' = cfg
  /\ sig' = "none"
  /\ UNCHANGED <<mem, disk, pc, req, wait, reported, diskStale, excused>>

\* The process is killed: SIGKILL, power loss, or a signal that arrives before
\* signal.Notify or after signal.Stop, when its default action applies.
Crash ==
  /\ phase # "down"
  /\ phase' = "down"
  /\ sig' = "none"
  /\ mem' = [z \in Zones |-> None]
  /\ pc' = [z \in Zones |-> "none"]
  /\ req' = [z \in Zones |-> None]
  /\ wait' = [z \in Zones |-> "check"]
  /\ excused' = excused \cup {z \in Zones : Unsaved(z)}
  /\ UNCHANGED <<cfg, disk, reported, diskStale>>

-----------------------------------------------------------------------------
(* A runner.                                                               *)

Goto(z, label) == pc' = [pc EXCEPT ![z] = label]

\* Mutant of Finish: the interval is never given its default.
FinishWithoutInterval(z, interval) ==
  /\ Goto(z, IF Cancelled THEN "ended" ELSE "sleep")
  /\ wait' = [wait EXCEPT ![z] = "zero"]

\* runStep returns: the runner sleeps, unless the context is cancelled.
Finish(z, interval) ==
  /\ Goto(z, IF Cancelled THEN "ended" ELSE "sleep")
  /\ wait' = [wait EXCEPT ![z] = interval]

\* sleep: the timer fires.  When the context is cancelled too, select may
\* still take this branch.
Wake(z) ==
  /\ pc[z] \in {"jitter", "sleep"}
  /\ Goto(z, "load")
  /\ wait' = [wait EXCEPT ![z] = "check"]
  /\ UNCHANGED <<proc, mem, disk, req, reported, diskStale, excused>>

\* Mutant of WakeCancelled: the initial jitter cannot be cancelled.
WakeCancelledLate(z) ==
  /\ pc[z] = "sleep"
  /\ Cancelled
  /\ Goto(z, "ended")
  /\ wait' = [wait EXCEPT ![z] = "check"]
  /\ UNCHANGED <<proc, mem, disk, req, reported, diskStale, excused>>

\* sleep: the context is done; Run returns.
WakeCancelled(z) ==
  /\ pc[z] \in {"jitter", "sleep"}
  /\ Cancelled
  /\ Goto(z, "ended")
  /\ wait' = [wait EXCEPT ![z] = "check"]
  /\ UNCHANGED <<proc, mem, disk, req, reported, diskStale, excused>>

\* Mutants of Owned: the plugin is not compared; the two are mixed up.
OwnedByGroup(z) == mem[z].group = GroupOf(z)
OwnedMixedUp(z) == mem[z].group = PluginOf(z) /\ mem[z].plugin = GroupOf(z)

Owned(z) == mem[z].group = GroupOf(z) /\ mem[z].plugin = PluginOf(z)

\* loadOwnedState finds nothing: check the zone.
LoadNothing(z) ==
  /\ pc[z] = "load"
  /\ mem[z] = None
  /\ Goto(z, "check")
  /\ UNCHANGED <<proc, mem, disk, req, wait, reported, diskStale, excused>>

\* loadOwnedState finds the runner's own state: resume the operation.
LoadOwned(z) ==
  /\ pc[z] = "load"
  /\ mem[z] # None
  /\ Owned(z)
  /\ req' = [req EXCEPT ![z] = mem[z].raw]
  /\ Goto(z, "update")
  /\ UNCHANGED <<proc, mem, disk, wait, reported, diskStale, excused>>

\* loadOwnedState finds the state of another owner: Clear it.
LoadForeign(z) ==
  /\ pc[z] = "load"
  /\ mem[z] # None
  /\ ~Owned(z)
  /\ mem' = [mem EXCEPT ![z] = None]
  /\ reported' = [reported EXCEPT ![z] = None]
  /\ Goto(z, "discardSave")
  /\ UNCHANGED <<proc, disk, req, wait, diskStale, excused>>

\* Mutant of DiscardSave: the cleared state stays in the file.
DiscardUnsaved(z, ok) ==
  /\ pc[z] = "discardSave"
  /\ Goto(z, "check")
  /\ UNCHANGED <<proc, mem, disk, diskStale, req, wait, reported, excused>>

\* ... and Save; an error is only logged.
DiscardSave(z, ok) ==
  /\ pc[z] = "discardSave"
  /\ Save(ok)
  /\ Goto(z, "check")
  /\ UNCHANGED <<proc, mem, req, wait, reported, excused>>

\* Mutant of CheckFails: an error ends the runner.
CheckFailsForGood(z) ==
  /\ pc[z] = "check"
  /\ Goto(z, "ended")
  /\ UNCHANGED <<proc, mem, disk, req, wait, reported, diskStale, excused>>

\* FetchZoneKeys or QueryDS fails.
CheckFails(z) ==
  /\ pc[z] = "check"
  /\ Finish(z, "retry")
  /\ UNCHANGED <<proc, mem, disk, req, reported, diskStale, excused>>

\* Removal sentinel, no records, no public key, or aligned: nothing to do.
CheckAligned(z) ==
  /\ pc[z] = "check"
  /\ Finish(z, "check")
  /\ UNCHANGED <<proc, mem, disk, req, reported, diskStale, excused>>

\* The zone is misaligned: a fresh Update.
CheckMisaligned(z) ==
  /\ pc[z] = "check"
  /\ req' = [req EXCEPT ![z] = None]
  /\ Goto(z, "update")
  /\ UNCHANGED <<proc, mem, disk, wait, reported, diskStale, excused>>

\* Mutant of UpdateFails: the next step is a check interval away.
UpdateFailsForLong(z) ==
  /\ pc[z] = "update"
  /\ Finish(z, "check")
  /\ req' = [req EXCEPT ![z] = None]
  /\ UNCHANGED <<proc, mem, disk, reported, diskStale, excused>>

\* plugin.Update returns an error: the stored state stays as it is.
UpdateFails(z) ==
  /\ pc[z] = "update"
  /\ Finish(z, "retry")
  /\ req' = [req EXCEPT ![z] = None]
  /\ UNCHANGED <<proc, mem, disk, reported, diskStale, excused>>

\* plugin.Update is done: Clear.
UpdateDone(z) ==
  /\ pc[z] = "update"
  /\ mem' = [mem EXCEPT ![z] = None]
  /\ reported' = [reported EXCEPT ![z] = None]
  /\ excused' = excused \ {z}
  /\ req' = [req EXCEPT ![z] = None]
  /\ wait' = [wait EXCEPT ![z] = "check"]
  /\ Goto(z, "save")
  /\ UNCHANGED <<proc, disk, diskStale>>

\* plugin.Update is in progress: persistState.
UpdateInProgress(z, t) ==
  /\ pc[z] = "update"
  /\ t \in TokensOf[z]
  /\ LET raw == [zone |-> z, group |-> GroupOf(z), plugin |-> PluginOf(z), token |-> t]
     IN /\ mem' = [mem EXCEPT ![z] =
                     [group |-> GroupOf(z), plugin |-> PluginOf(z), raw |-> raw]]
        /\ reported' = [reported EXCEPT ![z] = raw]
  /\ excused' = excused \ {z}
  /\ req' = [req EXCEPT ![z] = None]
  /\ wait' = [wait EXCEPT ![z] = "poll"]
  /\ Goto(z, "save")
  /\ UNCHANGED <<proc, disk, diskStale>>

\* applyUpdateResult's Save, then the end of the step.
SaveResult(z, ok) ==
  /\ pc[z] = "save"
  /\ Save(ok)
  /\ Finish(z, wait[z])
  /\ UNCHANGED <<proc, mem, req, reported, excused>>

\* A runner's steps, but for the timer of its sleep.
Work(z) ==
  \/ WakeCancelled(z)
  \/ LoadNothing(z)
  \/ LoadOwned(z)
  \/ LoadForeign(z)
  \/ \E ok \in BOOLEAN : DiscardSave(z, ok)
  \/ CheckFails(z)
  \/ CheckAligned(z)
  \/ CheckMisaligned(z)
  \/ UpdateFails(z)
  \/ UpdateDone(z)
  \/ \E t \in Tokens : UpdateInProgress(z, t)
  \/ \E ok \in BOOLEAN : SaveResult(z, ok)

Runner(z) == Wake(z) \/ Work(z)

Engine ==
  \/ Boot
  \/ \E readable \in BOOLEAN : Start(readable)
  \/ StartFails
  \/ Signal
  \/ CloseAll
  \/ \E ok \in BOOLEAN : FinalSave(ok)
  \/ Reload
  \/ Crash

Next == Engine \/ \E z \in Zones : Runner(z)

Spec == Init /\ [][Next]_vars

\* DNS and plugin calls return (they run under a timeout), the Go scheduler runs
\* every goroutine, and the timer of a sleep fires while the daemon runs.  Once
\* the context is cancelled no timer is relied on: an interval may be an hour.
\* Nothing is assumed of signals, of the service manager or of the outcome of any
\* call.
Fairness ==
  /\ WF_vars(\E readable \in BOOLEAN : Start(readable))
  /\ WF_vars(CloseAll)
  /\ WF_vars(\E ok \in BOOLEAN : FinalSave(ok))
  /\ WF_vars(Reload)
  /\ \A z \in Zones : WF_vars(Work(z)) /\ WF_vars(~Cancelled /\ Wake(z))

LiveSpec == Spec /\ Fairness

-----------------------------------------------------------------------------
(* Properties.                                                             *)

TypeOK ==
  /\ phase \in Phases
  /\ cfg \in Configs
  /\ sig \in {"none", "TERM", "HUP"}
  /\ mem \in [Zones -> ZoneState \cup {None}]
  /\ disk \in [Zones -> ZoneState \cup {None}]
  /\ pc \in [Zones -> PCs]
  /\ req \in [Zones -> Raw \cup {None}]
  /\ wait \in [Zones -> Intervals]
  /\ reported \in [Zones -> Raw \cup {None}]
  /\ diskStale \in BOOLEAN
  /\ excused \subseteq Zones

\* A plugin only ever resumes an operation of its own: whatever restarts,
\* reloads and moves of the zone between groups and plugins came before, the
\* raw state handed to Update was produced for this zone by the group and
\* plugin that own it now (loadOwnedState, zone.go:109-130).
ResumesOwnRawOnly ==
  \A z \in Zones : (pc[z] = "update" /\ req[z] # None) =>
    /\ req[z].zone = z
    /\ req[z].group = GroupOf(z)
    /\ req[z].plugin = PluginOf(z)

\* The request of an Update is what the zone's last Update said: the raw state
\* it returned if it is in progress, a fresh request only if none is.  So no
\* operation is forgotten or submitted twice and none that is done is polled
\* again, over crashes and reloads too.  The exceptions are a crash between
\* the answer and its Save, a status file that could not be written or read,
\* a zone that had left the configuration, and a change of owner, with which the
\* runner forgets the operation of the former one.
ResumesWhatWasReported ==
  \A z \in Zones \ excused : pc[z] = "update" => req[z] = reported[z]

\* The status file agrees with memory for every configured zone whose runner
\* is not between a change and its Save, unless the last file access failed:
\* a crash at that moment loses nothing.
QuietZoneIsDurable ==
  (phase \in {"running", "draining", "closing"} /\ ~diskStale) =>
    \A z \in Configured : ~Unsaved(z) => disk[z] = mem[z]

\* An operation in progress is never left for a whole check interval, and a
\* zone with none is never polled (zone.go:196-216).
IntervalMatchesState ==
  \A z \in Zones : pc[z] = "sleep" =>
    /\ wait[z] = "check" => mem[z] = None
    /\ wait[z] = "poll" => mem[z] # None

\* No runner touches the plugins or the store once the plugins are closed
\* (engine.go:127-150), nor after the process has ended.
NoWorkAfterClose ==
  phase \in {"boot", "closing", "reload", "down"} =>
    \A z \in Zones : pc[z] \in {"none", "ended"}

\* A failure of a zone never ends its runner: only a cancellation does.
RunnerSurvives ==
  [][\A z \in Zones : (pc'[z] = "ended" /\ pc[z] # "ended") => phase = "draining"]_vars

\* While the daemon runs, a zone that sleeps on an operation in progress comes
\* to resume it.
OperationIsPolled ==
  \A z \in Zones :
    (phase = "running" /\ pc[z] = "sleep" /\ mem[z] # None)
      ~> (phase # "running" \/ (pc[z] = "update" /\ req[z] # None))

\* Whatever fails, a running daemon steps each configured zone again.
ZoneIsStepped ==
  \A z \in Zones :
    (phase = "running" /\ z \in Configured) ~> (phase # "running" \/ pc[z] = "load")

\* A signal leads to the end of the process or to the next runOnce, wherever the
\* runners are, and without waiting for the timer of any of them: not for one that
\* sleeps already, nor for one that is cancelled during a step (zone.go:60-82,
\* 218-237).
DrainEnds == phase = "draining" ~> phase \in {"boot", "down"}
=============================================================================
