---------------------------- MODULE DaemonProofs ----------------------------
(***************************************************************************)
(* Proofs about the core, for every set of zones, groups, plugins and      *)
(* configurations.  One inductive invariant, IInv, yields them all.        *)
(***************************************************************************)
EXTENDS Daemon, TLAPS

USE ConfigsAssumption, FlagAssumption, NoGroupAssumption, NoneAssumption

\* The raw state of a store entry, or None.
RawOf(entry) == IF entry = None THEN None ELSE entry.raw

\* A runner that is at work is that of a configured zone.
RunnersConfigured ==
  \A z \in Zones : pc[z] \notin {"none", "ended"} => z \in Configured

\* Whatever file it came from, an entry's owner is the producer of its raw state.
WellFormed(z, entry) ==
  entry # None => /\ entry.raw.zone = z
                  /\ entry.raw.group = entry.group
                  /\ entry.raw.plugin = entry.plugin

EntriesWellFormed ==
  \A z \in Zones : WellFormed(z, mem[z]) /\ WellFormed(z, disk[z])

\* A check runs only when nothing is stored, and an Update is called with
\* what is stored, by its owner.
RequestMatchesStore ==
  \A z \in Zones :
    /\ pc[z] \in {"discardSave", "check"} => mem[z] = None
    /\ pc[z] = "update" => /\ req[z] = RawOf(mem[z])
                           /\ mem[z] # None => Owned(z)

\* The interval chosen before the Save is that of the sleep after it.
IntervalChosen ==
  \A z \in Zones : pc[z] \in {"save", "sleep"} =>
    /\ wait[z] = "check" => mem[z] = None
    /\ wait[z] = "poll" => mem[z] # None

Loaded == phase \in {"running", "draining", "closing", "reload"}

\* What an excuse excuses: otherwise memory holds the last report, and between
\* two lives of the store the file does.
MemoryIsReported ==
  Loaded => \A z \in Zones \ excused : RawOf(mem[z]) = reported[z]

DiskIsReported ==
  (~Loaded /\ ~diskStale) => \A z \in Zones \ excused : RawOf(disk[z]) = reported[z]

DiskIsMemory ==
  (Loaded /\ ~diskStale) =>
    \A z \in Zones : ((z \in Configured \/ z \notin excused) /\ ~Unsaved(z)) =>
      disk[z] = mem[z]

IInv ==
  /\ TypeOK
  /\ NoWorkAfterClose
  /\ RunnersConfigured
  /\ EntriesWellFormed
  /\ RequestMatchesStore
  /\ IntervalChosen
  /\ MemoryIsReported
  /\ DiskIsReported
  /\ DiskIsMemory

-----------------------------------------------------------------------------
\* The owner of a configured zone is a group, and that group has a plugin.
LEMMA OwnerType ==
  ASSUME cfg \in Configs, NEW z \in Configured
  PROVE  GroupOf(z) \in Groups /\ PluginOf(z) \in Plugins
BY DEF Config, Configured, GroupOf, PluginOf

LEMMA InitIInv == Init => IInv
BY DEF Init, IInv, TypeOK, NoWorkAfterClose, RunnersConfigured, EntriesWellFormed,
       WellFormed, RequestMatchesStore, IntervalChosen, MemoryIsReported,
       DiskIsReported, DiskIsMemory, Loaded, RawOf, Phases, PCs, Intervals

\* What persistState stores is an entry of the runner, with the raw state that
\* the plugin reported.
LEMMA NewEntry ==
  ASSUME TypeOK, RunnersConfigured,
         NEW z \in Zones, NEW t \in Tokens, UpdateInProgress(z, t)
  PROVE  /\ mem'[z] \in ZoneState
         /\ mem'[z] # None
         /\ reported'[z] = mem'[z].raw
         /\ reported'[z] \in Raw
<1>1. z \in Configured
  BY DEF UpdateInProgress, RunnersConfigured
<1>2. GroupOf(z) \in Groups /\ PluginOf(z) \in Plugins
  BY <1>1, OwnerType DEF TypeOK
<1> DEFINE raw == [zone |-> z, group |-> GroupOf(z), plugin |-> PluginOf(z), token |-> t]
<1>3. raw \in Raw
  BY <1>2 DEF Raw
<1>4. /\ mem'[z] = [group |-> GroupOf(z), plugin |-> PluginOf(z), raw |-> raw]
      /\ reported'[z] = raw
  BY DEF UpdateInProgress, TypeOK
<1> QED
  BY <1>2, <1>3, <1>4 DEF ZoneState

\* Type correctness is preserved.
LEMMA TypeStep == TypeOK /\ RunnersConfigured /\ [Next]_vars => TypeOK'
<1> SUFFICES ASSUME TypeOK, RunnersConfigured, [Next]_vars
             PROVE  TypeOK'
  OBVIOUS
<1> USE DEF TypeOK, Phases, PCs, Intervals
<1>1. CASE Boot
  BY <1>1 DEF Boot
<1>2. ASSUME NEW readable \in BOOLEAN, Start(readable)
      PROVE  TypeOK'
  BY <1>2 DEF Start, Load, Prune
<1>3. CASE StartFails
  BY <1>3 DEF StartFails
<1>4. CASE Signal
  BY <1>4 DEF Signal
<1>5. CASE CloseAll
  BY <1>5 DEF CloseAll
<1>6. ASSUME NEW ok \in BOOLEAN, FinalSave(ok)
      PROVE  TypeOK'
  BY <1>6 DEF FinalSave, Save
<1>7. CASE Reload
  BY <1>7 DEF Reload
<1>8. CASE Crash
  BY <1>8 DEF Crash
<1>9. ASSUME NEW z \in Zones, Runner(z)
      PROVE  TypeOK'
  <2> USE DEF Goto, Finish, proc
  <2>1. CASE Wake(z) \/ WakeCancelled(z) \/ LoadNothing(z)
    BY <2>1 DEF Wake, WakeCancelled, LoadNothing
  <2>2. CASE LoadOwned(z)
    BY <2>2 DEF LoadOwned, ZoneState
  <2>3. CASE LoadForeign(z)
    BY <2>3 DEF LoadForeign
  <2>4. ASSUME NEW ok \in BOOLEAN, DiscardSave(z, ok)
        PROVE  TypeOK'
    BY <2>4 DEF DiscardSave, Save
  <2>5. CASE CheckFails(z) \/ CheckAligned(z) \/ CheckMisaligned(z)
    BY <2>5 DEF CheckFails, CheckAligned, CheckMisaligned
  <2>6. CASE UpdateFails(z) \/ UpdateDone(z)
    BY <2>6 DEF UpdateFails, UpdateDone
  <2>7. ASSUME NEW t \in Tokens, UpdateInProgress(z, t)
        PROVE  TypeOK'
    <3>1. mem'[z] \in ZoneState /\ reported'[z] \in Raw
      BY <2>7, NewEntry
    <3> QED
      BY <2>7, <3>1 DEF UpdateInProgress
  <2>8. ASSUME NEW ok \in BOOLEAN, SaveResult(z, ok)
        PROVE  TypeOK'
    BY <2>8 DEF SaveResult, Save
  <2> QED
    BY <1>9, <2>1, <2>2, <2>3, <2>4, <2>5, <2>6, <2>7, <2>8 DEF Runner, Work
<1>10. CASE UNCHANGED vars
  BY <1>10 DEF vars
<1> QED
  BY <1>1, <1>2, <1>3, <1>4, <1>5, <1>6, <1>7, <1>8, <1>9, <1>10 DEF Next, Engine

\* Runners exist only between Start and CloseAll, for configured zones.
LEMMA ControlStep ==
  TypeOK /\ NoWorkAfterClose /\ RunnersConfigured /\ [Next]_vars
    => (NoWorkAfterClose /\ RunnersConfigured)'
<1> SUFFICES ASSUME TypeOK, NoWorkAfterClose, RunnersConfigured, [Next]_vars
             PROVE  (NoWorkAfterClose /\ RunnersConfigured)'
  OBVIOUS
<1> USE DEF TypeOK, Phases, PCs, NoWorkAfterClose, RunnersConfigured, Configured
<1>1. CASE Boot \/ StartFails \/ Signal \/ CloseAll
  BY <1>1 DEF Boot, StartFails, Signal, CloseAll
<1>2. ASSUME NEW readable \in BOOLEAN, Start(readable)
      PROVE  (NoWorkAfterClose /\ RunnersConfigured)'
  BY <1>2 DEF Start
<1>3. ASSUME NEW ok \in BOOLEAN, FinalSave(ok)
      PROVE  (NoWorkAfterClose /\ RunnersConfigured)'
  BY <1>3 DEF FinalSave
<1>4. CASE Reload \/ Crash
  BY <1>4 DEF Reload, Crash
<1>5. ASSUME NEW z \in Zones, Runner(z)
      PROVE  (NoWorkAfterClose /\ RunnersConfigured)'
  <2>1. /\ pc[z] \notin {"none", "ended"}
        /\ UNCHANGED proc
        /\ \A y \in Zones \ {z} : pc'[y] = pc[y]
        /\ pc' \in [Zones -> PCs]
    BY <1>5 DEF Runner, Work, Wake, WakeCancelled, LoadNothing, LoadOwned, LoadForeign,
            DiscardSave, CheckFails, CheckAligned, CheckMisaligned, UpdateFails,
            UpdateDone, UpdateInProgress, SaveResult, Goto, Finish, proc
  <2> QED
    BY <2>1 DEF proc
<1>6. CASE UNCHANGED vars
  BY <1>6 DEF vars
<1> QED
  BY <1>1, <1>2, <1>3, <1>4, <1>5, <1>6 DEF Next, Engine

\* Only persistState makes an entry, and it makes a well-formed one.
LEMMA EntriesStep ==
  TypeOK /\ EntriesWellFormed /\ [Next]_vars => EntriesWellFormed'
<1> SUFFICES ASSUME TypeOK, EntriesWellFormed, [Next]_vars
             PROVE  EntriesWellFormed'
  OBVIOUS
<1> USE DEF TypeOK, EntriesWellFormed, WellFormed
<1>1. CASE Boot \/ StartFails \/ Signal \/ CloseAll \/ Reload \/ Crash
  BY <1>1 DEF Boot, StartFails, Signal, CloseAll, Reload, Crash
<1>2. ASSUME NEW readable \in BOOLEAN, Start(readable)
      PROVE  EntriesWellFormed'
  BY <1>2 DEF Start, Load, Prune
<1>3. ASSUME NEW ok \in BOOLEAN, FinalSave(ok)
      PROVE  EntriesWellFormed'
  BY <1>3 DEF FinalSave, Save
<1>4. ASSUME NEW z \in Zones, Runner(z)
      PROVE  EntriesWellFormed'
  <2>1. CASE \/ Wake(z) \/ WakeCancelled(z) \/ LoadNothing(z) \/ LoadOwned(z)
             \/ CheckFails(z) \/ CheckAligned(z) \/ CheckMisaligned(z)
             \/ UpdateFails(z)
    BY <2>1 DEF Wake, WakeCancelled, LoadNothing, LoadOwned, CheckFails,
            CheckAligned, CheckMisaligned, UpdateFails
  <2>2. CASE LoadForeign(z) \/ UpdateDone(z)
    BY <2>2 DEF LoadForeign, UpdateDone
  <2>3. ASSUME NEW ok \in BOOLEAN, DiscardSave(z, ok) \/ SaveResult(z, ok)
        PROVE  EntriesWellFormed'
    BY <2>3 DEF DiscardSave, SaveResult, Save
  <2>4. ASSUME NEW t \in Tokens, UpdateInProgress(z, t)
        PROVE  EntriesWellFormed'
    BY <2>4 DEF UpdateInProgress
  <2> QED
    BY <1>4, <2>1, <2>2, <2>3, <2>4 DEF Runner, Work
<1>5. CASE UNCHANGED vars
  BY <1>5 DEF vars
<1> QED
  BY <1>1, <1>2, <1>3, <1>4, <1>5 DEF Next, Engine

\* No runner touches another zone's entry, so what a step read of its own
\* entry still holds when it acts on it.
LEMMA RequestStep ==
  TypeOK /\ NoWorkAfterClose /\ RunnersConfigured /\ RequestMatchesStore
    /\ IntervalChosen /\ [Next]_vars
    => (RequestMatchesStore /\ IntervalChosen)'
<1> SUFFICES ASSUME TypeOK, NoWorkAfterClose, RunnersConfigured,
                    RequestMatchesStore, IntervalChosen, [Next]_vars
             PROVE  (RequestMatchesStore /\ IntervalChosen)'
  OBVIOUS
<1> USE DEF TypeOK, RequestMatchesStore, IntervalChosen, RawOf, Owned, GroupOf, PluginOf
<1>1. CASE Boot \/ StartFails \/ Signal \/ CloseAll \/ Reload \/ Crash
  BY <1>1 DEF Boot, StartFails, Signal, CloseAll, Reload, Crash, NoWorkAfterClose
<1>2. ASSUME NEW readable \in BOOLEAN, Start(readable)
      PROVE  (RequestMatchesStore /\ IntervalChosen)'
  BY <1>2 DEF Start
<1>3. ASSUME NEW ok \in BOOLEAN, FinalSave(ok)
      PROVE  (RequestMatchesStore /\ IntervalChosen)'
  BY <1>3 DEF FinalSave
<1>4. ASSUME NEW z \in Zones, Runner(z)
      PROVE  (RequestMatchesStore /\ IntervalChosen)'
  <2> USE DEF Goto, Finish, proc
  <2>1. CASE Wake(z) \/ WakeCancelled(z) \/ LoadNothing(z)
    BY <2>1 DEF Wake, WakeCancelled, LoadNothing
  <2>2. CASE LoadOwned(z) \/ LoadForeign(z)
    BY <2>2 DEF LoadOwned, LoadForeign
  <2>3. ASSUME NEW ok \in BOOLEAN, DiscardSave(z, ok)
        PROVE  (RequestMatchesStore /\ IntervalChosen)'
    BY <2>3 DEF DiscardSave
  <2>4. CASE CheckFails(z) \/ CheckAligned(z) \/ CheckMisaligned(z)
    BY <2>4 DEF CheckFails, CheckAligned, CheckMisaligned
  <2>5. CASE UpdateFails(z)
    BY <2>5 DEF UpdateFails
  <2>6. CASE UpdateDone(z)
    BY <2>6 DEF UpdateDone
  <2>7. ASSUME NEW t \in Tokens, UpdateInProgress(z, t)
        PROVE  (RequestMatchesStore /\ IntervalChosen)'
    BY <2>7, NewEntry DEF UpdateInProgress
  <2>8. ASSUME NEW ok \in BOOLEAN, SaveResult(z, ok)
        PROVE  (RequestMatchesStore /\ IntervalChosen)'
    BY <2>8 DEF SaveResult
  <2> QED
    BY <1>4, <2>1, <2>2, <2>3, <2>4, <2>5, <2>6, <2>7, <2>8 DEF Runner, Work
<1>5. CASE UNCHANGED vars
  BY <1>5 DEF vars
<1> QED
  BY <1>1, <1>2, <1>3, <1>4, <1>5 DEF Next, Engine

\* What is reported stays in memory while the store lives and in the file
\* between two lives of it, but for the zones that are excused.
LEMMA TrackingStep ==
  IInv /\ [Next]_vars => (MemoryIsReported /\ DiskIsReported /\ DiskIsMemory)'
<1> SUFFICES ASSUME IInv, [Next]_vars
             PROVE  (MemoryIsReported /\ DiskIsReported /\ DiskIsMemory)'
  OBVIOUS
<1> DEFINE Tracking == MemoryIsReported /\ DiskIsReported /\ DiskIsMemory
<1> USE DEF IInv, TypeOK, MemoryIsReported, DiskIsReported, DiskIsMemory, Loaded,
            RawOf, Unsaved, Configured, Phases
<1>1. CASE Boot \/ StartFails \/ Signal \/ CloseAll
  BY <1>1 DEF Boot, StartFails, Signal, CloseAll
<1>2. ASSUME NEW readable \in BOOLEAN, Start(readable)
      PROVE  Tracking'
  <2>1. CASE ~readable \/ diskStale
    BY <1>2, <2>1 DEF Start, Load, Prune
  <2>2. CASE readable /\ ~diskStale
    BY <1>2, <2>2 DEF Start, Load, Prune
  <2> QED
    BY <2>1, <2>2
<1>3. ASSUME NEW ok \in BOOLEAN, FinalSave(ok)
      PROVE  Tracking'
  BY <1>3 DEF FinalSave, Save
<1>4. CASE Reload
  BY <1>4 DEF Reload, NoWorkAfterClose
<1>5. CASE Crash
  BY <1>5 DEF Crash
<1>6. ASSUME NEW z \in Zones, Runner(z)
      PROVE  Tracking'
  <2> USE DEF Goto, Finish, proc
  <2>1. CASE Wake(z) \/ WakeCancelled(z) \/ LoadNothing(z) \/ LoadOwned(z)
    BY <2>1 DEF Wake, WakeCancelled, LoadNothing, LoadOwned
  <2>2. CASE CheckFails(z) \/ CheckAligned(z) \/ CheckMisaligned(z) \/ UpdateFails(z)
    BY <2>2 DEF CheckFails, CheckAligned, CheckMisaligned, UpdateFails
  <2>3. CASE LoadForeign(z)
    BY <2>3 DEF LoadForeign, NoWorkAfterClose
  <2>4. CASE UpdateDone(z)
    BY <2>4 DEF UpdateDone, NoWorkAfterClose
  <2>5. ASSUME NEW t \in Tokens, UpdateInProgress(z, t)
        PROVE  Tracking'
    BY <2>5, NewEntry DEF UpdateInProgress, NoWorkAfterClose
  <2>6. ASSUME NEW ok \in BOOLEAN, DiscardSave(z, ok) \/ SaveResult(z, ok)
        PROVE  Tracking'
    BY <2>6 DEF DiscardSave, SaveResult, Save, NoWorkAfterClose
  <2> QED
    BY <1>6, <2>1, <2>2, <2>3, <2>4, <2>5, <2>6 DEF Runner, Work
<1>7. CASE UNCHANGED vars
  BY <1>7 DEF vars
<1> QED
  BY <1>1, <1>2, <1>3, <1>4, <1>5, <1>6, <1>7 DEF Next, Engine

-----------------------------------------------------------------------------
\* IInv holds in every reachable state, whatever the constants.
THEOREM Inductive == Spec => []IInv
<1>1. IInv /\ [Next]_vars => IInv'
  <2> SUFFICES ASSUME IInv, [Next]_vars
               PROVE  IInv'
    OBVIOUS
  <2>1. TypeOK'
    BY TypeStep DEF IInv
  <2>2. (NoWorkAfterClose /\ RunnersConfigured)'
    BY ControlStep DEF IInv
  <2>3. EntriesWellFormed'
    BY EntriesStep DEF IInv
  <2>4. (RequestMatchesStore /\ IntervalChosen)'
    BY RequestStep DEF IInv
  <2>5. (MemoryIsReported /\ DiskIsReported /\ DiskIsMemory)'
    BY TrackingStep
  <2> QED
    BY <2>1, <2>2, <2>3, <2>4, <2>5 DEF IInv
<1> QED
  BY <1>1, InitIInv, PTL DEF Spec

\* Every variable keeps its type (the state of engine.go, zone.go, status.go).
THEOREM TypeCorrect == Spec => []TypeOK
<1>1. IInv => TypeOK
  BY DEF IInv
<1> QED
  BY <1>1, Inductive, PTL

\* A plugin resumes only what it produced itself for this zone, over any
\* sequence of restarts, reloads and moves (loadOwnedState, zone.go:109-130).
THEOREM OwnRawOnly == Spec => []ResumesOwnRawOnly
<1>1. IInv => ResumesOwnRawOnly
  <2> SUFFICES ASSUME IInv, NEW z \in Zones, pc[z] = "update", req[z] # None
               PROVE  /\ req[z].zone = z
                      /\ req[z].group = GroupOf(z)
                      /\ req[z].plugin = PluginOf(z)
    BY DEF ResumesOwnRawOnly
  <2>1. mem[z] # None /\ req[z] = mem[z].raw /\ Owned(z)
    BY DEF IInv, RequestMatchesStore, RawOf
  <2> QED
    BY <2>1 DEF IInv, EntriesWellFormed, WellFormed, Owned
<1> QED
  BY <1>1, Inductive, PTL

\* The request of an Update is what the last Update of the zone reported: no
\* operation is forgotten, repeated or polled once done, but for the excuses
\* (zone.go:84-107, 196-216; engine.go:56-66, 147-150).
THEOREM WhatWasReported == Spec => []ResumesWhatWasReported
<1>1. IInv => ResumesWhatWasReported
  <2> SUFFICES ASSUME IInv, NEW z \in Zones \ excused, pc[z] = "update"
               PROVE  req[z] = reported[z]
    BY DEF ResumesWhatWasReported
  <2>1. req[z] = RawOf(mem[z])
    BY DEF IInv, RequestMatchesStore
  <2>2. Loaded
    BY DEF IInv, NoWorkAfterClose, TypeOK, Phases, Loaded
  <2> QED
    BY <2>1, <2>2 DEF IInv, MemoryIsReported
<1> QED
  BY <1>1, Inductive, PTL

\* Unless the last file access failed, killing the process loses nothing of a
\* configured zone that has no Save pending (status.go:116-139).
THEOREM QuietZones == Spec => []QuietZoneIsDurable
<1>1. IInv => QuietZoneIsDurable
  BY DEF IInv, QuietZoneIsDurable, DiskIsMemory, Loaded, Configured
<1> QED
  BY <1>1, Inductive, PTL

\* The interval a zone sleeps fits what the store holds for it
\* (applyUpdateResult, zone.go:196-216).
THEOREM IntervalFits == Spec => []IntervalMatchesState
<1>1. IInv => IntervalMatchesState
  BY DEF IInv, IntervalMatchesState, IntervalChosen
<1> QED
  BY <1>1, Inductive, PTL

\* wg.Wait is a barrier: no runner works once the plugins are closed
\* (engine.go:126-150).
THEOREM CloseBarrier == Spec => []NoWorkAfterClose
<1>1. IInv => NoWorkAfterClose
  BY DEF IInv
<1> QED
  BY <1>1, Inductive, PTL

\* Whatever fails in a step, a runner ends only by a cancellation (runStep and
\* sleepForInterval, zone.go:84-107, 218-237).
THEOREM Survival == Spec => RunnerSurvives
<1> DEFINE Ends(z) == (pc'[z] = "ended" /\ pc[z] # "ended") => phase = "draining"
<1>1. IInv /\ Next => \A z \in Zones : Ends(z)
  <2> SUFFICES ASSUME IInv, Next, NEW z \in Zones
               PROVE  Ends(z)
    OBVIOUS
  <2> USE DEF IInv, TypeOK, Phases
  <2>1. CASE Engine
    BY <2>1 DEF Engine, Boot, Start, StartFails, Signal, CloseAll, FinalSave, Reload, Crash
  <2>2. ASSUME NEW y \in Zones, Runner(y)
        PROVE  Ends(z)
    <3>1. pc[y] \notin {"none", "ended"} /\ \A x \in Zones \ {y} : pc'[x] = pc[x]
      BY <2>2 DEF Runner, Work, Wake, WakeCancelled, LoadNothing, LoadOwned, LoadForeign,
              DiscardSave, CheckFails, CheckAligned, CheckMisaligned, UpdateFails,
              UpdateDone, UpdateInProgress, SaveResult, Goto, Finish
    <3>2. phase \in {"running", "draining"}
      BY <3>1 DEF NoWorkAfterClose
    <3>3. pc'[y] = "ended" => Cancelled
      BY <2>2 DEF Runner, Work, Wake, WakeCancelled, LoadNothing, LoadOwned, LoadForeign,
              DiscardSave, CheckFails, CheckAligned, CheckMisaligned, UpdateFails,
              UpdateDone, UpdateInProgress, SaveResult, Goto, Finish
    <3> QED
      BY <3>1, <3>2, <3>3 DEF Cancelled
  <2> QED
    BY <2>1, <2>2 DEF Next
<1>2. IInv /\ [Next]_vars =>
        [\A z \in Zones : (pc'[z] = "ended" /\ pc[z] # "ended") => phase = "draining"]_vars
  BY <1>1
<1> QED
  BY <1>2, Inductive, PTL DEF Spec, RunnerSurvives
=============================================================================
