----------------------------- MODULE OVHv1Proofs -----------------------------
(***************************************************************************)
(* For any keys and tasks and any number of failures and rollovers: only   *)
(* DNSSEC tasks that exist are tracked, there is one task at a time, and   *)
(* with a patient signer OVH has one of the zone's last two wishes.        *)
(***************************************************************************)
EXTENDS OVHv1, FiniteSetTheorems, TLAPS

-----------------------------------------------------------------------------
(* What Update tracks.                                                     *)

\* What is tracked, or about to be, is a DNSSEC task that OVH has.
Tracks(t) == t # None => IsDNSSECTask(t) /\ tasks[t].status # "free"

PollsATask == pc \in {"poll", "accelerate"} => task # None

TrackInv ==
  /\ TypeOK
  /\ Tracks(stored) /\ Tracks(task)
  /\ PollsATask

LEMMA RequestTypes ==
  /\ NoRequest \in Request
  /\ \A goal, shown \in SUBSET Keys :
       [goal |-> goal,
        add |-> {k \in goal : <<k, WantedDigestType>> \notin DSOf(shown)},
        remove |-> DSOf(shown) \ Asked(goal)] \in Request
<1>1. \A shown \in SUBSET Keys : DSOf(shown) \subseteq DS
  BY DEF DSOf, DS
<1> QED BY <1>1 DEF Request, NoRequest

\* buildDesiredKeys returns keys.
LEMMA DesiredTypes ==
  ASSUME TypeOK
  PROVE  BuildDesiredKeys(keys, req) \subseteq Keys
  BY DEF TypeOK, Request, BuildDesiredKeys, Removed

LEMMA FaultTypes == TypeOK /\ Fault => faults' \in 0..MaxFaults
  BY BoundsAssumption DEF TypeOK, Fault

\* A new task takes the place of none that is tracked.
LEMMA NewTask ==
  ASSUME TypeOK, NEW t \in TaskIds, NEW ks \in SUBSET Keys, CreateTask(t, ks)
  PROVE  /\ tasks' \in [TaskIds -> Task]
         /\ IsDNSSECTask(t) /\ t \notin {stored, task}
         /\ ~IsRunning(t)
         /\ tasks'[t] = [status |-> "todo", payload |-> ks]
         /\ \A u \in TaskIds \ {t} : tasks'[u] = tasks[u]
<1>1. [status |-> "todo", payload |-> ks] \in Task
  BY DEF Task, Statuses
<1> QED BY <1>1 DEF CreateTask, FreeIds, TypeOK

LEMMA InitTrackInv == Init => TrackInv
<1> SUFFICES ASSUME Init PROVE TrackInv
  OBVIOUS
<1>1. tasks \in [TaskIds -> Task]
  BY DEF Init, Task, Statuses, Free
<1>2. req \in Request
  BY DEF Init, Request, NoRequest
<1>3. faults \in 0..MaxFaults /\ rollovers \in 0..MaxRollovers
  BY BoundsAssumption DEF Init
<1>4. /\ want \in KeySets /\ last \in KeySets /\ wishes \subseteq KeySets
      /\ views \subseteq SUBSET Keys /\ keys \subseteq Keys
  BY KeySetsAssumption DEF Init
<1> QED BY <1>1, <1>2, <1>3, <1>4 DEF Init, TrackInv, TypeOK, Tracks, PollsATask, PCs

LEMMA RunnerTracks == TrackInv /\ Runner => TrackInv'
<1> SUFFICES ASSUME TrackInv, Runner PROVE TrackInv'
  OBVIOUS
<1>0. NoRequest \in Request
  BY RequestTypes
<1> USE DEF TrackInv, TypeOK, Tracks, PollsATask, PCs, world, zone, local, IsDNSSECTask
<1>1. CASE Check
  <2>1. req' \in Request
    <3>1. PICK goal \in wishes, shown \in views :
            req' = [goal |-> goal,
                    add |-> {k \in goal : <<k, WantedDigestType>> \notin DSOf(shown)},
                    remove |-> DSOf(shown) \ Asked(goal)]
      BY <1>1 DEF Check
    <3>2. goal \in SUBSET Keys /\ shown \in SUBSET Keys
      BY KeySetsAssumption
    <3> QED BY <3>1, <3>2, RequestTypes
  <2> QED BY <1>1, <2>1 DEF Check
<1>2. CASE Resume
  BY <1>2 DEF Resume
<1>3. CASE Store
  BY <1>0, <1>3 DEF Store, Quit
<1>4. CASE ListTasks
  BY <1>4 DEF ListTasks
<1>5. CASE ScanEnds
  BY <1>5 DEF ScanEnds
<1>6. CASE LoadKeys
  BY <1>0, <1>6, DesiredTypes DEF LoadKeys, Return
<1>7. ASSUME NEW t \in TaskIds, ScanFinds(t) PROVE TrackInv'
  BY <1>0, <1>7, NoneAssumption DEF ScanFinds, Return, IsRunning
<1>8. ASSUME NEW t \in TaskIds, ScanPasses(t) PROVE TrackInv'
  BY <1>8 DEF ScanPasses
<1>9. ASSUME NEW t \in TaskIds, Submit(t) PROVE TrackInv'
  <2>1. CreateTask(t, payload) /\ payload \in SUBSET Keys
    BY <1>9 DEF Submit
  <2> HIDE DEF TrackInv, TypeOK, IsDNSSECTask
  <2>2. /\ tasks' \in [TaskIds -> Task]
        /\ IsDNSSECTask(t)
        /\ tasks'[t] = [status |-> "todo", payload |-> payload]
        /\ \A u \in TaskIds \ {t} : tasks'[u] = tasks[u]
    BY <2>1, NewTask DEF TrackInv
  <2> USE DEF TrackInv, TypeOK, IsDNSSECTask
  <2>3. tasks'[t].status # "free" /\ (stored # None => tasks'[stored].status # "free")
    BY <2>2
  <2> QED BY <1>0, <1>9, <2>2, <2>3 DEF Submit, Return
<1>10. CASE PollFinished
  BY <1>0, <1>10 DEF PollFinished, Return
<1>11. CASE PollDead
  BY <1>0, <1>11 DEF PollDead, Quit
<1>12. CASE PollRunning
  BY <1>12 DEF PollRunning
<1>13. CASE Accelerate
  BY <1>13 DEF Accelerate
<1> QED
  BY <1>1, <1>2, <1>3, <1>4, <1>5, <1>6, <1>7, <1>8, <1>9, <1>10, <1>11, <1>12, <1>13
  DEF Runner

LEMMA FailureTracks == TrackInv /\ Failure => TrackInv'
<1> SUFFICES ASSUME TrackInv, Failure PROVE TrackInv'
  OBVIOUS
<1>0. NoRequest \in Request
  BY RequestTypes
<1> USE DEF TrackInv, TypeOK, Tracks, PollsATask, PCs, world, zone, IsDNSSECTask
<1>1. CASE Crash
  BY <1>0, <1>1, FaultTypes DEF Crash, Quit
<1>2. CASE CallFails
  BY <1>0, <1>2, FaultTypes DEF CallFails, Quit
<1>3. CASE SubmitAbandoned
  BY <1>0, <1>3, FaultTypes DEF SubmitAbandoned, Quit
<1>4. ASSUME NEW t \in TaskIds, ScanSkips(t) PROVE TrackInv'
  BY <1>4, FaultTypes DEF ScanSkips, IsRunning
<1>5. ASSUME NEW t \in TaskIds, SubmitResponseLost(t) PROVE TrackInv'
  <2>1. CreateTask(t, payload) /\ payload \in SUBSET Keys
    BY <1>5 DEF SubmitResponseLost
  <2> HIDE DEF TrackInv, TypeOK, IsDNSSECTask
  <2>2. /\ tasks' \in [TaskIds -> Task]
        /\ tasks'[t] = [status |-> "todo", payload |-> payload]
        /\ \A u \in TaskIds \ {t} : tasks'[u] = tasks[u]
    BY <2>1, NewTask DEF TrackInv
  <2> USE DEF TrackInv, TypeOK, IsDNSSECTask
  <2>3. stored # None => tasks'[stored].status # "free"
    BY <2>2
  <2> QED BY <1>0, <1>5, <2>2, <2>3, FaultTypes DEF SubmitResponseLost, Quit
<1> QED BY <1>1, <1>2, <1>3, <1>4, <1>5 DEF Failure

LEMMA EnvironmentTracks == TrackInv /\ Environment => TrackInv'
<1> SUFFICES ASSUME TrackInv, Environment PROVE TrackInv'
  OBVIOUS
<1> USE DEF TrackInv, TypeOK, Tracks, PollsATask, PCs, zone, local, IsDNSSECTask, Task,
            Statuses
<1>1. CASE Rollover
  <2>1. want' \in KeySets /\ rollovers' \in 0..MaxRollovers
    BY <1>1, BoundsAssumption DEF Rollover
  <2> QED BY <1>1, <2>1 DEF Rollover
<1>2. CASE Retire \/ Learn
  BY <1>2 DEF Retire, Learn
<1>3. CASE PostIsLost
  BY <1>3 DEF PostIsLost
<1>8. ASSUME NEW wish \in wishes, Forget(wish) PROVE TrackInv'
  BY <1>8 DEF Forget
<1>9. ASSUME NEW old \in views, Expire(old) PROVE TrackInv'
  BY <1>9 DEF Expire
<1>4. ASSUME NEW t \in TaskIds, TaskStarts(t) PROVE TrackInv'
  BY <1>4 DEF TaskStarts
<1>5. ASSUME NEW t \in TaskIds, TaskSucceeds(t) PROVE TrackInv'
  BY <1>5 DEF TaskSucceeds, Ended
<1>6. ASSUME NEW t \in TaskIds, TaskDies(t) PROVE TrackInv'
  BY <1>6 DEF TaskDies, Ended
<1>7. ASSUME NEW t \in TaskIds, PostArrives(t) PROVE TrackInv'
  <2>1. CreateTask(t, post) /\ post \in SUBSET Keys
    BY <1>7 DEF PostArrives
  <2> HIDE DEF TrackInv, TypeOK, IsDNSSECTask, Task
  <2>2. /\ tasks' \in [TaskIds -> Task]
        /\ tasks'[t] = [status |-> "todo", payload |-> post]
        /\ \A u \in TaskIds \ {t} : tasks'[u] = tasks[u]
    BY <2>1, NewTask DEF TrackInv
  <2> USE DEF TrackInv, TypeOK, IsDNSSECTask
  <2>3. /\ stored # None => tasks'[stored].status # "free"
        /\ task # None => tasks'[task].status # "free"
    BY <2>2
  <2> QED BY <1>7, <2>2, <2>3 DEF PostArrives
<1> QED BY <1>1, <1>2, <1>3, <1>4, <1>5, <1>6, <1>7, <1>8, <1>9 DEF Environment

LEMMA StepTrackInv == TrackInv /\ [Next]_vars => TrackInv'
<1> SUFFICES ASSUME TrackInv, [Next]_vars PROVE TrackInv'
  OBVIOUS
<1>1. CASE UNCHANGED vars
  BY <1>1 DEF vars, world, zone, local, TrackInv, TypeOK, Tracks, PollsATask, IsDNSSECTask
<1> QED
  BY <1>1, RunnerTracks, FailureTracks, EnvironmentTracks DEF Next

\* Types of the runner, its request, the tasks and the world, for any constants.
THEOREM OVHTypes == Spec => []TypeOK
<1>1. TrackInv => TypeOK
  BY DEF TrackInv
<1> QED BY <1>1, InitTrackInv, StepTrackInv, PTL DEF Spec

\* A task of another kind is never tracked, nor one that OVH does not have, over
\* adoption, lost responses, crashes and late POSTs.
THEOREM TracksOwnTasks == Spec => []TracksDNSSECTask
<1>1. TrackInv => TracksDNSSECTask
  BY DEF TrackInv, Tracks, TracksDNSSECTask
<1> QED BY <1>1, InitTrackInv, StepTrackInv, PTL DEF Spec

-----------------------------------------------------------------------------
(* One task at a time.                                                     *)

AtMostOneRuns == \A t, u \in TaskIds : IsRunning(t) /\ IsRunning(u) => t = u

\* The search has not passed the running task, and ends only without one.
SearchMissesNothing ==
  /\ pc = "scan" => Running \subseteq unread
  /\ pc \in {"keys", "submit"} => Running = {}

OneInv ==
  /\ post # None => excused
  /\ ~excused => AtMostOneRuns /\ SearchMissesNothing

LEMMA InitOneInv == Init => OneInv
<1> SUFFICES ASSUME Init PROVE OneInv
  OBVIOUS
<1>1. \A t \in TaskIds : ~IsRunning(t)
  BY DEF Init, IsRunning, Free
<1> QED BY <1>1 DEF Init, OneInv, AtMostOneRuns, SearchMissesNothing

\* A step that starts no task and ends no excuse keeps the number of tasks.
LEMMA NoneStarts ==
  ASSUME OneInv, excused' = excused, post' = post,
         \A t \in TaskIds : IsRunning(t)' => IsRunning(t),
         pc' = "scan" => pc = "scan" /\ unread' = unread,
         pc' \in {"keys", "submit"} => pc \in {"keys", "submit"}
  PROVE  OneInv'
<1>1. Running' \subseteq Running
  BY DEF Running
<1> QED BY <1>1 DEF OneInv, AtMostOneRuns, SearchMissesNothing

\* So does one that starts a task where there was none.
LEMMA OneStarts ==
  ASSUME TypeOK, NEW t \in TaskIds, NEW ks \in SUBSET Keys, CreateTask(t, ks),
         Running = {}, pc' \notin {"scan", "keys", "submit"},
         post' # None => excused'
  PROVE  OneInv'
<1>1. \A u \in TaskIds \ {t} : tasks'[u] = tasks[u]
  BY NewTask
<1>2. \A u \in TaskIds : IsRunning(u)' => u = t
  BY <1>1 DEF Running, IsRunning, IsDNSSECTask
<1> QED BY <1>2 DEF OneInv, AtMostOneRuns, SearchMissesNothing

LEMMA RunnerKeepsOne == TypeOK /\ OneInv /\ Runner => OneInv'
<1> SUFFICES ASSUME TypeOK, OneInv, Runner PROVE OneInv'
  OBVIOUS
<1> USE DEF world, local
<1>1. CASE Check
  <2>1. \A t \in TaskIds : IsRunning(t)' = IsRunning(t)
    BY <1>1 DEF Check, IsRunning, IsDNSSECTask
  <2>2. Settled => AtMostOneRuns /\ post = None
    BY DEF Settled, Running, AtMostOneRuns
  <2> QED BY <1>1, <2>1, <2>2 DEF Check, OneInv, AtMostOneRuns, SearchMissesNothing
<1>2. CASE Resume \/ Store \/ PollFinished \/ PollDead \/ PollRunning \/ Accelerate
  BY <1>2, NoneStarts
  DEF Resume, Store, PollFinished, PollDead, PollRunning, Accelerate, Quit, Return, IsRunning,
      IsDNSSECTask
<1>3. CASE ListTasks
  <2>1. Running' = Running /\ Running \subseteq unread'
    BY <1>3 DEF ListTasks, Running, IsRunning, IsDNSSECTask
  <2>2. \A t \in TaskIds : IsRunning(t)' = IsRunning(t)
    BY <1>3 DEF ListTasks, IsRunning, IsDNSSECTask
  <2> QED BY <1>3, <2>1, <2>2 DEF ListTasks, OneInv, AtMostOneRuns, SearchMissesNothing
<1>4. ASSUME NEW t \in TaskIds, ScanFinds(t) PROVE OneInv'
  BY <1>4, NoneStarts DEF ScanFinds, Return, IsRunning, IsDNSSECTask
<1>5. ASSUME NEW t \in TaskIds, ScanPasses(t) PROVE OneInv'
  <2>1. Running' = Running /\ t \notin Running
    BY <1>5 DEF ScanPasses, Running, IsRunning, IsDNSSECTask
  <2>2. \A u \in TaskIds : IsRunning(u)' = IsRunning(u)
    BY <1>5 DEF ScanPasses, IsRunning, IsDNSSECTask
  <2> QED BY <1>5, <2>1, <2>2 DEF ScanPasses, OneInv, AtMostOneRuns, SearchMissesNothing
<1>6. CASE ScanEnds
  <2>1. Running' = Running
    BY <1>6 DEF ScanEnds, Running, IsRunning, IsDNSSECTask
  <2>2. \A u \in TaskIds : IsRunning(u)' = IsRunning(u)
    BY <1>6 DEF ScanEnds, IsRunning, IsDNSSECTask
  <2> QED BY <1>6, <2>1, <2>2 DEF ScanEnds, OneInv, AtMostOneRuns, SearchMissesNothing
<1>7. CASE LoadKeys
  BY <1>7, NoneStarts DEF LoadKeys, Return, IsRunning, IsDNSSECTask
<1>8. ASSUME NEW t \in TaskIds, Submit(t) PROVE OneInv'
  <2>1. CASE excused
    BY <1>8, <2>1 DEF Submit, OneInv
  <2>2. CASE ~excused
    <3>1. Running = {} /\ post = None /\ payload \in SUBSET Keys
      BY <1>8, <2>2 DEF Submit, OneInv, SearchMissesNothing, TypeOK
    <3> QED BY <1>8, <3>1, OneStarts DEF Submit, Return
  <2> QED BY <2>1, <2>2
<1> QED BY <1>1, <1>2, <1>3, <1>4, <1>5, <1>6, <1>7, <1>8 DEF Runner

LEMMA FailureKeepsOne == TypeOK /\ OneInv /\ Failure => OneInv'
<1> SUFFICES ASSUME TypeOK, OneInv, Failure PROVE OneInv'
  OBVIOUS
<1> USE DEF world
<1>1. CASE Crash \/ CallFails
  BY <1>1, NoneStarts DEF Crash, CallFails, Quit, IsRunning, IsDNSSECTask
<1>2. CASE SubmitAbandoned
  BY <1>2 DEF SubmitAbandoned, OneInv
<1>3. ASSUME NEW t \in TaskIds, ScanSkips(t) PROVE OneInv'
  <2>1. CASE excused'
    BY <2>1 DEF OneInv
  <2>2. CASE ~excused'
    <3>1. ~excused /\ t \notin Running
      BY <1>3, <2>2 DEF ScanSkips, Running, TypeOK
    <3>2. Running' = Running
      BY <1>3 DEF ScanSkips, Running, IsRunning, IsDNSSECTask
    <3>3. \A u \in TaskIds : IsRunning(u)' = IsRunning(u)
      BY <1>3 DEF ScanSkips, IsRunning, IsDNSSECTask
    <3> QED
      BY <1>3, <3>1, <3>2, <3>3 DEF ScanSkips, OneInv, AtMostOneRuns, SearchMissesNothing
  <2> QED BY <2>1, <2>2
<1>4. ASSUME NEW t \in TaskIds, SubmitResponseLost(t) PROVE OneInv'
  <2>1. CASE excused
    BY <1>4, <2>1 DEF SubmitResponseLost, OneInv
  <2>2. CASE ~excused
    <3>1. Running = {} /\ post = None /\ payload \in SUBSET Keys
      BY <1>4, <2>2 DEF SubmitResponseLost, OneInv, SearchMissesNothing, TypeOK
    <3> QED BY <1>4, <3>1, OneStarts DEF SubmitResponseLost, Quit
  <2> QED BY <2>1, <2>2
<1> QED BY <1>1, <1>2, <1>3, <1>4 DEF Failure

LEMMA EnvironmentKeepsOne == TypeOK /\ OneInv /\ Environment => OneInv'
<1> SUFFICES ASSUME TypeOK, OneInv, Environment PROVE OneInv'
  OBVIOUS
<1> USE DEF local
<1>1. CASE Rollover \/ Retire \/ Learn
  BY <1>1, NoneStarts DEF Rollover, Retire, Learn, IsRunning, IsDNSSECTask
<1>5. ASSUME NEW wish \in wishes, Forget(wish) PROVE OneInv'
  BY <1>5, NoneStarts DEF Forget, IsRunning, IsDNSSECTask
<1>6. ASSUME NEW old \in views, Expire(old) PROVE OneInv'
  BY <1>6, NoneStarts DEF Expire, IsRunning, IsDNSSECTask
<1>2. ASSUME NEW t \in TaskIds, TaskStarts(t) \/ TaskSucceeds(t) \/ TaskDies(t)
      PROVE  OneInv'
  <2>1. \A u \in TaskIds : IsRunning(u)' => IsRunning(u)
    BY <1>2 DEF TaskStarts, TaskSucceeds, TaskDies, Ended, IsRunning, IsDNSSECTask, TypeOK,
                Task
  <2> QED BY <1>2, <2>1, NoneStarts DEF TaskStarts, TaskSucceeds, TaskDies
<1>3. ASSUME NEW t \in TaskIds, PostArrives(t) PROVE OneInv'
  BY <1>3 DEF PostArrives, OneInv
<1>4. CASE PostIsLost
  BY <1>4 DEF PostIsLost, OneInv
<1> QED BY <1>1, <1>2, <1>3, <1>4, <1>5, <1>6 DEF Environment

LEMMA StepOneInv == TypeOK /\ OneInv /\ [Next]_vars => OneInv'
<1> SUFFICES ASSUME TypeOK, OneInv, [Next]_vars PROVE OneInv'
  OBVIOUS
<1>1. CASE UNCHANGED vars
  BY <1>1, NoneStarts DEF vars, world, local, IsRunning, IsDNSSECTask
<1> QED BY <1>1, RunnerKeepsOne, FailureKeepsOne, EnvironmentKeepsOne DEF Next

\* However often calls fail, responses are lost and the process crashes, a second
\* task is only submitted after a running one could not be read or a POST was
\* abandoned on its way.
THEOREM OneTaskAtATime == Spec => []AtMostOneTask
<1>1. OneInv => AtMostOneTask
  <2> SUFFICES ASSUME OneInv, ~excused PROVE Cardinality(Running) <= 1
    BY DEF AtMostOneTask
  <2>1. CASE Running = {}
    BY <2>1, FS_EmptySet
  <2>2. ASSUME NEW t \in Running PROVE Cardinality(Running) <= 1
    <3>1. Running = {t}
      BY <2>2 DEF OneInv, AtMostOneRuns, Running
    <3>2. Cardinality({t}) = 1
      BY FS_Singleton
    <3> QED BY <3>1, <3>2
  <2> QED BY <2>1, <2>2
<1> QED BY <1>1, InitOneInv, StepOneInv, OVHTypes, PTL DEF Spec

-----------------------------------------------------------------------------
(* What the tasks do.  OVH derives from a key the DS record the zone's CDS *)
(* asks for, and the signer is patient.                                    *)

\* A request adds nothing that its goal has not and removes nothing that it has.
RequestIsSane ==
  /\ req.add \subseteq req.goal
  /\ \A ds \in req.remove : ds[1] \notin req.goal

\* The difference of one of the last two wishes to the other.
LeadsAcross ==
  /\ req.goal \in {want, last}
  /\ \E shown \in {want, last} \ {req.goal} :
       /\ req.goal \ shown \subseteq req.add
       /\ \A k \in shown \ req.goal : \E ds \in req.remove : ds[1] = k

\* What OVH has, and all that is under way there, is the last wish.
LastOnly ==
  /\ keys = last
  /\ \A t \in TaskIds : IsRunning(t) => tasks[t].payload = last
  /\ post \in {None, last}

\* The zone's turn, for which a patient signer waits until all is quiet, has
\* overtaken the request.
Overtaken == req.goal = last /\ LastOnly

TasksFit == \A t \in TaskIds : IsRunning(t) => tasks[t].payload \in {want, last}

FitInv ==
  /\ wishes \subseteq {want, last}
  /\ views \subseteq {want, last} /\ keys \in views
  /\ TasksFit
  /\ post \in {None, want, last}
  /\ InFlight => RequestIsSane /\ (LeadsAcross \/ Overtaken)
  /\ pc = "submit" => payload = req.goal

\* DS records are equal when keys are.
LEMMA SameKeys ==
  ASSUME DigestTypes = {WantedDigestType}, NEW shown, NEW wish, DSOf(shown) = Asked(wish)
  PROVE  \A k : k \in shown <=> k \in wish
<1>1. \A k : k \in shown <=> <<k, WantedDigestType>> \in DSOf(shown)
  BY DEF DSOf
<1>2. \A k : k \in wish <=> <<k, WantedDigestType>> \in Asked(wish)
  BY DEF Asked
<1> QED BY <1>1, <1>2

\* buildDesiredKeys makes the goal of a request out of OVH's keys.
LEMMA DesiredIsGoal ==
  ASSUME FitInv, InFlight
  PROVE  BuildDesiredKeys(keys, req) = req.goal
<1>1. RequestIsSane /\ keys \in {want, last}
  BY DEF FitInv
<1>2. CASE LeadsAcross
  <2>1. PICK shown \in {want, last} \ {req.goal} :
          /\ req.goal \ shown \subseteq req.add
          /\ \A k \in shown \ req.goal : \E ds \in req.remove : ds[1] = k
    BY <1>2 DEF LeadsAcross
  <2>2. keys = req.goal \/ keys = shown
    BY <1>1, <1>2, <2>1 DEF LeadsAcross
  <2> QED BY <1>1, <2>1, <2>2 DEF RequestIsSane, BuildDesiredKeys, Removed
<1>3. CASE Overtaken
  BY <1>1, <1>3 DEF Overtaken, LastOnly, RequestIsSane, BuildDesiredKeys, Removed
<1> QED BY <1>2, <1>3 DEF FitInv

LEMMA InitFitInv == Init => FitInv
<1> SUFFICES ASSUME Init PROVE FitInv
  OBVIOUS
<1>1. \A t \in TaskIds : ~IsRunning(t)
  BY DEF Init, IsRunning, Free
<1> QED BY <1>1 DEF Init, FitInv, TasksFit, InFlight

\* A step that leaves the zone alone and brings one of the last two wishes, or
\* nothing but the last one to a request that was overtaken.
LEMMA WishesStay ==
  ASSUME FitInv, UNCHANGED <<want, last>>,
         wishes' \subseteq {want, last},
         views' \subseteq {want, last}, keys' \in views',
         TasksFit', post' \in {None, want, last},
         InFlight' => InFlight /\ req' = req /\ (LastOnly => LastOnly'),
         pc' = "submit" => payload' = req.goal
  PROVE  FitInv'
<1>1. ASSUME InFlight' PROVE RequestIsSane' /\ (LeadsAcross' \/ Overtaken')
  <2>1. InFlight /\ req' = req /\ (LastOnly => LastOnly')
    BY <1>1
  <2>2. RequestIsSane /\ (LeadsAcross \/ Overtaken)
    BY <2>1 DEF FitInv
  <2>3. RequestIsSane'
    BY <2>1, <2>2 DEF RequestIsSane
  <2>4. LeadsAcross => LeadsAcross'
    BY <2>1 DEF LeadsAcross
  <2>5. Overtaken => Overtaken'
    BY <2>1 DEF Overtaken
  <2> QED BY <2>2, <2>3, <2>4, <2>5
<1>2. pc' = "submit" => payload' = req'.goal
  BY DEF InFlight
<1> QED BY <1>1, <1>2 DEF FitInv

\* Nothing changes at OVH, nor for the resolvers.
LEMMA WorldStays ==
  ASSUME FitInv, UNCHANGED <<want, last, wishes, views, keys, tasks>>,
         post' \in {None, want, last},
         InFlight' => InFlight /\ req' = req /\ post' = post,
         pc' = "submit" => payload' = req.goal
  PROVE  FitInv'
<1>1. TasksFit' /\ (post' = post => LastOnly' = LastOnly)
  BY DEF FitInv, TasksFit, LastOnly, IsRunning, IsDNSSECTask
<1> QED BY <1>1, WishesStay DEF FitInv

LEMMA CheckFits ==
  ASSUME DigestTypes = {WantedDigestType}, FitInv, Check
  PROVE  FitInv'
<1>1. PICK goal \in wishes, shown \in views :
        /\ DSOf(shown) # Asked(goal)
        /\ req' = [goal |-> goal,
                   add |-> {k \in goal : <<k, WantedDigestType>> \notin DSOf(shown)},
                   remove |-> DSOf(shown) \ Asked(goal)]
  BY DEF Check
<1>2. /\ req'.goal = goal
      /\ req'.add = goal \ shown
      /\ req'.remove = (shown \ goal) \X {WantedDigestType}
  <2>1. {k \in goal : <<k, WantedDigestType>> \notin DSOf(shown)} = goal \ shown
    BY DEF DSOf
  <2>2. DSOf(shown) \ Asked(goal) = (shown \ goal) \X {WantedDigestType}
    BY DEF DSOf, Asked
  <2> QED BY <1>1, <2>1, <2>2
<1>3. goal \in {want, last} /\ shown \in {want, last} /\ shown # goal
  BY <1>1 DEF FitInv, DSOf, Asked
<1>4. UNCHANGED <<want, last, wishes, views, keys, tasks, post>> /\ pc' = "list"
  BY DEF Check, world, zone
<1>5. RequestIsSane'
  BY <1>2 DEF RequestIsSane
<1>6. \A k \in shown \ goal : \E ds \in req'.remove : ds[1] = k
  <2> SUFFICES ASSUME NEW k \in shown \ goal PROVE \E ds \in req'.remove : ds[1] = k
    OBVIOUS
  <2>1. <<k, WantedDigestType>> \in req'.remove
    BY <1>2
  <2> QED BY <2>1
<1>7. LeadsAcross'
  BY <1>2, <1>3, <1>4, <1>6 DEF LeadsAcross
<1>8. TasksFit'
  BY <1>4 DEF FitInv, TasksFit, IsRunning, IsDNSSECTask
<1> QED BY <1>4, <1>5, <1>7, <1>8 DEF FitInv

\* A task created for the goal of the request, or by a POST on its way.
LEMMA CreatedFits ==
  ASSUME TypeOK, FitInv, NEW t \in TaskIds, NEW ks \in SUBSET Keys, CreateTask(t, ks),
         ks \in {want, last}, UNCHANGED <<want, last, wishes, views, keys>>
  PROVE  /\ TasksFit'
         /\ LastOnly /\ ks = last /\ post' \in {None, last} => LastOnly'
<1>1. /\ tasks'[t].payload = ks
      /\ \A u \in TaskIds \ {t} : tasks'[u] = tasks[u]
  <2>1. /\ tasks'[t] = [status |-> "todo", payload |-> ks]
        /\ \A u \in TaskIds \ {t} : tasks'[u] = tasks[u]
    BY NewTask
  <2> QED BY <2>1
<1> QED BY <1>1 DEF FitInv, TasksFit, LastOnly, IsRunning, IsDNSSECTask

LEMMA SubmitFits ==
  ASSUME TypeOK, FitInv, NEW t \in TaskIds, pc = "submit", CreateTask(t, payload),
         UNCHANGED <<zone, views, keys, post>>, pc' \in {"store", "idle"}
  PROVE  FitInv'
<1>1. payload \in SUBSET Keys /\ payload \in {want, last}
  BY DEF TypeOK, FitInv, InFlight, LeadsAcross, Overtaken
<1>2. UNCHANGED <<want, last, wishes, views, keys, post>> /\ ~InFlight' /\ pc' # "submit"
  BY DEF zone, InFlight
<1>3. TasksFit'
  BY <1>1, <1>2, CreatedFits
<1> QED BY <1>2, <1>3, WishesStay DEF FitInv

\* The zone turns from its wish when all is quiet: what is under way has then been
\* overtaken.
LEMMA TurnFits ==
  ASSUME DigestTypes = {WantedDigestType}, TypeOK, FitInv, Quiet, last' = want,
         UNCHANGED <<wishes, views, keys, tasks, post, pc, local>>
  PROVE  FitInv'
<1>1. \A shown \in views : shown = want
  <2> SUFFICES ASSUME NEW shown \in views PROVE shown = want
    OBVIOUS
  <2>1. DSOf(shown) = Asked(want)
    BY DEF Quiet
  <2>2. \A k : k \in shown <=> k \in want
    BY <2>1, SameKeys
  <2> QED BY <2>2
<1>2. keys = last' /\ views = {last'} /\ wishes = {last'}
  BY <1>1 DEF FitInv, Quiet
<1>3. \A t \in TaskIds : IsRunning(t)' => tasks'[t].payload = last'
  BY DEF Quiet, Running, IsRunning, IsDNSSECTask
<1>4. LastOnly' /\ TasksFit' /\ post' \in {None, last'}
  BY <1>2, <1>3 DEF Quiet, LastOnly, TasksFit
<1>5. InFlight' => InFlight /\ req' = req /\ req'.goal = last'
  BY DEF Quiet, InFlight, local
<1>6. InFlight' => RequestIsSane' /\ Overtaken'
  BY <1>4, <1>5 DEF FitInv, RequestIsSane, Overtaken
<1>7. pc' = "submit" => payload' = req'.goal
  BY DEF FitInv, local
<1> QED BY <1>2, <1>4, <1>6, <1>7 DEF FitInv

\* A task that ends well brings one of the last two wishes.
LEMMA SuccessFits ==
  ASSUME TypeOK, FitInv, NEW t \in TaskIds, TaskSucceeds(t)
  PROVE  FitInv'
<1>1. /\ IsRunning(t) /\ keys' = tasks[t].payload /\ views' = views \cup {keys'}
      /\ UNCHANGED <<want, last, wishes, post, pc, req, payload>>
  BY DEF TaskSucceeds, IsRunning, zone, local
<1>2. \A u \in TaskIds : IsRunning(u)' => IsRunning(u) /\ tasks'[u] = tasks[u]
  BY DEF TaskSucceeds, Ended, IsRunning, IsDNSSECTask, TypeOK, Task
<1>3. keys' \in {want, last}
  BY <1>1 DEF FitInv, TasksFit
<1>4. TasksFit'
  BY <1>1, <1>2 DEF FitInv, TasksFit
<1>5. LastOnly => LastOnly'
  BY <1>1, <1>2 DEF LastOnly
<1>6. InFlight' = InFlight
  BY <1>1 DEF InFlight
<1> QED BY <1>1, <1>3, <1>4, <1>5, <1>6, WishesStay DEF FitInv

LEMMA RunnerFits ==
  ASSUME DigestTypes = {WantedDigestType}, TypeOK, FitInv, Runner
  PROVE  FitInv'
<1> USE DEF world, zone
<1>1. CASE Check
  BY <1>1, CheckFits
<1>2. CASE Resume \/ ListTasks \/ ScanEnds \/ PollRunning \/ Accelerate
  BY <1>2, WorldStays
  DEF Resume, ListTasks, ScanEnds, PollRunning, Accelerate, local, InFlight, FitInv
<1>3. CASE Store \/ PollDead \/ PollFinished
  BY <1>3, WorldStays DEF Store, PollDead, PollFinished, Quit, Return, InFlight, FitInv
<1>4. CASE LoadKeys
  <2>1. pc' = "submit" => payload' = req.goal
    BY <1>4, DesiredIsGoal DEF LoadKeys, Return, InFlight
  <2>2. InFlight' => InFlight /\ req' = req
    BY <1>4 DEF LoadKeys, Return, InFlight
  <2> QED BY <1>4, <2>1, <2>2, WorldStays DEF LoadKeys, FitInv
<1>5. ASSUME NEW t \in TaskIds, ScanFinds(t) \/ ScanPasses(t) PROVE FitInv'
  BY <1>5, WorldStays DEF ScanFinds, ScanPasses, Return, InFlight, FitInv
<1>6. ASSUME NEW t \in TaskIds, Submit(t) PROVE FitInv'
  BY <1>6, SubmitFits DEF Submit, Return
<1> QED BY <1>1, <1>2, <1>3, <1>4, <1>5, <1>6 DEF Runner

LEMMA FailureFits ==
  ASSUME TypeOK, FitInv, Failure
  PROVE  FitInv'
<1> USE DEF world, zone
<1>1. CASE Crash \/ CallFails
  BY <1>1, WorldStays DEF Crash, CallFails, Quit, InFlight, FitInv
<1>2. CASE SubmitAbandoned
  <2>1. payload \in {want, last}
    BY <1>2 DEF SubmitAbandoned, FitInv, InFlight, LeadsAcross, Overtaken
  <2> QED BY <1>2, <2>1, WorldStays DEF SubmitAbandoned, Quit, InFlight
<1>3. ASSUME NEW t \in TaskIds, ScanSkips(t) PROVE FitInv'
  BY <1>3, WorldStays DEF ScanSkips, InFlight, FitInv
<1>4. ASSUME NEW t \in TaskIds, SubmitResponseLost(t) PROVE FitInv'
  BY <1>4, SubmitFits DEF SubmitResponseLost, Quit
<1> QED BY <1>1, <1>2, <1>3, <1>4 DEF Failure

LEMMA EnvironmentFits ==
  ASSUME DigestTypes = {WantedDigestType}, PatientSigner = TRUE, TypeOK, FitInv, Environment
  PROVE  FitInv'
<1>1. CASE Rollover \/ Retire
  BY <1>1, TurnFits DEF Rollover, Retire
<1>2. CASE Learn
  <2>1. UNCHANGED <<want, last, views, keys, tasks, post, pc, req, payload>>
    BY <1>2 DEF Learn, local
  <2>2. TasksFit' = TasksFit /\ LastOnly' = LastOnly /\ InFlight' = InFlight
    BY <2>1 DEF TasksFit, LastOnly, InFlight, IsRunning, IsDNSSECTask
  <2> QED BY <1>2, <2>1, <2>2, WishesStay DEF Learn, FitInv
<1>3. ASSUME NEW wish \in wishes, Forget(wish) PROVE FitInv'
  <2>1. UNCHANGED <<want, last, views, keys, tasks, post, pc, req, payload>>
    BY <1>3 DEF Forget, local
  <2>2. TasksFit' = TasksFit /\ LastOnly' = LastOnly /\ InFlight' = InFlight
    BY <2>1 DEF TasksFit, LastOnly, InFlight, IsRunning, IsDNSSECTask
  <2> QED BY <1>3, <2>1, <2>2, WishesStay DEF Forget, FitInv
<1>4. ASSUME NEW old \in views, Expire(old) PROVE FitInv'
  <2>1. UNCHANGED <<want, last, wishes, keys, tasks, post, pc, req, payload>>
    BY <1>4 DEF Expire, zone, local
  <2>2. TasksFit' = TasksFit /\ LastOnly' = LastOnly /\ InFlight' = InFlight
    BY <2>1 DEF TasksFit, LastOnly, InFlight, IsRunning, IsDNSSECTask
  <2> QED BY <1>4, <2>1, <2>2, WishesStay DEF Expire, FitInv
<1>5. CASE PostIsLost
  <2>1. UNCHANGED <<want, last, wishes, views, keys, tasks, pc, req, payload>> /\ post' = None
    BY <1>5 DEF PostIsLost, zone, local
  <2>2. TasksFit' = TasksFit /\ (LastOnly => LastOnly') /\ InFlight' = InFlight
    BY <2>1 DEF TasksFit, LastOnly, InFlight, IsRunning, IsDNSSECTask
  <2> QED BY <2>1, <2>2, WishesStay DEF FitInv
<1>6. ASSUME NEW t \in TaskIds, TaskStarts(t) \/ TaskDies(t) PROVE FitInv'
  <2>1. UNCHANGED <<want, last, wishes, views, keys, post, pc, req, payload>>
    BY <1>6 DEF TaskStarts, TaskDies, zone, local
  <2>2. \A u \in TaskIds :
          IsRunning(u)' => IsRunning(u) /\ tasks'[u].payload = tasks[u].payload
    BY <1>6 DEF TaskStarts, TaskDies, Ended, IsRunning, IsDNSSECTask, TypeOK, Task
  <2>3. (TasksFit => TasksFit') /\ (LastOnly => LastOnly') /\ InFlight' = InFlight
    BY <2>1, <2>2 DEF TasksFit, LastOnly, InFlight
  <2> QED BY <2>1, <2>3, WishesStay DEF FitInv
<1>7. ASSUME NEW t \in TaskIds, TaskSucceeds(t) PROVE FitInv'
  BY <1>7, SuccessFits
<1>8. ASSUME NEW t \in TaskIds, PostArrives(t) PROVE FitInv'
  <2>1. /\ UNCHANGED <<want, last, wishes, views, keys, pc, req, payload>> /\ post' = None
        /\ post # None /\ CreateTask(t, post)
    BY <1>8 DEF PostArrives, zone, local
  <2>2. post \in SUBSET Keys /\ post \in {want, last}
    BY <2>1 DEF TypeOK, FitInv
  <2>3. TasksFit' /\ (LastOnly => LastOnly')
    <3>1. LastOnly => post = last
      BY <2>1 DEF LastOnly
    <3> QED BY <2>1, <2>2, <3>1, CreatedFits
  <2>4. InFlight' = InFlight
    BY <2>1 DEF InFlight
  <2> QED BY <2>1, <2>3, <2>4, WishesStay DEF FitInv
<1> QED BY <1>1, <1>2, <1>3, <1>4, <1>5, <1>6, <1>7, <1>8 DEF Environment

LEMMA StepFitInv ==
  ASSUME DigestTypes = {WantedDigestType}, PatientSigner = TRUE, TypeOK, FitInv, [Next]_vars
  PROVE  FitInv'
<1>1. CASE UNCHANGED vars
  BY <1>1, WorldStays DEF vars, world, zone, local, InFlight, FitInv
<1> QED BY <1>1, RunnerFits, FailureFits, EnvironmentFits DEF Next

\* With a signer that waits until all is quiet, and DS records of one digest type,
\* what is submitted is the wish that the request was computed for, however old the
\* wish and the DS records that were compared (ovhv1_helpers.go:63-114).
THEOREM SubmitsTheGoal ==
  ASSUME DigestTypes = {WantedDigestType}, PatientSigner = TRUE
  PROVE  Spec => []SubmitsDesiredKeys
<1>1. TypeOK /\ FitInv /\ [Next]_vars => FitInv'
  BY StepFitInv
<1>2. FitInv => SubmitsDesiredKeys
  BY DEF FitInv, SubmitsDesiredKeys
<1> QED BY <1>1, <1>2, InitFitInv, OVHTypes, PTL DEF Spec

\* Under the same hypotheses OVH only ever has the keys of one of the zone's last
\* two wishes, whatever was lost or done twice, over late POSTs, second tasks, and
\* wishes and DS records that resolvers return late.
THEOREM OnlyWantedKeys ==
  ASSUME DigestTypes = {WantedDigestType}, PatientSigner = TRUE
  PROVE  Spec => []ParentFollowsZone
<1>1. TypeOK /\ FitInv /\ [Next]_vars => FitInv'
  BY StepFitInv
<1>2. FitInv => ParentFollowsZone
  BY DEF FitInv, ParentFollowsZone
<1> QED BY <1>1, <1>2, InitFitInv, OVHTypes, PTL DEF Spec
=============================================================================
