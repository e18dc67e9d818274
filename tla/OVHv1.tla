------------------------------- MODULE OVHv1 -------------------------------
(***************************************************************************)
(* The OVH plugin (internal/plugin/ovhv1) driven by the runner of one zone *)
(* against the OVH API.                                                    *)
(*                                                                         *)
(* OVH changes the keys of a domain by asynchronous tasks.  A fresh Update *)
(* lists the domain's tasks and reads them one by one to adopt a running   *)
(* DNSSEC task; without one it reads the keys and POSTs the whole new set, *)
(* which creates a task.  A later Update polls the task it tracks.         *)
(*                                                                         *)
(* The runner compares a wish of the zone with DS records, and has each    *)
(* from one of several caching resolvers: either may be old, and the wish  *)
(* older than the DS records.                                              *)
(*                                                                         *)
(* Every call may fail; a POST may take effect although it failed, at once *)
(* or later; the process may crash, and it remembers only what was stored. *)
(* The API itself is not in the repository: its side is an assumption.     *)
(***************************************************************************)
EXTENDS Naturals, FiniteSets

CONSTANTS
  Keys,               \* DNSSEC keys, with distinct (tag, algorithm) pairs
  KeySets,            \* the key sets the zone's signer may want at the parent
  TaskIds,
  OtherTasks,         \* tasks of TaskIds that have nothing to do with DNSSEC
  DigestTypes,        \* the digest types of the DS records OVH derives from a key
  WantedDigestType,   \* that of the zone's CDS records
  PatientSigner,      \* the signer turns from its wish only when all is Quiet
  TasksMayDie,        \* a task may end as error, problem or cancelled
  AllowAcceleration,  \* allow_acceleration of the group
  MaxFaults,          \* bound: failed calls and crashes
  MaxRollovers,       \* bound: changes of the wanted key set
  None

ASSUME KeySetsAssumption == KeySets \subseteq (SUBSET Keys) \ {{}}
ASSUME OtherTasksAssumption == OtherTasks \subseteq TaskIds
ASSUME NoneAssumption == None \notin TaskIds
ASSUME BoundsAssumption ==
  /\ {PatientSigner, TasksMayDie, AllowAcceleration} \subseteq BOOLEAN
  /\ MaxFaults \in Nat /\ MaxRollovers \in Nat

VARIABLES
  \* the zone, the resolvers and OVH
  want,         \* the keys the zone's CDS/CDNSKEY records ask for
  last,         \* those they asked for before, which the zone still has
  wishes,       \* the wishes that some resolver may return as validated
  views,        \* the key sets whose DS records some resolver may return
  keys,         \* the domain's keys at OVH
  tasks,
  post,         \* the payload of an abandoned POST that OVH may still receive
  \* the runner and its plugin
  stored,       \* the task id in the zone's stored state
  pc,
  req,          \* the UpdateRequest, with the goal it was computed for
  unread,       \* findRunningTask: the ids still to read
  payload,      \* submitUpdate: the keys to POST
  task,         \* the task id Update works on or returns
  \* bounds and observation
  faults, rollovers,
  excused       \* a running task was missed, or a POST abandoned

zone == <<want, last, wishes>>
world == <<zone, views, keys, tasks, post>>
local == <<req, unread, payload, task>>
vars == <<world, stored, pc, local, faults, rollovers, excused>>

\* "dead" is any of error, problem and cancelled, which the code treats alike.
Statuses == {"free", "todo", "doing", "done", "dead"}
Task == [status : Statuses, payload : SUBSET Keys]
DS == Keys \X (DigestTypes \cup {WantedDigestType})
Request == [goal : SUBSET Keys, add : SUBSET Keys, remove : SUBSET DS]
NoRequest == [goal |-> {}, add |-> {}, remove |-> {}]
PCs == {"idle", "list", "scan", "keys", "submit", "poll", "accelerate", "store"}

IsDNSSECTask(t) == t \notin OtherTasks
IsRunning(t) == IsDNSSECTask(t) /\ tasks[t].status \in {"todo", "doing"}
Running == {t \in TaskIds : IsRunning(t)}

Free == [status |-> "free", payload |-> {}]

Init ==
  /\ want \in KeySets /\ last \in KeySets
  /\ wishes = {want, last}
  /\ keys = last
  /\ views = {keys}
  /\ tasks = [t \in TaskIds |-> IF IsDNSSECTask(t) THEN Free
                                ELSE [Free EXCEPT !.status = "doing"]]
  /\ post = None
  /\ stored = None
  /\ pc = "idle"
  /\ req = NoRequest /\ unread = {} /\ payload = {} /\ task = None
  /\ faults = 0 /\ rollovers = 0
  /\ excused = FALSE

Fault == faults < MaxFaults /\ faults' = faults + 1

\* The end of a step with an error, which leaves the stored state as it is, or
\* with nothing to do.
Quit ==
  /\ pc' = "idle"
  /\ req' = NoRequest /\ unread' = {} /\ payload' = {} /\ task' = None

\* Update returns the id of a task at work, or none.
Return(t) ==
  /\ pc' = "store"
  /\ task' = t
  /\ req' = NoRequest /\ unread' = {} /\ payload' = {}

-----------------------------------------------------------------------------
(* The runner: core/zone.go.                                               *)

DSOf(ks) == ks \X DigestTypes
Asked(ks) == ks \X {WantedDigestType}

\* Nothing is under way at OVH: an excuse ends.
Settled == Running = {} /\ post = None

\* prepareUpdateRequest, with no task tracked: a wish and DS records that differ,
\* each as old as a resolver still has it and from whichever resolver answers.  A
\* DS answer without records is validated like any other.
Check ==
  /\ pc = "idle"
  /\ stored = None
  /\ \E goal \in wishes, shown \in views :
       /\ DSOf(shown) # Asked(goal)
       /\ req' = [goal |-> goal,
                  add |-> {k \in goal : <<k, WantedDigestType>> \notin DSOf(shown)},
                  remove |-> DSOf(shown) \ Asked(goal)]
  /\ pc' = "list"
  /\ excused' = (excused /\ ~Settled)
  /\ UNCHANGED <<world, stored, unread, payload, task, faults, rollovers>>

\* A task is tracked: Update is called with it.
Resume ==
  /\ pc = "idle"
  /\ stored # None
  /\ task' = stored
  /\ pc' = "poll"
  /\ UNCHANGED <<world, stored, req, unread, payload, faults, rollovers, excused>>

\* applyUpdateResult: the task id, if in progress, replaces the stored state.
Store ==
  /\ pc = "store"
  /\ stored' = task
  /\ Quit
  /\ UNCHANGED <<world, faults, rollovers, excused>>

\* A crash or a shutdown loses what was not stored.
Crash ==
  /\ Fault
  /\ pc # "idle"
  /\ Quit
  /\ UNCHANGED <<world, stored, rollovers, excused>>

-----------------------------------------------------------------------------
(* A fresh Update: findRunningTask, loadCurrentKeys, buildDesiredKeys,     *)
(* submitUpdate.                                                           *)

CallFails ==
  /\ Fault
  /\ pc \in {"list", "keys", "submit", "poll"}
  /\ Quit
  /\ UNCHANGED <<world, stored, rollovers, excused>>

\* Mutant of ListTasks: only the tasks at work are listed.
ListTasksDoing ==
  /\ pc = "list"
  /\ unread' = {t \in TaskIds : tasks[t].status = "doing"}
  /\ pc' = "scan"
  /\ UNCHANGED <<world, stored, req, payload, task, faults, rollovers, excused>>

\* A listed task that has ended is passed whenever it is read: it is left out here.
ListTasks ==
  /\ pc = "list"
  /\ unread' = {t \in TaskIds : tasks[t].status \in {"todo", "doing"}}
  /\ pc' = "scan"
  /\ UNCHANGED <<world, stored, req, payload, task, faults, rollovers, excused>>

\* Mutant of ScanFinds: the function of the task is not looked at.
ScanFindsAny(t) ==
  /\ pc = "scan"
  /\ t \in unread
  /\ tasks[t].status \in {"todo", "doing"}
  /\ Return(t)
  /\ UNCHANGED <<world, stored, faults, rollovers, excused>>

\* The task is a running DNSSEC task: adopt it.
ScanFinds(t) ==
  /\ pc = "scan"
  /\ t \in unread
  /\ IsRunning(t)
  /\ Return(t)
  /\ UNCHANGED <<world, stored, faults, rollovers, excused>>

ScanPasses(t) ==
  /\ pc = "scan"
  /\ t \in unread
  /\ ~IsRunning(t)
  /\ unread' = unread \ {t}
  /\ UNCHANGED <<world, stored, pc, req, payload, task, faults, rollovers, excused>>

\* The task cannot be read: it is skipped.
ScanSkips(t) ==
  /\ Fault
  /\ pc = "scan"
  /\ t \in unread
  /\ unread' = unread \ {t}
  /\ excused' = (excused \/ IsRunning(t))
  /\ UNCHANGED <<world, stored, pc, req, payload, task, rollovers>>

ScanEnds ==
  /\ pc = "scan"
  /\ unread = {}
  /\ pc' = "keys"
  /\ UNCHANGED <<world, stored, local, faults, rollovers, excused>>

\* buildDesiredKeys.  A removal is matched by tag and algorithm, not by digest.
Removed(current, r) == {k \in current : \E ds \in r.remove : ds[1] = k}
Added(current, r) == r.add \ (current \ Removed(current, r))

\* Mutant of BuildDesiredKeys: nothing is removed.
BuildAddedKeys(current, r) == current \cup r.add
BuildDesiredKeys(current, r) == (current \ Removed(current, r)) \cup r.add

LoadKeys ==
  /\ pc = "keys"
  /\ IF Added(keys, req) = {} /\ Removed(keys, req) = {}
       THEN Return(None)
       ELSE /\ pc' = "submit"
            /\ payload' = BuildDesiredKeys(keys, req)
            /\ UNCHANGED <<req, unread, task>>
  /\ UNCHANGED <<world, stored, faults, rollovers, excused>>

\* A slot for a new task: a fresh id, or that of an ended task nobody tracks.
FreeIds == {t \in TaskIds : IsDNSSECTask(t) /\ ~IsRunning(t) /\ t \notin {stored, task}}

CreateTask(t, ks) ==
  /\ t \in FreeIds
  /\ tasks' = [tasks EXCEPT ![t] = [status |-> "todo", payload |-> ks]]

Submit(t) ==
  /\ pc = "submit"
  /\ CreateTask(t, payload)
  /\ Return(t)
  /\ UNCHANGED <<zone, views, keys, post, stored, faults, rollovers, excused>>

\* The POST takes effect, but its response is lost.
SubmitResponseLost(t) ==
  /\ Fault
  /\ pc = "submit"
  /\ CreateTask(t, payload)
  /\ Quit
  /\ UNCHANGED <<zone, views, keys, post, stored, rollovers, excused>>

\* The call times out while the POST is still on its way.
SubmitAbandoned ==
  /\ Fault
  /\ pc = "submit"
  /\ post = None
  /\ post' = payload
  /\ excused' = TRUE
  /\ Quit
  /\ UNCHANGED <<zone, views, keys, tasks, stored, rollovers>>

-----------------------------------------------------------------------------
(* A resumed Update: getTask, finishedTaskResult, accelerate.              *)

PollFinished ==
  /\ pc = "poll"
  /\ tasks[task].status = "done"
  /\ Return(None)
  /\ UNCHANGED <<world, stored, faults, rollovers, excused>>

\* finishedTaskResult returns an error for a task that ended badly.
PollDead ==
  /\ pc = "poll"
  /\ tasks[task].status = "dead"
  /\ Quit
  /\ UNCHANGED <<world, stored, faults, rollovers, excused>>

\* can_accelerate is whatever OVH answers.
PollRunning ==
  /\ pc = "poll"
  /\ tasks[task].status \in {"todo", "doing"}
  /\ \E canAccelerate \in BOOLEAN :
       pc' = IF canAccelerate /\ AllowAcceleration THEN "accelerate" ELSE "store"
  /\ UNCHANGED <<world, stored, local, faults, rollovers, excused>>

\* The call may fail, which is only logged.
Accelerate ==
  /\ pc = "accelerate"
  /\ pc' = "store"
  /\ UNCHANGED <<world, stored, local, faults, rollovers, excused>>

-----------------------------------------------------------------------------
(* The zone's signer, the resolvers and OVH.                               *)

\* A fresh Update works on a request.
InFlight == pc \in {"list", "scan", "keys", "submit"}

\* Every resolver shows the wish, as CDS/CDNSKEY and as DS records, and neither the
\* runner, nor a POST, nor OVH has anything under way on behalf of an older one.
Quiet ==
  /\ wishes = {want}
  /\ \A shown \in views : DSOf(shown) = Asked(want)
  /\ InFlight => req.goal = want
  /\ \A t \in Running : tasks[t].payload = want
  /\ post \in {None, want}

\* The signer asks for other keys, and keeps those it asked for before.
Rollover ==
  /\ rollovers < MaxRollovers
  /\ PatientSigner => Quiet
  /\ want' \in KeySets \ {want}
  /\ last' = want
  /\ rollovers' = rollovers + 1
  /\ UNCHANGED <<wishes, views, keys, tasks, post, stored, pc, local, faults, excused>>

\* The signer drops the keys it asked for before.
Retire ==
  /\ last # want
  /\ PatientSigner => Quiet
  /\ last' = want
  /\ UNCHANGED <<want, wishes, views, keys, tasks, post, stored, pc, local, faults,
                 rollovers, excused>>

\* Some resolver can validate the zone: DS records it may have are of a key there.
Validates == \E shown \in views : shown \cap (want \cup last) # {}

\* A resolver reads the zone's wish.
Learn ==
  /\ want \notin wishes /\ Validates
  /\ wishes' = wishes \cup {want}
  /\ UNCHANGED <<want, last, views, keys, tasks, post, stored, pc, local, faults,
                 rollovers, excused>>

\* A wish expires everywhere: an old one, or any when the zone no longer validates.
Forget(wish) ==
  /\ wish \in wishes
  /\ wish # want \/ ~Validates
  /\ wishes' = wishes \ {wish}
  /\ UNCHANGED <<want, last, views, keys, tasks, post, stored, pc, local, faults,
                 rollovers, excused>>

\* Old DS records expire everywhere.
Expire(old) ==
  /\ old \in views \ {keys}
  /\ views' = views \ {old}
  /\ UNCHANGED <<zone, keys, tasks, post, stored, pc, local, faults, rollovers, excused>>

TaskStarts(t) ==
  /\ IsDNSSECTask(t)
  /\ tasks[t].status = "todo"
  /\ tasks' = [tasks EXCEPT ![t].status = "doing"]
  /\ UNCHANGED <<zone, views, keys, post, stored, pc, local, faults, rollovers, excused>>

\* Nothing reads the keys of a task that has ended.
Ended(t, status) == [tasks EXCEPT ![t] = [status |-> status, payload |-> {}]]

TaskSucceeds(t) ==
  /\ IsDNSSECTask(t)
  /\ tasks[t].status = "doing"
  /\ keys' = tasks[t].payload
  /\ views' = views \cup {keys'}
  /\ tasks' = Ended(t, "done")
  /\ UNCHANGED <<zone, post, stored, pc, local, faults, rollovers, excused>>

TaskDies(t) ==
  /\ TasksMayDie
  /\ IsDNSSECTask(t)
  /\ tasks[t].status = "doing"
  /\ tasks' = Ended(t, "dead")
  /\ UNCHANGED <<zone, views, keys, post, stored, pc, local, faults, rollovers, excused>>

\* The abandoned POST arrives after all, or never does.
PostArrives(t) ==
  /\ post # None
  /\ CreateTask(t, post)
  /\ post' = None
  /\ UNCHANGED <<zone, views, keys, stored, pc, local, faults, rollovers, excused>>

PostIsLost ==
  /\ post # None
  /\ post' = None
  /\ UNCHANGED <<zone, views, keys, tasks, stored, pc, local, faults, rollovers, excused>>

Runner ==
  \/ Check \/ Resume \/ Store
  \/ ListTasks \/ ScanEnds \/ LoadKeys
  \/ \E t \in TaskIds : ScanFinds(t) \/ ScanPasses(t) \/ Submit(t)
  \/ PollFinished \/ PollDead \/ PollRunning \/ Accelerate

Failure ==
  \/ Crash \/ CallFails \/ SubmitAbandoned
  \/ \E t \in TaskIds : ScanSkips(t) \/ SubmitResponseLost(t)

Environment ==
  \/ Rollover \/ Retire \/ Learn \/ PostIsLost
  \/ \E wish \in wishes : Forget(wish)
  \/ \E old \in views : Expire(old)
  \/ \E t \in TaskIds : TaskStarts(t) \/ TaskSucceeds(t)
                        \/ TaskDies(t) \/ PostArrives(t)

Next == Runner \/ Failure \/ Environment

Spec == Init /\ [][Next]_vars

\* The runner keeps stepping (Daemon!ZoneIsStepped) and a call that does not
\* fail succeeds; OVH works its tasks off; resolvers read the zone, and what they
\* have expires.  Failures and the signer are bounded, not fair.
Fairness ==
  /\ WF_vars(Runner)
  /\ WF_vars(Learn)
  /\ WF_vars(\E wish \in wishes \ {want} : Forget(wish))
  /\ WF_vars(\E old \in views : Expire(old))
  /\ WF_vars(\E t \in TaskIds : PostArrives(t) \/ PostIsLost)
  /\ \A t \in TaskIds : WF_vars(TaskStarts(t)) /\ WF_vars(TaskSucceeds(t) \/ TaskDies(t))

LiveSpec == Spec /\ Fairness

-----------------------------------------------------------------------------
(* Properties.                                                             *)

\* Types of the variables.
TypeOK ==
  /\ want \in KeySets /\ last \in KeySets
  /\ wishes \subseteq KeySets
  /\ views \subseteq SUBSET Keys /\ keys \subseteq Keys
  /\ tasks \in [TaskIds -> Task]
  /\ post \in (SUBSET Keys) \cup {None}
  /\ stored \in TaskIds \cup {None}
  /\ pc \in PCs
  /\ req \in Request
  /\ unread \subseteq TaskIds
  /\ payload \subseteq Keys
  /\ task \in TaskIds \cup {None}
  /\ faults \in 0..MaxFaults /\ rollovers \in 0..MaxRollovers
  /\ excused \in BOOLEAN

\* Over crashes, errors and lost responses the zone never has two DNSSEC tasks
\* at work, unless a read of a running task failed during the search for one
\* or a POST was abandoned before OVH had it (ovhv1_group.go:107-147).
AtMostOneTask == excused \/ Cardinality(Running) <= 1

\* What is submitted is the wish that the request was computed for, although the
\* wish and the DS records may be older than the keys OVH has: the difference of
\* the former is applied to the latter (ovhv1_helpers.go:63-114).  Of DS records of
\* one digest type; man/dnssec-publish-ds.8.md says it of all: "Submit: POST ...
\* with the desired key set."
SubmitsDesiredKeys == pc = "submit" => payload = req.goal

\* Over failures, lost responses, retries, crashes, late POSTs and second tasks, and
\* wishes and DS records that resolvers return late, a domain has the keys of one of
\* the zone's last two wishes at OVH, and all of them.  It may go back to the last
\* wish, but not to one before, nor to a mixture (ovhv1_helpers.go:63-114).
ParentFollowsZone == keys \in {want, last}

\* Only DNSSEC tasks are ever tracked, and never one that OVH does not have.
TracksDNSSECTask ==
  stored # None => IsDNSSECTask(stored) /\ tasks[stored].status # "free"

\* Once failures and changes of mind have ceased, the keys at OVH become the
\* wanted ones and stay so, but for one end that nothing in the code leads out of:
\* a tracked task that died (DeadTaskIsLeft).
Converges ==
  \/ <>[](keys = want /\ stored = None)
  \/ <>[](stored # None /\ tasks[stored].status = "dead")

\* man/dnssec-publish-ds.8.md: "Continue until status is done, error, problem,
\* or cancelled."
DeadTaskIsLeft ==
  \A t \in TaskIds :
    (stored = t /\ tasks[t].status = "dead") ~> stored # t
=============================================================================
