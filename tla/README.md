# A verification development of dnssec-publish-ds

`dnssec-publish-ds` is a daemon that watches the CDS/CDNSKEY records of DNS
zones and keeps the DS records at the parent in line with them, through
provider plugins (`ovh-v1`, `rfc2136`). A Perl probe for the Xymon monitor watches the
zones beside it. These modules specify the daemon and the probe in TLA+, check
them with TLC on small instances, and prove the properties that matter most for
every value of the constants with TLAPS.

## 1. Inventory

| Component | Source | State | Operations | Module |
|---|---|---|---|---|
| engine | `internal/core/engine.go` | configuration, context, signal channel, the plugins' objects | start (load, prune, plugin init, launch), signal, drain, close, save, reload | `Daemon`, `Lifecycle` |
| zone runner | `internal/core/zone.go` | none between steps; all state is in the store | jitter, step, resume, check, update, apply result, sleep | `Daemon`, `ZoneCheck` |
| status store | `internal/status/status.go` | a map zone -> state under a mutex; the status file | Load, Get, Set, Clear, Prune, Save | `Daemon`, `StatusStore`, `StatusFile` |
| DNS client, key records | `internal/core/dns.go`, `internal/core/helpers/compare.go`, `internal/plugin/record.go` | the list of resolvers | query with AD, FetchZoneKeys, merge, CompareDS | `KeyRecords`, `ZoneCheck` |
| ovh-v1 plugin | `internal/plugin/ovhv1` | none; the task id is the raw state the core stores | Update: find, load, submit, poll, accelerate | `OVHv1` |
| limiter | `internal/plugin/limiter.go`, `ovhv1_throttle.go` | a buffered channel | Acquire, Release, WithLimiter | `Slots`, `Limiter` |
| rfc2136 plugin | `internal/plugin/rfc2136` | none | Update: query DS, delta, find parent, send | `Publication`, `RFC2136` |
| configuration | `internal/config/config.go` | none | Load: read, merge conf.d and the environment, defaults, decode, validate | `Configuration`, `Lifecycle` |
| registry, plugin interface, option parsing | `internal/plugin/plugin.go`, `limiter.go`, the `*_plugin.go` | the registered plugins | Get, Init, NewGroup, Close, ParseIntOption, ParseDurationOption | `PluginContract`, `Configuration`, `Lifecycle` |
| Xymon probe (Perl) | `xymon/server/ext` | the cache file, across runs | load, delegation, ask each server, check_rollover, report, save | `Probe` |
| command line, logging, version | `cmd`, `internal/logging`, ... | none after start | - | not modelled |

**How they interact.** The engine runs one goroutine per zone. A runner reads
its zone's stored state; with an operation in progress it calls the plugin's
`Update` with the stored raw state, otherwise it asks the DNS client for the
zone's wishes and the parent's DS set, and calls `Update` with the difference.
It stores the answer (the store is shared, and every Save writes all zones),
sleeps, and starts again. All groups of the OVH plugin share one limiter. A
signal cancels the context, the engine waits for the runners, closes the
plugins, saves, and exits or reloads. Loading reads the main file and those of
conf.d one after the other, while the operator may be editing them. The probe
shares nothing with the daemon: it asks the parent and the zone's name servers,
and remembers between its runs only what its cache file holds.

**What is hard.** The answers of DNS are of different ages, and a zone's wish may be
older than the DS set it is compared with; the operations at
the provider outlive the process, every call may fail after it took effect, the
process may be killed between any two steps, a reload may move a zone to
another owner while an operation is under way, runners save concurrently
through one temporary file, and shutdown must wait for everything but not for
sleeping runners. Options come with any type TOML or the environment gives
them, and a group may be put together from several files. The probe measures
how long a rollover lasts over runs any of whose queries may fail, while keys
and servers come and go.

**What makes each component correct.**

- engine: plugins are closed after the last use; a drain ends and never waits
  for an interval; every zone keeps being stepped.
- runner and store: an operation is resumed by its owner, from the last raw
  state, over crashes and reloads; it is polled, not forgotten, and not
  repeated once done.
- status file: whole at any instant; a Save that succeeded stays.
- check: a request is made of validated answers of one time, contains exactly
  the difference, and never asks to unsign a zone.
- OVH: one task at a time; however stale wish and DS records are, what is submitted
  is that wish, and OVH has the keys of one of the zone's last two; with
  finitely many failures it ends up with those wanted.
- rfc2136: however old the wish and the DS set compared, an UPDATE makes that wish of the
  parent's set, which is one of the zone's last two; what both have is never lost
  and nothing that neither has is gained, over any failure.
- limiter: never more calls than slots, no slot lost, no wake-up lost.
- configuration: the last file wins, setting by setting, and nothing a file
  mentions is lost; a zone has one runner; no option leaves a plugin without a
  slot, without a port or without the signature a file asks for.
- plugin interface: objects are made, used and closed in order, over failed
  starts, reloads and crashes.
- probe: a rollover is held neither older nor younger than it is; a defect that
  stays is reported in the end, and the alarm ends with it.

## 2. Plan

In order of importance; all but the last are done.

1. `Daemon` (engine + runners + atomic store), `DaemonProofs`.
2. `KeyRecords`, `ZoneCheck` (one check in detail), `ZoneCheckProofs`.
3. `OVHv1` (runner + plugin + OVH API).
4. `Slots` (abstract) and `Limiter` (the channel), `LimiterProofs`.
5. `StatusStore` (abstract) and `StatusFile` (mutex, temporary file, rename),
   `StatusFileProofs`. `Daemon` is built on the steps of `StatusStore`.
6. Runs that exhibit where a document or comment and the code part ways.
7. `Publication` (abstract) and `RFC2136` (Update against a primary server and
   resolvers with caches), `RFC2136Proofs`.
8. `Configuration` (operators), `PluginContract` (abstract) and `Lifecycle`
   (Load, the plugins' objects, reload, over edits of the files). That a zone
   has one owner, which `Daemon` takes for granted in the type of `Config`, is
   `OneRunnerPerZone` here.
9. `Probe` (the rollover timers and the reports over many runs).
10. `OVHv1Proofs`. Instead of a refinement of `Publication`, `ParentFollowsZone` is
    proved, which is stronger: OVH's keys are one of the last two wishes, whole.
11. `LifecycleProofs` and `ProbeProofs`.
12. `Throttle`: several OVH runners behind one `Limiter` and a cancellation.

Abstract specifications: `Slots`, implemented by `Limiter`; `StatusStore`, by
`StatusFile`; `Publication`, by `RFC2136`; `PluginContract`, by
`Lifecycle`.

## 3. Modules

### Daemon

State: `phase` is where the engine's goroutine is (`down`, `boot` before the
runners are launched, `running` in `<-sigCh`, `draining` in `wg.Wait`,
`closing`, `reload`); `mem` is the store's map and `disk` the status file's;
`pc`, `req`, `wait` are each runner's position, the raw state of the `Update` in
flight, and the kind of interval it will sleep (`check`, `retry`, `poll`).
Actions: one per way through each function of `zone.go` between two points where
another goroutine or a crash can interfere, and one per stage of `runOnce`. The
calls `Get`/`Set`/`Clear` hold the mutex for an instant and are atomic; `Save` is a step of
its own. A cancelled context is `phase # "running"`: `Finish` is the test of
`ctx.Err()` at the end of a step; `Wake` and `WakeCancelled` are the two branches of
the `select` in `sleep`, both possible when both channels are ready. `Work` is every
step of a runner but `Wake`: while the daemon drains nothing obliges a timer to
fire, so that `DrainEnds` needs the cancellation to end each sleep.

Abstracted: a plugin's Update is any of its three outcomes and DNS any of its
three; the duration of intervals; `UpdatedAt`; the difference between the
error sources. `InProgress` is always true in the file, since only `persistState(true, ...)`
writes an entry. `TokensOf` says which raw states the Updates of a zone may return:
one zone with two of them is enough to tell an old raw state from a new one. The path of the status file is assumed to be the same in all
configurations.

`reported`, `diskStale` and `excused` observe and guard nothing: `reported` is what the
last Update said (nothing, once a runner has dropped the state of another owner, `LoadForeign`), `excused` the zones whose stored state a named fault has made
unreliable (killed between answer and Save; file unreadable or not written;
zone not in the configuration for a while).

### KeyRecords and ZoneCheck

`KeyRecords` holds the pure operators of `dns.go` and `compare.go`. A key is an
opaque value with an algorithm, a key tag and a SHA-256 digest given as
functions; `Upper` is `strings.ToUpper` as an idempotent function on digests.
`ZoneCheck` is one call of `prepareUpdateRequest` after another: `past` is
everything the zone has published, and a validated answer may be any of it,
because resolvers cache; a response without AD may be anything in `Forged`.
`FetchZoneKeys` makes both queries before it looks at either error, which is why
`Answered` goes on whatever the answer. The map `cdsIndex` keeps the last of several
CDS of one tag: `CDSIndexes` allows any, since the order of an RRset is arbitrary.

### OVHv1

The runner of one zone (`Check`, `Resume`, `Store`, `Crash`), each HTTP call of `Update` as one step
(`ListTasks`, `ScanFinds`/`ScanPasses`/`ScanSkips`/`ScanEnds`, `LoadKeys`, `Submit`, the polls, `Accelerate`),
and the world: the zone's wish `want` and the one before, `last`, whose keys it still has;
the `wishes` and `views` (DS records, as the keys they are of) that some resolver may still
return as validated; the keys and tasks at OVH. `Check` takes a goal from `wishes` and DS records from
`views`, any with any: the queries go through a list of caching resolvers
(`dns.go:50-66`), and each answer may come from another of them. In detail, with
forged and failed answers, this is `ZoneCheck`. Resolvers `Learn` the wish, and `Forget` and `Expire` what is
old. They can do the former only as long as some DS set they may have is of a key of
the zone (`Validates`); once none is, the wish itself expires.

The API's side is an assumption (OVH's behaviour is not in the
repository): tasks go todo -> doing -> done or a bad end, a done task replaces the
keys, a POST creates a task. A failed POST may have had no effect (`CallFails`),
its effect (`SubmitResponseLost`) or a later one (`SubmitAbandoned`, `PostArrives`).
Abstracted: a key's flags, key data and tag are one model value (tags are
distinct); DS records are pairs of a key and a digest type; the list of key ids
and the reads of each key are one step; the reads of tasks that have ended
are left out; waiting times; a stored state and its file are one (that is
`Daemon`'s subject). Status values other than the seven of the documentation do not occur, and the
three bad ends of a task are one status. What makes a task fit for acceleration
is OVH's affair: each poll may find it so or not.

`excused` observes that a running task was missed or a POST abandoned, the two ways
to a second task; only `AtMostOneTask` needs it. `ParentFollowsZone` says what two tasks, late POSTs and
stale answers cannot do: OVH has the keys of one of the zone's last two wishes,
and all of them. It may go back to the last one, when a resolver returns it
beside new DS records; the check after that one expired turns it again.
`Converges` allows, besides the wanted keys, the end nothing in the code leads out
of: a dead task that is tracked (`ovh_dead`).

### RFC2136 and Publication

`want`, `last` and `wishes` are as in `OVHv1`, with DS sets in the place of key sets; `server` is the DS
set of the primary server of the parent, `caches` the DS sets that some resolver may still return.
`Check` starts from any wish and any of these; `QueryCurrentDS` asks the primary itself and goes
on with `filterDelta` (`KeptAdd`, `KeptRemove`); `ResolveParentSOA` and `Send` are the other two
exchanges. `QueryRefused` is an answer with an error code: `queryCurrentDS` does not look at
the code, so the set is taken for empty (`blind`): what is there is added again, which a
server ignores, and nothing is removed. `ResponseLost` is an UPDATE that took
effect without an answer. Update is synchronous and stores nothing; every
failure is an error and the retry starts from `Check`. It is assumed that an UPDATE
is not applied any more after the client has given it up.

An UPDATE that is exact leaves the parent with one of the last two wishes (`ParentFollowsZone`). A
blind one may leave a mixture of them, which is what `refused` observes, until the zone turns
from a wish all resolvers show. Even then `Publication`, the promise, holds: what the last two
wishes share stays published, nothing is published that neither has, and the zone turns only from
a wish that the parent has. It allows the mixture; that it goes is `Converges`, with one exception, which TLC
found. A refusal leaves the parent with old and new record; a resolver returns the last
wish, and an exact UPDATE takes the new record away; a check that still saw both asks only for the
removal of the old one, and the UPDATE removes what is there. No resolver can validate the
zone any more, every check is an error, and the parent stays like this. The second disjunct of
`Converges` admits that end after a refusal only.

### Configuration, Lifecycle and PluginContract

`Configuration` holds the pure operators: a setting is a pair of a table (the top
level, a group, a plugin) and a field, a file a function from its settings to
values. The option `tsig` may be a table in turn: what is in it are settings of their
own (`TSIGFields`). `Merge`, `Effective` (the environment overrides what some source has),
`Resolve` and `Valid` are `Load`; `ParseIntOption`, `InitResults`, `GroupResults` and the
operators between them are what the plugins make of their options, as the set of
possible results, since a float64 out of the range of int is converted to what the
processor gives. viper is external and modelled from its use: tables are merged leaf by
leaf, so that the key name of one file and the secret of another make a complete
`tsig`; a value that is no table does not replace one (`PassedOver`), while a table replaces a
value; a table with nothing in it is dropped by `Unmarshal`, hence an empty `tsig` makes updates
unsigned where an incomplete one is an error (`Authentication`); a variable of the name of a table
hides what is in it (`Shadowed`). No other option is a table. One wait stands
for the three of ovh-v1, one field for its credentials.

`Lifecycle` is the process around the runners: `Boot` to `Accept` are `config.Load`, file by
file, with `Edit` between any two steps; `InitPlugin`, `NewGroup`, `Launch`, `CloseGroup`,
`CloseGlobal`, `Leave` are `runOnce`. Runners only call `Update` here, the rest of them
being `Daemon`. `instance` is what each open group's plugin was given, `slots` the
capacity of OVH's limiter, `seen` (observation) the files as they were when
they were merged. Every error of Load, Init or NewGroup ends the process
with what is open (`LoadFails`, `StartFails`).

`PluginContract` is the interface of `plugin.go` as a promise of the host: `Init` before
`NewGroup`, `Update` on open instances only and one per zone, instances closed
before their plugin, nothing closed in use.

### Probe

One zone over successive runs. `file` is its entry in the cache: the delegation
(`volatile`, with what is left of its TTL) and the timers of `check_rollover`
(`permanent`, from server, key and rule to an age, which stops counting at the warning
age). `Start`, `UseCached`/`Fetch`/`FetchFails`, `Ask`/`AskWithoutSignal`/`AskFails` for each server in turn, `Send`
and `Save` are a run; `Kill` ends one anywhere, in `Save` with a file that may not
be readable; `RunElsewhere` is a run whose list lacks the zone. `Change` lets the signer or the
parent do anything, `Tick` is time. Yellow and red are one alarm, and of the timers of a server only those of keys without
a DS count (`Covered`). Checks that keep
nothing between runs (algorithms, NSEC3, glue, NS set, signatures) are an
alarm `Send` may add, or the failure of a server, at any time within `MaxFaults`.

### Limiter and Slots

The channel is modelled as the Go runtime implements it: senders queue when the
buffer is full, a receiver hands its place to the first. `Slots` is the promise.

### StatusFile and StatusStore

`Save` step by step: mutex, directory and marshalling, truncation of the temporary
file, write, rename, unlock; each may fail, and the process may be killed
between any two, which leaves the files as they are. `StatusStore` has one atomic
`Save`. `Reopen` is a new process, or a new `runOnce`, that loads and prunes.

## 4. Runs

| Run | Instance | States | Shows |
|---|---|---|---|
| `daemon` | 2 zones, 2 groups, 3 configurations (move, plugin change, removal), 2 raw states for one zone | 400,279 | ownership, no lost or repeated operation, durability, shutdown order, polling, stepping, end of a drain |
| `zone_check` | 2 keys, 1 sentinel, 7 publications, 5 DS sets, 2 resolvers | 10,343 | requests are coherent, validated, exact, and never unsign |
| `ovh` | 2 keys, 2 task slots and a foreign task, 2 faults, 2 rollovers, tasks may die | 578,643 | one task, the wish compared is submitted, OVH has one of the last two wishes, only DNSSEC tasks, convergence |
| `limiter` | 5 callers, 2 slots | 332 | accounting, wake-ups, service, refinement of `Slots` |
| `status_file` | 2 zones, 2 entries | 78,777 | whole file, durable Saves, refinement of `StatusStore` |
| `rfc2136` | 3 DS records, 4 wishes, 3 faults, 3 rollovers | 164,768 | exact UPDATEs, the parent has one of the last two wishes, refinement of `Publication`, convergence |
| `lifecycle` | 2 groups, main file and 3 entries of conf.d with 4, 9, 12 and 1 contents, 1 edit | 73,908 | merge order, one runner per zone, legal options, refinement of `PluginContract`, settling |
| `probe` | 2 keys, 2 servers of which one may leave, 2 changes, 1 fault, warning age 2 | 762,952 | timers neither too old nor too young, recovery, detection |
| `zone_check_one_sided` | | | violation: `dns.go:179` promises one-sided zones are accepted |
| `zone_check_sentinel` | | | violation: the RFC 8078 sentinel is an error, not a skip |
| `ovh_digests` | two digest types at the parent | | violation: a wanted key is left out of the submission |
| `ovh_dead` | | | violation: a dead task is polled for ever |

**Why the bounds are enough.** In `daemon` one zone is enough for the life of an
operation and two for the interference through the shared file (one runner's
Save makes the other's change durable); three configurations are every way a zone's owner can
change. In `zone_check` two keys make a rollover with an overlap, and a
publication with two digest types, an empty one and a sentinel are the branches
of the merge. In `ovh` two faults allow the shortest double submissions (a lost
response and a failed read; an abandoned POST and a crash), two rollovers a
wish that changes back and a stale one beside it; a third slot would only hold a third running task. In
`limiter` five callers for two slots let three wait in line, so that a waiter in the
middle may give up. In `lifecycle` one edit is one within a load, after the file was read or
before, or one between two loads; the files are any of their contents from the start. The contents are
each a setting added, overridden, of a wrong type, or out of range at either end, a group built
from two files, and a `tsig` table without its secret, completed by another file, emptied, or met by
a value that is no table. `MaxInt` is 31, so that floats pass the range of int. In `probe` two changes are a
rollover at the zone and its end at the parent, or a key withdrawn and published again; a TTL
of one tick outlives a run, and a warning age of two tells a fresh timer, a running
one and an old one apart. In `rfc2136` the wishes are the three stages of a rollover and a jump
to another key; three faults allow a refused query, a lost response and a crash in one history. In `status_file` two runners are what a mutex is about.

`CHECK_DEADLOCK FALSE` is set in the OVH and rfc2136 configurations only: an aligned zone whose signer
and faults are used up really has nothing to do, `Check` having no effect then.

**Fairness.** `Daemon`: stages of the engine and each runner's `Work` are weakly fair,
since DNS, HTTP and file operations run under timeouts and goroutines are
scheduled. `Wake` is so only while the daemon is not cancelled: an interval may be
hours, and a shutdown that waited for one would be the error `DrainEnds` is about.
Nothing is assumed of signals, restarts or the outcome of a call
(a zone whose plugin always fails still is stepped). `OVHv1` and `RFC2136`: the runner is
weakly fair (this is `ZoneIsStepped`), some resolver reads the zone's wish as long as it
validates, old wishes and DS sets expire, OVH works its tasks off; failures
and rollovers are finite by their bounds. `Lifecycle`: the engine's
steps are weakly fair, and so is the return of each Update and runner, which is what
`Daemon!DrainEnds` shows; nothing obliges the operator, a signal or a start. `Probe`: the steps of a
run and time are weakly fair (xymonlaunch starts it every five minutes, and
its queries time out); the zone and its parent owe nothing, so `Recovers` and
`Reports` are implications from what the world stays at. `Limiter`: a call made under the
limiter returns; nobody is obliged to call. `StatusFile`: file operations return; a mutex
is strongly fair, as Go's is (it hands over to a waiter that has waited 1 ms).

**`PatientSigner`, `Patient`.** The signer turns from its wish, or drops the keys of
the one before, only when all is `Quiet`: every resolver shows the wish, as CDS/CDNSKEY and as DS
records, and no request, running task or abandoned POST is for an older one. RFC 7344
and 7583 ask the signer to wait for TTLs; the last clause is more, and no signer
can see it: a request, task or POST must not outlive those TTLs. If the signer turns earlier,
a request for the wish before the last may still be carried out, `ParentFollowsZone` fails, and
the domain may be left without a DS record of a key the zone has. It does not exclude the
stale wish itself: after a turn resolvers return old and new wish beside any DS set, and the
parent may go back to the last wish for as long as one of them does.

## 5. Proofs

All proofs are for any values of the constants under the named assumptions
of the modules, and TLC evaluates these assumptions on the instances.

- `DaemonProofs`. `TypeOK` and the safety properties are not inductive by themselves: the
  invariant `IInv` adds what ties the parts together - where a runner may be in each
  phase, that an entry of the store bears its zone's name and producer, that
  memory, `reported` and the file agree except for runners in a Save and for
  excused zones. `Inductive` proves it step by step, one step per action; the
  seven other theorems follow from it.
- `ZoneCheckProofs`. The invariant relates each answer to what may have been
  answered at the point reached. The heart is a lemma on the merge: two finite
  sets of equal size of which one's tags include the other's have the same
  tags, hence, when tags identify keys, an accepted pair of answers is of one publication
  (`TornReadDetected`). `Convergence` is `CompareDS` turned into set algebra.
- `StatusFileProofs`. The mutex is held by exactly the runner in Save, which
  has marshalled what memory still holds and written it before it renames.
  `ImplementsStore` then maps `Rename` to `Save`, `Reopen` to `Reopen` and the rest to changes or stutters.
- `LimiterProofs`. The queue is exactly the waiting callers, without
  repetition; the buffer counts the holders. `ImplementsSlots` follows.

- `RFC2136Proofs`, under `Patient` alone. What any resolver shows, of wishes and of DS sets, is
  one of the last two wishes or, after a refusal, `Between` them. A request is for one of them, and its records
  neither add what its goal has not nor remove what it has (`RequestIsSane`); while it is under
  way the server's set stays as it was asked for (`AnswerIsCurrent`). Without refusals a request leads
  from one of the two to the other, or has been overtaken by the zone's turn, in
  which case the server has its goal already (`ExactInv`). `UpdatedIs` draws the exactness from
  these, and `ParentFollows` and `ImplementsPublication` follow: an UPDATE is a `Publish`, a rollover a
  `Turn`, which needs that `Quiet` implies `server = want`.

- `OVHv1Proofs`, in three layers, each with the one before as a fact. `TrackInv`, with the
  types: what is stored or polled is a DNSSEC task that exists. `OneInv`: for one
  task at a time it must be known that the search in `findRunningTask` has passed no
  running task, so that a submission finds none (`SearchMissesNothing`), and that
  only an abandoned POST is under way. These hold for any constants. `FitInv`, for
  `SubmitsTheGoal` and `OnlyWantedKeys`: wishes, views, the payloads of running tasks (`TasksFit`) and of an
  abandoned POST, and OVH's keys are each one of the last two wishes; a request is the difference from
  one to the other (`LeadsAcross`), which makes its goal out of either, or has been `Overtaken` by
  the zone's turn, in which case OVH has its goal and nothing else is under way. It needs the two
  hypotheses the theorems name: a patient signer, and DS
  records at the parent of the zone's digest type only. Without the second the run `ovh_digests`
  shows what happens.
- `LifecycleProofs`. `LifeInv` says which objects may be open in each phase and that a
  configuration in force lists each name once and has options for each
  registered plugin; `OneRunnerEach` follows, and `KeepsContract` maps each action
  to a step of `PluginContract` or to none. `MergedInv` is for `FilesWin`: half-way through a
  load each setting held but `tsig` itself is from the last file so far that has it, what is in a
  `tsig` table included, and the
  files still to be read come later. `LegalOptions` adds that a setting in a table keeps the table
  (`MergeTable`), so that no instance goes unsigned which a file has a key for; it and `StartIsDecided` rest on lemmas about
  `ParseIntOption` and its callers for any numbers: from every option comes a
  value in range or an error.
- `ProbeProofs`. `EarnedInv` adds to the timers of the file those of the run: none is older
  than its rollover at any step, and none goes on whose rollover an answer of
  this run has ended (`resolved`), which concerns only servers already asked. `SurvivalInv` says of each timer of the
  file what has become of it in the run so far: kept and not younger (which it must be while
  its server is still to be asked), or given up for a reason an answer gave; `Save` then can
  only lose it as `TimersSurvive` says.

The layers `TrackInv`, `OneInv`, `FitInv`, `LifeInv`, `MergedInv`, `EarnedInv` and `SurvivalInv` were
checked by TLC on the instances of section 4 before they were proved. The
assumptions are those of the modules. `Configuration` and `Lifecycle` assume of what files and
environment hold (`IsSettings`, `EnvAssumption`) that an integer fits an int64, as TOML's do, that
a zones list that decodes has strings, that no option but `tsig` is a table, and
that what is in a table of a file is there with it; nothing is assumed of which settings
there are, of their types or of their range.

Only model-checked: the liveness properties (`OperationIsPolled`, `ZoneIsStepped`, `DrainEnds`,
both `Converges`, `WaiterIsServed`, `SaveReturns`, `Settles`, `Recovers`, `Reports`), which the proof system does not
reach. Every safety property of a passing run is a theorem. The type invariants
are theorems or part of the inductive invariants proved, and all but `ZoneCheck`'s are left out
of the runs.

## 6. Not modelled, and known limits

- A power failure between write and rename: `Save` does not call fsync. Its
  consequence, an unreadable file at the next start, is a step of `Daemon`.
- Two keys of one zone with the same tag: the merge would pair them wrongly or
  reject them; `NoTornRead` excludes them by `DistinctTags`.
- A zone that publishes a CDS of two digest types per key is rejected for ever,
  since the merge compares lengths (`dns.go:181`); it is in `zone_check`, as an error.
- `zone.go:160-167` (CDNSKEY required, CDS only) and `dns.go:186-191` cannot be reached,
  for the same reason.
- OVH statuses the code does not name are running for `finishedTaskResult` and
  not running for `findRunningTask`.
- When OVH derives a DS of a digest type other than the zone's CDS, comparison
  never finds the zone aligned: it is submitted again each check interval.
- Zone names are compared as they are written (`config.go:169`): a zone listed with and
  without a trailing dot, or in two cases, has two runners, though
  `man/dnssec-publish-ds.8.md:125` promises one group per zone. `OneRunnerPerZone` is about the
  strings.
- A wish that one resolver of the list still returns, beside the DS set that another shows
  already, takes the parent back to the last wish until it expires (`ParentFollowsZone`
  permits that, `ZoneCheck` has it in detail): answers are compared with each other, not in time.
- An empty `[group.<name>.plugin_config.tsig]` is as good as none, since viper drops it: updates go unsigned.
  A value that is no table, in a later file, does not take the table of an earlier one away.
- Load takes no snapshot: with files edited meanwhile, the configuration may be
  one that never was on disk. It still is what `LastFileWins` says of the files
  as they were read.
- A negative `error_retry_interval` is accepted (`config.go:78` looks at zero only).
- NewGroup of ovh-v1 calls the OVH API: a SIGHUP while OVH cannot be reached ends the
  process, like any error of a reload (`StartFails`).
- `man/dnssec-publish-ds.8.md:308` says a TTL of 3600 is used when the SOA query fails:
  it is an error (`rfc2136_group.go:113-143`), as in the model (`ResolveParentSOA`).
- The manual's hyphens in names of environment variables (`man/dnssec-publish-ds.8.md:79`) are
  not replaced in the code (`config.go:51`), and a variable counts only for a setting
  that a file or a default has. The model's `Env` is what takes effect.
- The probe is never red for the age of a rollover (`Checks.pm:20`), as
  `man/xymon-ext-dnssec.1.md:197` says it is: the model has one alarm. With
  `cache_file = -` the timers are not kept either, and no rollover ever ages.
  A lost answer for CDS and CDNSKEY starts the other rule's timer
  (`TimersSurvive` says so), hence a new count. Two probe runs at once share
  the cache file without a lock; xymonlaunch does not start them.
- Of the probe, the stateless checks and option parsing.
- Durations, log output, the values of credentials and the wire formats.
