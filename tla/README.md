# A TLA+ model of adguardhome-sync

adguardhome-sync copies the settings of one AdGuard Home instance, the
*origin*, to any number of others, the *replicas*.  This directory holds TLA+
modules translated from the Go source, the configurations with which TLC checks
them, and theorems about them that the TLA+ proof system (TLAPS) checks.
Line numbers below are those of the repository's files.

## 1. Inventory

### The parts of the program

| part | source | state it keeps | operations |
|---|---|---|---|
| worker | `internal/sync/sync.go:27-172`, `http.go:25-28`, `http.go:181-215` | `running`, `lastSyncTime`, `nextSyncTime`, `cron`, `cronEntryID` | start, cron job, `POST /api/v1/sync`, run on start, shutdown |
| sync pass | `sync.go:157-375` | the `origin` struct, `w.actions`; per replica `replicaStatus`, `withError`, `delta` | read the origin, loop over the replicas, set up a replica, run the actions, report |
| sync actions | `action.go`, `action-general.go` | none; they compare origin and replica and write to the replica | sixteen actions, selected by the features |
| model functions | `internal/client/model/model-functions.go` | none, but `Sort` and `Equals` change their arguments | merges and comparisons |
| client | `internal/client/*.go` | the HTTP client | one method per request |
| status API | `http.go:30-122`, `sync.go:107-155` | reads the worker's state | status, health, schedule, page |
| metrics | `internal/metrics`, `internal/sync/scrape.go` | gauges, the `stats` map | `UpdateResult`, `UpdateInstances`, `StatsGraph` |
| log history | `internal/log/log.go` | the slice `logs` | write, read, clear |
| configuration | `internal/config`, `internal/types` | the configuration | file, environment, flags, validation, `UniqueReplicas` |
| versions | `internal/versions` | none | comparison of versions |
| command line, page, generators | `cmd`, `internal/sync/static` | none | |

### How they interact

The cron library starts a goroutine for each due entry, the HTTP server one per
request, `runOnStartAsync` one more, and all of them call `w.sync()` on the one
worker.  Nothing in the worker is protected by a lock or an atomic.  A sync
reads all settings of the origin with one request each, then treats the
replicas one after the other; an action reads the replica's settings, compares
and sends the requests that are needed.  The result goes to the Prometheus
gauges.  The scrape goroutine and the page share the `stats` map, every
goroutine shares the log history.  `GET /healthz` and `GET /api/v1/status` ask
the peers themselves, one after the other, and read the worker's flag meanwhile.

Nothing is stored on disk: after a crash or a kill the program starts with
empty variables (`systemd/AdGuardHomeSync.service` restarts it) and the only
thing that survives is what the replicas have been sent.

### What is hard

* **Concurrency.** The guard of `w.sync()` is a check followed by a set.  The
  deferred function lowers the flag first and then copies cron's next execution
  to `nextSyncTime` in several steps.  `status()` reads the flag once per replica.
* **Failure.** Every request can fail, or be applied although its answer is
  lost.  Each action has its own way to treat errors, with and without
  `ContinueOnError`.  An answer that lacks an optional field panics an action.
* **Ordering.** The origin is read by up to fifteen requests during which an
  administrator may edit it.  The protection switch is compared with a status
  that was read earlier.
* **Time.** The client has no request timeout.  A shutdown waits five seconds
  for handlers and not at all for cron jobs.
* **Restarts.** A sync can end between any two requests, also between the
  set-up of a replica and its first status.

### What makes the parts correct

* worker: at most one sync at a time; the flag never stays behind; a trigger is
  turned away only when a sync is going on; the announced times are cron's; a
  shutdown ends.
* sync pass: nothing is written before the origin was read and the versions
  were checked; only parts that an enabled feature's requests set are written and
  only with what was read; an error stops a replica without `ContinueOnError` and
  shows in the result; a pass without failures brings a replica in line, but for
  named exceptions; passes converge after failures.
* actions and model functions: a merge brings the replica to what the origin
  has and, once there, sends nothing.
* worker and passes together: a replica only gets settings the origin has had,
  goes back to older ones only while syncs overlap, and ends up with the newest.
* status API: the answer of the health check is true of some time of the
  request, and true for good once nothing changes.
* metrics: a result belongs to the last sync; the page's totals are the sums of
  the first 24 values of its lines; entries are those of the last scrape.
* log history: the last fifty lines; configuration: numbered variables reach
  the replica with that number.

`PROJECT.json` lists every hazard at its line with the properties that cover it.

## 2. Plan

| order | module | what | state |
|---|---|---|---|
| 1 | `Worker` | triggers, flag, schedule, shutdown | done |
| 2 | `SyncActions`, `SyncPass` | one pass over the replicas with all actions | done |
| 3 | `WorkerProofs`, `SyncPassProofs` | types and safety | done |
| 4 | `ListMerge`, `ListSync` | the merges of `model-functions.go` over several passes and replicas | done |
| 5 | `Replication`, `SyncSystem`, `SyncSystemProofs` | the abstract specification; `Worker` composed with overlapping passes; refinement, model-checked and proved | done |
| 6 | `SettingSync` | the comparisons of single settings | done |
| 7 | `StatusApi` | status and health check against peers and syncs that come and go | done |
| 8 | `Metrics` | scrape, totals, the shared map | done |
| 9 | `ReplicaEnv` | the numbered variables | done |
| 10 | `ListSyncProofs`, `SettingSyncProofs`, `StatusApiProofs`, `MetricsProofs`, `ReplicaEnvProofs` | types and every safety property of these modules that a run checks | done |
| 11 | `ListReplication` | the abstract specification of a list; `ListSync` implements it, model-checked and proved | done |

`SyncSystem` extends `Worker` (and so runs its actions as they are); `SyncPass`
uses the tables of `SyncActions`, `ListSync` the merges of `ListMerge`; the
other modules stand alone.  `SyncSystem` does not contain `SyncPass`: requests of
three goroutines times sixteen actions are out of TLC's reach, so it keeps of a
pass what overlapping passes do to one another.

## 3. The modules

### `Worker` (with `MCWorker`, `WorkerProofs`)

Goroutines are the elements of `Threads`: `CronJobs`, `Handlers` and
`Startup`.  `pc[t]` is where goroutine `t` stands in `w.sync()`; each access to
the worker is one step:

| action | code |
|---|---|
| `Check`, `Set` | `sync.go:158-162` |
| `Return`, `Panic` | the end of the body, `sync.go:174-293` |
| `Clear`, `ReadNow`, `StoreLast`, `ReadEntry`, `StoreNext`, `LeaveWithoutCron` | the deferred function, `sync.go:163-172` |
| `EndProcess` | a panic outside a handler; the return of `main` after a single sync |
| `Boot`, `CronRun` | `Sync`, `sync.go:46-82` |
| `CronFire`, `HandleSync` | the triggers |
| `Signal`, `ShutdownDone`, `ShutdownTimeout`, `Kill` | `http.go:181-214` |

The body of a sync is one position of `pc` that a goroutine leaves by `Return`
or `Panic`.  A handler's panic is recovered by gin, any other one ends the
process.  A process that is down has lost its memory, so its variables are at
their initial values until the next `Boot`.  A `SIGTERM`, which the program
does not handle, is a `Kill`.

Time is a counter; `NextExecution` is the parsed cron expression, any monotone
function that returns later times.  `lastSyncTime` and `nextSyncTime` are
values of that counter: a torn read of Go's `time.Time` is not distinguished.

### `SyncActions`

The tables of a pass: the sixteen actions in their order (`ActionOrder`), the
feature that selects each, the reads from the origin in their order, and the
requests an action can send (`Requests`).  `Sets(q)` says which parts a request
sets: one, but for the DNS config, whose request carries `protection_enabled` to the
endpoint of the protection switch (`client.go:293-296`, `416-419`), and so sets the
protection with what was read as a field of the DNS config (`DNSProtection`).
`Disturbs(q)` is the part of its list that a request can put out of step: an added
filter that the origin has disabled is to be updated (`client.go:264-268`), and
deleting one copy of a double rewrite can take the other.  `Plan(a, due)` gives the requests of
action `a` when its comparison found the parts `due` to differ.  It holds the
two places where an action does not just send what differs: lists are refreshed
after additions and updates, and `actionFilters` returns after the user rules
(`action-general.go:105-112`).

### `SyncPass` (with `MCSyncPass`, `SyncPassProofs`)

One pass at a time, request by request.  `pc` says where the pass is; `toRead`
and `todo` are the reads and the replicas that are left, `acts` and `plan` the
actions and requests that are left for the replica `current`.

| actions | code |
|---|---|
| `StartPass`, `ReadOrigin`, `OriginOutdated`, `ReadOriginFails`, `ProfileUnauthorized`, `FinishPass` | `sync.go:174-293` |
| `NoClient`, `Connect`, `Report` | `sync.go:295-315` |
| `ReplicaStatus`, `Setup`, `StatusAfterSetup`, `StatusFails` (with `Accept`, `GiveUp`) | `sync.go:317-331`, `358-375` |
| `BeginAction`, `ReadReplicaFails`, `RequestSucceeds`, `RequestFails`, `AnswerLost`, `LastAction` | `sync.go:347-356`, `action-general.go` |
| `Panic`, `Kill`, `EditOrigin`, `EditReplica` | the environment |

Abstractions.

* A *part* of the settings is what one kind of request is for ("add clients",
  "safe search").  Its value is what the request brings to the replica.  What a
  comparison overlooks (a theme alone, a lease whose IP changed) is no part of it:
  that is the subject of `SettingSync` and `ListSync`.
* Comparisons that differ for ever (`alwaysSent`: blocked services that the origin
  reports unsorted, DHCP leases in the compared config) and an origin without a
  DHCP configuration (`neverSent`) are properties of the environment, as in
  `NeverEqual` of `SettingSync`.
* `unplanned` is the history of what has changed behind its comparison: by an edit
  of the replica, or by a request that disturbs its own list.  Entries of a list that
  have changed so are not among those a planned request stands for; `Result` leaves
  them alone until the next pass.
* The requests for the entries of one kind are one request.
* A client for the origin that cannot be created behaves as a read that fails.
* The program's restart is the state "no pass running, no metric".
* `dead`, `invalid`, `outdated` and `rejects` are permanent properties of the
  peers; any other failure happens at most `MaxFaults` times.

### `ListMerge`, `ListSync`, `ListReplication` (with `MCListSync`, `ListSyncProofs`)

`ListMerge` is the merges for rewrites, filters, clients and leases as sets: from
a replica's list and the origin's, `Removes`, `Adds` and `Updates`.  An entry is
a record `[key, value, copy]`; the key is what the merge looks it up by.
`Same` is `Filter.Equals` and `Client.Equals`, and `AfterDiff` is what the latter
leaves behind in the origin's clients.

`ListSync` runs passes with these merges over real lists, entry by entry.  The
origin's list of a pass is *one* object for all replicas (`snapshot`), as in the
code, so what a comparison does to it is seen by the next replica.

| actions | code |
|---|---|
| `StartPass`, `EndPass`, `Kill` | `w.sync()` as far as one list is concerned |
| `BeginAction` | an action's read of the replica and its merge |
| `RequestSucceeds`, `RequestFails`, `EndAction` | the loops over the merge's results, `action-general.go:63-92`, `114-208`, `278-300` |
| `SkipReplica` | an early return of `syncTo`, or the replica cannot be read |
| `Outcomes`, `Deleted`, `Stored` | the replica itself (external) |

What the replica does with a request is not in this repository.  It is modelled
as the code relies on it: an added filter is enabled (`client.go:266-281` sends no
flag), the deletion of a rewrite names domain and answer and may take one copy
or all, a schedule without a zone gets the default one.

`ListReplication` is what syncing promises for one list, without plans, passes or
failures: `Remove` takes away entries of one key that the origin lacks, or surplus
copies of a rewrite; `Add` brings an entry whose key the replica lacks; `Update` puts
the origin's filter or client in the place of the replica's.  `Promise` instantiates
it over the variables of `ListSync`; pass, plan and error state are hidden.

Abstractions: a scenario has one kind of list; only one of the three filter
kinds, whose requests are alike; leases are matched by MAC and never compared,
so their value does not count as a difference; a refresh has no lasting effect;
passes do not overlap; the origin's list does not change (`SyncPass` has edits).

### `Replication`, `SyncSystem` (with `MCSyncSystem`, `SyncSystemProofs`)

`Replication` is what syncing promises: the origin's parts are edited, a
replica's part is brought (`Bring`) to a version the origin has had, and goes back
to an older one (`Revert`) only while syncs overlap.

`SyncSystem` gives the position "body" of `Worker` its content.  Each goroutine has
its own origin struct (`held`, a local variable of `w.sync()`), the reads that
are left, the comparisons that are left and the request in flight; all of them
write to the same replicas.  A version counts the edits of a part.

| actions | code |
|---|---|
| `StartBody`, `ReadOrigin`, `ReadOriginFails` | `sync.go:162`, `174-285` |
| `Compare`, `CompareFails`, `Send`, `SendFails` | an action for one part of one replica, `sync.go:287-356`, `action-general.go`; `Compare` reads, the request is a later step |
| `LeaveOut` | a part that differs and is not sent although nothing failed: the filtering switch after new user rules (`action-general.go:105-107`), the profile after a 401 of the origin (`sync.go:205`) |
| `EndBody`, `PanicInBody` | the end of the body |
| `Outside`, `Trigger`, `Stop`, `ShutdownEnds`, `ProcessEnds` | the actions of `Worker`; `Down` drops what the process held |

`Promise` instantiates `Replication` with `overlap` defined as "some running sync
has overlapped with another".  `overlapping`, `missed` and `asked` are history
variables that no guard reads; `missed` has the parts a sync has failed to bring or
has left out.  Abstractions: reads of the origin come in any order, so do the parts
of one replica; an equal part may be sent all the same; an error gives up the part
and any others that are left for the replica (the rest of the action, or of the
replica without `ContinueOnError`): a superset of the code's orders and error modes.
The protection and the DNS config, which share a field, are one part.  A list that its
own requests put out of step counts as left out; a theme that differs alone, which is
never sent, is no part.

### `SettingSync` (with `MCSettingSync`, `SettingSyncProofs`)

One setting that is compared and set as a whole, over several passes, with the
values the code compares: `ShouldSyncFor` for the profile, `JSONEquals` for the
blocked services, sorted lists for access lists and DNS config, the cleaned
config with the replica's overrides for DHCP.  As in `ListSync` the origin's value
is one object of the pass: `HeldAfterComparison` and `Logged` say what the
comparison and the logging of a request leave of it.  `Compare` reads, compares and
plans in one step; `Send` is the request.  `Stored` is the server (external): it
keeps its DHCP leases and the range that a request lacks.

### `StatusApi` (with `MCStatusApi`, `StatusApiProofs`)

`status()` for one request at a time or several: `Ask` is `getStatus` of the next
peer, `ReadRunning` the read of `w.running` after each replica, `End` the last
read of it and `handleHealthz`.  Peers change and syncs begin and end between any
two steps.  The errors of `createClient` and of the request are both "down".

### `Metrics` (with `MCMetrics`, `MetricsProofs`)

The scrape goroutine (`StartScrape`, `Query`, `Update`, `Write`) and requests for the
dashboard: `Begin`, `Visit` and `Graph` are `StatsGraph`, which iterates over the map
that `Write` changes, and `Answer` is the page after `w.status()`, which asks every
peer without a timeout and may take for ever (`http.go:38`).  A concurrent write that the Go runtime detects ends the process
(`ConcurrentMapAccess`); an undetected one gives the iteration the old or the new
entry.  A report is three things: the number in the first 24 values of its series,
the number in the values beyond them, which `sumUp` leaves out of the total
(`model-functions.go:484`), and whether the series is shorter than 24 values; a panic of a handler becomes an answer 500, a panic of the scrape
goroutine ends the process.  The copying of the map and the drawing of the lines
read the same entries and are one step each per host.  Hosts are distinct: two
instances with the same host share one entry in the code.

### `ReplicaEnv` (with `MCReplicaEnv`, `ReplicaEnvProofs`)

The two loops of `enrichReplicasFromEnv`: `Collect` for each URL variable in the
order of the environment, `Fill` for each replica of the result by its place, or
`FillFails` when one of the variables with that number cannot be parsed
(`env.go:45-47`).  A
value is where it comes from.  `username` stands for every option; the special
treatment of `DHCPServerEnabled` and the default API path are left out.

## 4. The runs

| run | question | bounds |
|---|---|---|
| `worker` | type, flag, schedule, turned-away triggers, release of the flag, end of a shutdown | one goroutine of each kind, four instants, cron due every second instant; all seven configurations |
| `worker_overlap` | can two syncs run at once? yes | the same |
| `pass` | gating, stopping, reporting, result of a clean pass, convergence | two replicas, two failures, one edit of the origin or a replica; fourteen environments with both error modes: six with lists, three each for the filters and for DNS config and protection, two with settings that are never equal or never sent; the last eight have one replica at work |
| `pass_success` | does success mean synced? no | no failures at all |
| `system` | does the program keep `Replication`'s promise, is a sync without overlap fresh in what it brought, do the replicas converge? | two goroutines (run on start, API), two replicas, one part, two edits, one failure or part left out |
| `lists` | do the merges reach the origin's list, keep it, change a list only as `ListReplication` allows, and converge? | two replicas, two keys of each kind, two failures; five scenarios |
| `lists_clients` | does a comparison leave the origin's clients alone? no | the same, clients with a schedule |
| `settings` | do the comparisons bring every setting into line, spare what is the replica's own, settle and converge? | two replicas, two failures; for five settings every combination of a few values |
| `theme` | is a theme that differs alone synced? no | the same |
| `metrics` | do totals add up, are entries fresh, do scrapes go on? | two instances, one request at a time, reports of one or two queries, with four or none beyond the 24th value, or short |
| `status_api` | is the health check's code true, do its parts agree, does it catch up? | two replicas, one request at a time, three changes |
| `replica_env` | do numbered options reach their replica, and is a wrong number or value refused? | numbers 0 to 3, in any order, up to three replicas in the file |

Three goroutines are enough for every race on the flag: one that leaves, one
that enters, one that is turned away; theorems cover any number.  Four instants
give two executions of cron after the start, which a late copy of an entry
needs.  In `system` two goroutines with one origin struct each are what an
overlap is made of, and the second edit lets one of them hold an older version
than the other; the theorems cover any number of everything.  Two replicas show
that one does not starve the other, and that what is done to the origin's object
for the first is seen by the second.  Two failures cover a failure while
recovering from a failure (a lost answer, then a kill).  In `pass` values are
`old` and `new`: a part is in step or is not; its parts are those in which the
actions differ in kind: lists with and without tolerance, lists that their requests
put out of step, single settings, the protection switch with its older status and
with the DNS config that sets it too, a refresh that sets nothing.  Requests
for the page or the status only read, so one at a time meets every state that
several would.

`CHECK_DEADLOCK FALSE` is set where the process may end or the algorithm does:
`system`, `metrics`, `replica_env`.

The runs that find a violation show these disagreements of the code with what
it says of itself (quoted in `PROJECT.json`):

1. two goroutines pass the guard "Sync already running" together;
2. `actionFilters` reports success before the filtering switch was synced;
3. `AfterDiff` takes the time zone off the origin's clients in memory, so the
   next replica, whose client is equal, is overwritten with one without a zone;
4. a theme that differs alone is not synced: the last comparison of
   `ShouldSyncFor` looks at the language only.

### Fairness

`Worker`: the Go scheduler runs every goroutine that is ready (`WF` of each
goroutine's own steps), and a shutdown that has begun ends, because its context
expires (`WF` of `ShutdownDone \/ ShutdownTimeout`).  There is *no* fairness for
`Return`: the client sets no timeout, so a request may never be answered.
`FlagIsReleased` names what it needs instead: every body ends.  No trigger is
fair either.

`SyncPass`: `WF` of the pass.  It says that cron keeps starting passes and that
each request ends somehow.  It does not say that a request succeeds: the number
of failures is bounded by `MaxFaults`, which is the "once failures stop" of
`Converges`.

`ListSync`: `WF` of the next-state relation, for the same two reasons, with the
same bound on failures.  `SettingSync`: `WF` of the pass, as in `SyncPass`.

`SyncSystem`: as in `Worker`, with no fairness for anything between the peers and a
body.  `SystemConverges` names what it needs: every sync's peers answer
(`PeersAnswer`) and triggers keep coming.  Edits and failures are bounded.

`StatusApi`: requests are handled (a peer answers or refuses), syncs end, and the
monitor asks again; changes are bounded.  `Metrics`: the ticker fires and the
peers answer or refuse (`WF` of the scrape); requests for the dashboard are not
fair, they may wait for a peer's status for ever, nor are races.  Both
need an answer or an error from a peer that has accepted the connection, which
the client, without a timeout, leaves to the peer.

## 5. The proofs

`WorkerProofs` proves for any number of goroutines, any bound of the clock and
any schedule that satisfies `ScheduleAssumption`:

* `TypeCorrect`: `[]TypeOK`.
* `FlagHasOwner`: `[]RunningHasOwner`.  The property is not inductive by itself:
  a restart must find no goroutine left, so the invariant `OwnerInv` adds that a
  process that is down is quiet.  A goroutine that lowers the flag leaves
  `clear`, so an owner can vanish only together with the flag.
* `TurnedAwayOnlyWhenBusy`: `SkipOnlyWhenBusy`, from the same invariant: the
  goroutine that owns the flag is not the one at `check`.
* `AnnouncedNotAhead`: `[]ScheduleNotAhead`.  `ScheduleInv` adds that a value a
  goroutine carries from reading the entry to storing it is not ahead of the
  entry either, and that the entry's time never decreases, which needs the
  monotone schedule.

`SyncPassProofs` proves for any replicas, values, configurations and numbers of
failures:

* `TypeCorrect`: `[]TypeOK`, with the addition that a plan holds only requests
  whose value was read from the origin, without which `Apply` could write
  "not read" to a replica.
* `ErrorsReported`: `[]ErrorsAreReported`.  The invariant `ErrorInv` relates
  `withError`, `erred` and the program counter at every point of `syncTo`.
* `StopsAfterError`: `StopsAtFirstError`, from `ErrorInv` and the lemma that
  only a request or an edit writes to a replica.
* `WritesGated`: `WritesAreGated`.  The invariant `GateInv` says what each
  position of the pass has established: the status was read from an origin that
  is not outdated, nothing is left to read, the replica is set up and not
  outdated, and the plan holds only what a feature enables.  `PlanIsEnabled` turns
  the last into what the requests set and disturb, `ApplyEffect` says what a
  request changes, and a part that is not `unplanned` gets what was read.
* `CleanPass`: `[]CleanPassSyncs`.  The invariant `CleanInv` says of every enabled
  part that its action is still to come, or it is planned, or it has changed behind
  its comparison, or is in step (`PartsDone`).  The protection can be sent twice:
  with the DNS config the later of its two readings counts (`DNSDone`, which needs
  that the DNS config comes after the protection, `ProtectionComesFirst`), without it
  the status that was read at the beginning must still be the replica's
  (`ProtectionDone`).

`SyncSystemProofs` proves for any goroutines, replicas, parts and bounds:

* `SysTypeCorrect`: `[]SysTypeOK`, which includes that a goroutine outside the body
  of a sync holds nothing of one.
* `ImplementsWorker`: `SysSpec => Spec`: every step of the system is a step of
  `Worker` or leaves its variables alone.  So `Worker`'s theorems hold for it;
  `SystemFlagHasOwner` states one.
* `PromiseKept`: `KeepsPromise`, the refinement of `Replication`.  A request writes
  what its goroutine holds.  That this is a version the origin has had is
  `NeverAhead` (nobody holds, and no replica has, more than the origin);
  that it is not older than what the replica has, unless syncs overlap, is
  `HoldsNewer`, which needs `HeldIsOld`, `ReadsFirst` (nothing is sent before all
  is read), `OneRequest`, and `BothMarked` (two goroutines in the body are both
  marked as overlapping).
* `CleanSyncIsFresh`: `FreshWhenDone`.  `DoneWith` says for a goroutine that
  overlaps with no other: each part that it has compared, has no request in flight
  for, and has not missed is at the replica as the goroutine holds it; what it holds
  was read after the sync began.

The conjunction of these parts, `SysInv`, is the inductive invariant.

`ListSyncProofs` proves for any replicas, lists of any kind, both error modes and
any bound on the failures:

* `TypeCorrect`: `[]TypeOK`.
* `CleanActionEnds`: `[]CleanActionReaches`.
* `AgreementStays`: `AgreementIsStable`.
* `PromiseKept`: `KeepsPromise`, the refinement of `ListReplication`, also for a
  request that takes effect although its answer is lost.

What holds at the end of an action says nothing of the requests before it, so the
invariant relates the list of the action's replica to the plan that is left.
`PlanIsJustified`: a deletion is of an entry the origin lacks, or of a further copy
of a rewrite; an addition is of an entry the replica lacks, an update of one it
has.  `OneStays`: for a key of the origin there are fewer deletions left than
copies.  `RestIsPlanned`: as long as nothing has failed, what is missing is
planned.  `HeldIsOrigins`: the pass holds the origin's list, but for the zones
that comparisons have cut.  `MergePlans` shows that the merge establishes these
relations and `RequestKeeps` that every request keeps them, whichever of the
replica's `Outcomes` it has; on the way stand lemmas about numbered copies
(`CopiesAreNumbered`, `WithoutLast`, `WithEntry`) and about what is held of an entry
(`HeldEntry`, `CutTwice`).  That a list which agrees stays so is the last clause of
`RequestKeeps`: such a list has one copy of each key, so no deletion of a key of the
origin is justified, and what an update stores has the value that was there.  For `PromiseKept` the plan that
is left must still fit the list it is applied to, not the one it was made of:
`RequestIsPromised` takes from `PlanIsJustified` that an addition's key is missing *now*
and from `OneStays` that a key of the origin that is deleted is still there more than
once.

`SettingSyncProofs` proves for any replicas, scenarios and number of failures:

* `TypeCorrect`: `[]TypeOK`.
* `ActionsBringIntoLine`: `BringsIntoLine`.
* `OwnIsKept`: `KeepsOwn`.

The invariant adds that the object of the pass is the origin's value, for a list
up to its order (`HeldIsOrigins`): this is what the code must not break while it
sorts, cleans and overrides in place.  `RequestIsMeant`: a request is the origin's
value with the overrides of the replica it goes to.  `Shapes`: values have the
fields of their setting, without which an update of a field could not be
computed.

`StatusApiProofs` proves for any peers, requests and number of changes:

* `TypeCorrect`: `[]TypeOK`.
* `CodeJustified`: `[]CodeIsJustified`.
* `StatusInAgreement`: `[]StatusAgrees`.

A verdict speaks of the past, so the invariant says that every value in a status
has a witness in the history of its request (`Witness`), the flag included, which
was read for every replica but the one being asked; `Present` puts what is so now
into the history, `Verdict` ties the code to the status.

`MetricsProofs` proves for any instances in any sequence, series of any numbers and
any number of requests:

* `TypeCorrect`: `[]TypeOK`.
* `AnswersAreWhole`: `[]AnswerIsWhole`.  `PageInv` says of a request that iterates,
  and of one that has its lines and waits for the status, that the total is that of
  the first 24 values of the lines it has copied: the map itself, which changes
  under it, is not mentioned.  A step adds one line; that the fold of a sum then
  grows by that line (`TotalOfOneMore`) needs the fold's equation to have exactly
  one solution (`SumExists`, `SumIsUnique`), both shown with a smallest set of
  instances for which they fail (`Smallest`) in place of an induction.
* `EntriesAreOfLastScrape`: `[]EntriesOfLastScrape`.  `Written` says how far the map
  has the reports of the scrape, and `ScrapeInv` that the list of reports is as long
  as the index of the instance that is asked.

`ReplicaEnvProofs` proves for any numbers of replicas in the file and in the
environment:

* `TypeCorrect`: `[]TypeOK`; the bound on the length of the result needs that a number
  occurs once among the variables.
* `OptionsAreOwn`: `[]OwnOptions`.  `CollectInv` and `FillInv` give the list as a function
  of the input and of how far the loops have come, and say that the places that
  are done have no malformed variable.

The assumptions are the named `ASSUME`s of the modules, which TLC evaluates in
every run.  Those that the proofs added say what the code's types and the peers
guarantee: `ListSync`'s entries are records of their kind of list, and a peer that
gets an entry stores an entry (`EntriesAssumption`); a list is finite, and only
rewrites can be there more than once (`NumberedAssumption` numbers those copies);
a value of `SettingSync` has the fields of its setting (`ValuesAssumption`); and
`Metrics` asks at least one instance, the origin (`scrape.go:31`).  Each invariant was
checked by TLC on the module's run before it was proved.

Every safety and action property of the passing runs, and both refinements, are
theorems.  Only
model-checked, because it is out of the proof system's reach: liveness
(`FlagIsReleased`, `ShutdownTerminates`, `SystemConverges`, `SettlesUnlessNeverEqual`,
`HealthzCatchesUp`, `ScrapesGoOn`, the three `Converges`).  What a
recursive definition computes cannot be shown by induction, because the library's
induction theorems take an operator; the one fold of the models, the total of a
dashboard, is treated as described.

### What the models show besides

Some things the code does are in the models and contradict no text of the
repository, or concern a line that needs no model checker:

* `nextSyncTime` can go back: a goroutine that is overtaken between reading
  cron's entry and storing it (`sync.go:167-169`) puts an earlier time back.
  `ScheduleNotAhead` covers the other direction.
* With `ContinueOnError` the error of a single client, filter, lease or of the TLS
  config is logged and does not reach the result (`action-general.go:127-254`), which
  `ErrorsAreReported` therefore claims only without the option.
* A rejected deletion of a rewrite ends the action also with `ContinueOnError`
  (`action-general.go:80`), so no rewrite is added as long as it is rejected.
* The request for the DNS config also sets the protection (`client.go:416-419`): with
  `DNS.ServerConfig` alone the protection is synced although the feature that has its
  own request for it is off.  `WritesAreGated` counts it as what that feature sets.
* A pass without a failure leaves a part out of step, until a later one, when an
  added filter is disabled at the origin or a double rewrite loses both copies;
  `CleanPassSyncs` excludes these, `Converges` does not.
* The reported duration is computed before the actions run (`sync.go:306`).
* A sync that ends at the origin leaves the metrics of an earlier one.
* Passes do not settle, and send the same request each time, in the cases of
  `NeverEqual`: blocked services that the origin reports unsorted, DHCP leases that
  differ (they are part of the compared config), and a DHCP range that only the
  replica has.
* The health check answers 503 while a sync runs, because `status()` overwrites
  the replicas' status.
* An instance without a client ends the process at the first scrape: its report
  has no status (`scrape.go:41-43`, `metrics.go:199`).
* A statistics series of fewer than 24 values makes the page fail
  (`model-functions.go:485`: `len(oo) >= i`); of a longer one the total has the first
  24 only (`model-functions.go:484`), while its line shows them all.
* `w.status()` of the page asks every peer without a timeout (`http.go:38`): a peer that
  never answers keeps the page waiting.
* With a gap in the numbers of the URL variables, or when replicas of the file are
  overridden out of order, the options of one number are lost or go to another
  replica (`env.go:39-45` counts places).
* `DNSConfig.Sort` dereferences `BootstrapDns` and `LocalPtrUpstreams` when
  `UpstreamDns` is set (`model-functions.go:112-118`): an answer without them panics
  the action; `SyncPass` has the panic.

## 6. Not modelled

* The log history: an unsynchronised slice that no other part reads.  Races on it
  can lose or repeat lines of the log page, nothing else.
* The schedule handler, which computes the interval from the cron expression and
  prints variables of `Worker`.
* The sources of the configuration other than the numbered variables: flags, the
  YAML file and its schema, which libraries read; deduplication is an input.
* Comparisons that are plain equality of JSON (query log, statistics and TLS
  config), whose outcome `SyncPass` has as "differs or not".
* The encoding of requests, the scripts and styles that the page embeds
  (`internal/sync/static`, vendored), the generated API model, the generators and
  mocks, which have no behaviour of their own to check.
