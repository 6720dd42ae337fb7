# TLA+ verification of bat

bat monitors servers and workstations. A Rust probe and a TypeScript CLI send
reports to a Cloudflare Worker, which keeps everything in D1 (SQLite), caches a
little in KV, serializes configuration changes through one Durable Object and
runs a cron job every hour. State meets concurrency in the Worker: any number
of invocations run at once, every `await` is a point where another may run, and
an invocation can be cut off between two of them. Around it are programs with
their own hard cases: a CLI whose processes share files, a probe that retries,
a release script that is run again after a failure, local environments that
share a store. This project models them in TLA+, checks them with TLC and
proves the main properties of the Worker's core with TLAPS.

Contents: [inventory](#inventory), [modules](#modules-and-the-code),
[runs](#runs), [findings](#where-code-and-documentation-disagree),
[proofs](#proofs), [limits](#assumptions-and-limits), [plan](#plan).

## Inventory

Paths are below `src/packages/worker/src/` unless they say otherwise.

| Component | State | Hard behaviour | Correct when | Module |
|---|---|---|---|---|
| Alert evaluation (`adapters/d1/_alerts-tier1.ts`, `_alerts-tier2.ts`, `lib/alerts-healthy-cache.ts`) | `alert_states`, `alert_pending`, KV sentinel "nothing to recover" | ingests of one host overlap; two SELECTs, a KV delete and a batch; KV failures swallowed | timers count only uninterrupted firing; first trigger time kept; the sentinel hides no alert for long | HostAlerts, AlertTimers |
| CLI tokens (`lib/cli-token-cache.ts`, `middleware/api-key.ts`) | `cli_tokens`, KV positive entry, KV revoke sentinel | a SELECT before the revocation, the cache write after it; partial KV failure | a revoked token stops working within a bounded time | CliTokenCache |
| Connect coordinator and mutations (`entry.ts`, `routes/connect-api.ts`) | queue in the object; `connect_requests`, revision, grants | timeouts while work goes on, resets, retries | each Idempotency-Key runs at most once; no lost update; the queue neither leaks nor sticks | ConnectMutations |
| Connect tokens (`routes/connect-management.ts`, `adapters/d1/connect.ts`) | tokens, sealed secrets, versions, grants, confirmations, audit | confirmation consumed before its action; batches that arrive late | a nonce buys one action; a secret can always be unsealed; grants are the audited ones | ConnectTokens |
| Workstation enrollment (`routes/workstation-auth.ts`, CLI `workstation/*`) | `workstation_codes`, `workstations`, the credential file | replayed and early exchanges, revocation with codes outstanding, two CLI commands | one key per code, only with consent, never after a revocation | WorkstationKeys |
| Workstation reports (`routes/workstation-probe.ts`, `insertReport`) | `workstation_reports`, connectivity, `last_seen_at`, `public_ip` | late, duplicate and conflicting reports | the newest sample decides; a report is filed once | ProbeCycle |
| Rate windows (`adapters/d1/connect.ts`, `workstations.ts`) | one row per key | requests that count out of order; windows of two lengths | no window over its maximum, no refusal below it | RateWindows |
| Rollup and retention (`adapters/d1/aggregation.ts`, `settings.ts`) | `metrics_raw`, `metrics_hourly`, `settings` | a long run of separate statements beside ingests, deletions, settings | hourly rows complete; nothing too young purged | MetricsRollup |
| Host registry (`adapters/d1/hosts.ts`, `lib/host-meta-cache.ts`, `routes/identity.ts`, `maintenance.ts`) | `hosts`, tombstones, KV projection | invalidation racing a late store; reports overtaking each other | staleness bounded by the TTL; no report resurrects a host | HostRegistry |
| Inventory (`routes/agents.ts`, `assets.ts`, `bindings.ts`, `tags.ts`, `adapters/d1/connect-products.ts`) | agents, assets, bindings, tags, ports | ownership across servers, cascades, half-done replacements | references lead to rows; Connect stays inside its server | Inventory |
| Heartbeats (`routes/heartbeat.ts`, `lib/heartbeat-cache.ts`) | agent rows, KV snapshots | withheld writes behind a stale snapshot | status changes always reach D1 | AgentHeartbeats |
| Events and webhooks (`routes/events-ingest.ts`, `webhooks.ts`) | webhooks, quota, events | rotation, minute boundaries, paging under inserts | old tokens post nothing; pages are complete | WebhookEvents |
| Entry control (`middleware/*`, `entry.ts`) | none | five layers with their own lists of routes | no change outside the queue, no key that opens too much | EntryGate |
| Dashboard reads (`routes/hosts.ts`, `monitoring.ts`, `services/status.ts`, `lib/dashboard-cache.ts`) | KV answers | rows, alerts and ports read at different moments | what has settled is shown as it is | DashboardViews |
| CLI service and login (`cli/src/commands/service`, `lib/pid.ts`) | PID file, config, launchd job | kills, reused process ids, two starts | one loop, one source key | CliService |
| CLI doctor and update (`cli/src/doctor.ts`, `update.ts`) | installed version | lagging mirror, failing network | no downgrade, no fabricated pass | CliUpkeep |
| CLI workstation probe (`cli/src/workstation/probe`) | lock directory, report | suspension, stale lock, deadline | one run at a time; a report that its schema accepts | ProbeReport, ProbeCycle |
| CLI schedule (`cli/src/workstation/scheduler`) | unit files, registration, crontab, record | every command may fail or be killed | a failed change restores the old schedule | WorkstationSchedule |
| Probe (`src/probe/src`) | baselines, timers | failed readings, retries, slow collections | rates true, samples stored once | ProbeLoop |
| Release script (`src/scripts/release.ts`) | files, branch, tags | rerun after any failure, commits beside it | tags proven, notes complete | ReleaseTrain |
| Local environments (`src/scripts/environments/launcher.mjs`, `runtime.mjs`) | instances, runtimes, store and lock | switches under calls, rival launchers, kills | no call to a closed runtime; a running store stays | LocalEnvironments |
| Demo recordings (`recordings.mjs`, `recorded-demo.mjs`) | alias tables, statements | passes that must agree on names | nothing leaks; seeded whole or not at all | RecordingSanitizer, RecordedDemo |

How they interact: the probe and the CLI call the Worker over HTTP. Every
`/api` request that changes something, except ingest, identity, tier2 and
events, passes through the coordinator (`domain/connect.ts`), which runs one at
a time; the reports of workstations and the heartbeats are among them. Those
four and all GETs overlap freely. All components share D1; deletion of a host writes a tombstone whose triggers (migration 0030) abort
late writes. The cron job runs beside all of this. Where components meet, the
meeting is inside a module: a host's deletion is an action of HostAlerts,
MetricsRollup, HostRegistry, WebhookEvents, ConnectTokens, Inventory and
DashboardViews, the worker's table one of ProbeLoop, the CLI's runs and
`insertReport` are both in ProbeCycle.

`PROJECT.json` lists every component with its status and every hazard with the
properties that would catch it.

## Modules and the code

A D1 statement, and a `db.batch`, is one atomic step. A KV operation is one
step and may fail where a constant says so. Everything between two awaits
belongs to the step before or after. Requests that the coordinator serializes
are one step unless an eviction can cut them. `PROJECT.json` maps each
definition to its lines.

### The Worker

**HostAlerts** — the alert tables of one host. A lane is one request at a time.
An ingest is `StartIngest` (validation, the deletion check and the raw insert:
the guarded INSERT is where it takes effect), then `SentinelHit` or
`SentinelMiss`, the two reads `ReadStates` and `ReadPending` in either order,
then `NothingToWrite`, `ObservedHealthy`, or `InvalidateHealthy` followed by
`CommitBatch`; inside the window `PurgeInvalidate` and `PurgePending`. A payload
is the verdict of each rule (`"clear"`, `"absent"` or a firing value): the
evaluators give exactly one result per rule, or none when the data is missing.
`Die` cuts a request off. Tier-2 rules are all instant. The legacy
`handleInstantRule` and `handleDurationRule` of `_alerts-tier2.ts` are only
reached by tests.

**AlertTimers** — the abstract specification: a sample is judged in one step.
`HostAlerts` implements it with `since <- pending` and `raised` the trigger
times.

**CliTokenCache** — one token. Requests run `ReadSentinel`, `ReadCache`,
`SelectRow`, `TouchRow`, `RememberToken`; the revocation runs `FindHash`,
`DeleteRow`, `PutRevoked`, `DropCache`; each side can stop after any step.

**ConnectMutations** — one server, one token, the coordinator. `Send`,
`StartWork`, `QueueTimeout` and `Settle` are `ConnectCoordinator.fetch`;
`Authorize` to `FinishRequest` are the mutation pipeline; `TimeOut` answers 504
while the work goes on; `Evict` loses the object's memory and not D1; browser
edits, grants, deletion and registration run through the same queue;
`ExpireResponses` is the cron. Wall-clock comparisons may go either way.

**WorkstationKeys** — one installation, its CLI commands, the operator's
browser and the Worker. The exchange is two steps (read, batch), the other
handlers one each; the purge and the clock run at any time. `StrayExchange` is a
replayed or early request. No handler sets `workstations.disabled`, so it is
left out.

**RateWindows** — one key. `Arrive` reads the clock, `Count` is the upsert and
the verdict, `Sweep` the cron's DELETE. Time is in minutes. One lane is a
coordinated (writing) caller, several lanes are GETs.

**MetricsRollup** — the cron run, one action per statement: `AggregateHour`
(list the hosts), `ReadHost`, `WriteHost`, `StartPurge`, `PurgeRaw`,
`PurgeHourly`, `PurgeRest`; `Ingest`, `DeleteHost`, `RegisterHost` and
`SetRetention` run in between. A sample is its timestamp and an hourly row the
samples it was computed from. Nothing sets `hosts.is_active` to 0, so every
host is active. `Skew` stands for everything that makes a sample late: the
probe's clock, its retries, the time between the guard and the insert. A run
ends before the next hour begins.

**HostRegistry** — the row of one host, its tombstone and the KV projection.
A report is `AcceptIngest`, `AcceptIdentity` or `AcceptTier2`, then
`LoadHostMeta` or `MissHostMeta`, `SelectHostMeta`, `StoreHostMeta`, and its
writes one by one; changes are `ResolveHostRecord` and the D1 write, and
`InvalidateHostMeta` after it, which may fail or be lost.

**AgentHeartbeats** — the agents of two sources. `ProcessHeartbeat` decides from
a snapshot that KV may show in an older version, `BatchFails` or the batch
lands, `WriteSnapshots` refreshes any part of the snapshots; heartbeats through
Connect and edits change rows and leave snapshots alone.

**WebhookEvents** — one host's webhook. A delivery is `PostEvent`,
`FindActiveWebhookByToken`, `GetHostPublicIp`, `CheckRateLimit`, `InsertEvent`;
rotation, removal, host deletion and the purge run in between, and a reader
pages through with `StartReading` and `ReadPage`.

**ConnectTokens** — `SensitiveAction` to `CommitChange` are the steps of a
reveal, rotation or revocation; `CoordinatorEvicted` may cut them and
`LateBatchArrives` delivers what had been sent. A ciphertext is the record of
what it was sealed with.

**Inventory** — `BrowserWrite` and `ConnectWrite(s)` are the changes of the
routes, one operator each; `ReplaceInserts` is the second half of the browser's
tag replacement and `ReplaceCut` its loss.

**EntryGate** — one request and its way: `Fetch`, `ConnectEnvelope`,
`EntryControl`, `AccessAuth`, the key middlewares, `Handle`. Every combination
of host, route, method, credential and environment is an initial state.

**DashboardViews** — a request is `Ask`, a cache hit or `ReadRows`, `ReadBeside`
and `BuildView`, then `WriteCache`. The reference for windows over midnight
(`WalkHolds`) is written without the comparisons of the code.

### The command line and the probe

**ProbeReport** — collection of a report: targets, samples, ping lanes that take
a target, end or are written off when the budget ends, assembly, and the shared
schema. **ProbeCycle** — runs that start, are refused, suspended, woken, crash;
uploads that land late or twice; `CheckReport` and `InsertReport` are the two
halves of the handler. **WorkstationSchedule** — an installation is a list of
steps that the machine walks. `RunCommand`, `TryCommand`, `UnregisterCommand` are
its commands, `WriteFile`, `RestoreFile`, `RemoveFile` its changes of files; each
has its failure, with, without or with half of its effect (`CommandFails`,
`WriteFails`, ...), where the code throws to: into the rollback, or out of the
command. `UnregisterMistaken` is an error that `ALREADY_ABSENT` takes for
"nothing registered", `RecordFails` and `RecordStays` are a schedule.json that
cannot be written or deleted. `ReadCrontab` takes over what the CLI captures of
a table (`Captured`): all of one that comes in one piece, otherwise a part.

**CliService** — `StartService`, `CheckPidFile`, `WritePidFile`, `HeartbeatDue`,
`SendHeartbeat`, `StopService`; `OtherProgram` takes the number of a dead
process. **CliUpkeep** — updates and a doctor that gathers its facts one by one,
with the credentials that it has read at its start, whatever a login writes
meanwhile. `StartDoctor` reads the files and ends without verdicts where one is
malformed, `InspectSchedule` waits for the scheduler and may throw, which the
doctor takes for "not installed".

**ProbeLoop** — `Post` is one request of `Sender::post` with its pause, `Tick`
is the ticker with `collect_metrics`, `Round` the tier 2 check, `Tier2Collect`
and `Tier2End` the spawned task, whose steps lie between two posts. `Seed` sets
the clock to zero, since nothing before it is compared with it. A counter
is kept modulo `Word`; what really was counted stands beside it. One post of a
behaviour meets failures (`OneBadPost`). Periods of the instance are
shorter than the code's so that they fall due; pauses, retries and the skew
limit are the code's.

### Tooling

**ReleaseTrain** — one action per command of `main`. **LocalEnvironments** — a
gateway, a rival launcher, one store. Each look at the store and what follows
from it are two steps: `LookAtStore` with `RemoveStale` or `TakeLock`, and, where
a demo is refreshed or reset, `ReleaseLock`, `CheckOwned`, `WipeOwned`. A
close that fails leaves its runtime closed and the store where it is.
**RecordingSanitizer** — a behaviour
follows one kind of name through every section (the table `Sections`), or the
plain fields; a process name of more than 64 characters is no name
(`recordings.mjs:339`). **RecordedDemo** — the loader, from validation to the rows; its
statements are a set, with a mark (`clash`) when two are for one key.

### MC modules

`MCHostAlerts`, `MCConnectMutations` and `MCWorkstationKeys` add symmetry sets
and function-valued constants. The five plane modules put components that
belong together into one instance: `plane` says which part moves, a part that
does not move keeps an initial state, and the properties of all parts are
checked on all of it. Parts that never move at once may share model values, which
makes the symmetry set larger and changes nothing else.

## Runs

Where a cfg switches deadlock checking off, the model stops at its bounds on
clocks, requests or samples. ConnectLiveness has no such bound and is checked
for deadlock.

| Run | Parts and properties | Bounds and why |
|---|---|---|
| HostAlertsSerial | HostAlerts: `SentinelSound`, `ImplementsAlertTimers` (the refinement of AlertTimers) | one lane of each kind, a duration rule whose data may be absent and an instant tier-2 rule, two severities, four ticks: a timer can start, be held, be promoted, cleared and cross the window |
| AlertPlane | HostAlerts (`DeletedHostHasNoAlerts`, `StaleSentinelBounded`, `TriggeredAtPreserved`), WebhookEvents (`WebhooksSound`: `EventsOfThisLife`, `RotationCutsOff`, `QuotaKept`, `CursorPagesComplete`), DashboardViews (`ViewsTruthful`: `SettledIsShown`, `GoneIsNotShown`) | two racing lanes, all KV faults, deletion and registration; two deliveries, two tokens, a turn of the minute, pages of one event; one host under one viewer, a day of three steps, windows over midnight, a cache that is fresh for one step |
| HostPlane | HostRegistry (`DeletedHostStaysAway`; `LagBounded`: `ProjectionBounded`, `JudgedByRecentWindow`, `StrandedBounded`, `LastSeenRecent`), MetricsRollup (`DeletedHostHasNoMetrics`; `RunLosesNothing`: `RetentionHonoured`, `HourRolledUp`), AgentHeartbeats (`HeartbeatsHonest`: `SnapshotHonest`, `HeartbeatLands`, `DriftBounded`; `OtherSourcesUntouched`) | two reports and two changes, all at once, TTL and latency of one, so that an entry stored late can lapse; two hosts, hours of two ticks, retentions 2 and 3; two sources, three heartbeats, throttle 2 |
| ConnectPlane | ConnectMutations (`QueueHonest`: `QueueAccounted`, `RefusalsTruthful`; `AtMostOnce`; `IfMatchHonoured`), ConnectTokens (`TokensSound`: `SealedCurrent`, `Revocable`, `ConfirmedOnce`, `ServerLimitKept`, `GrantsAudited`; `TokensOnlyForward`: `SecretsOnlyForward`, `AuditedFromTruth`), Inventory (`InventorySound`: `RefsExist`, `InventoryLimits`; `ConnectKeepsToServer`) | three slots over a capacity of two, two keys and two intents; two managers, two tokens, four requests and changes of what they manage together, so that two confirmed actions, or an edit, an eviction and a deleted server, follow a creation; two servers, an agent, an asset, two tags, limits of one |
| ConnectLiveness | `QueueDrains` | the queue with one key, under fairness |
| WorkstationKeys | `CodesGuarded`: `CodeMintsOnce`, `EnrolledByConsent`; `ExchangesSound`: `VoidedCodesPowerless`, `ConsumedCodeHasRow`; `LogoutForgetsDeadKey` | two commands, three codes, two principals, codes that expire |
| AccessPlane | EntryGate (`GateHolds`: `ChangesAreSerial`, `ReadKeyReads`, `DashboardNeedsSession`, `WorldsApart`, `AnswersAudited`), CliTokenCache (`RevocationHolds`: `DeletedTokenDies`, `SentinelShields`), RateWindows (`RateExact`: `LimitHeldInOrder`, `RefusedOnlyAtLimit`), WorkstationSchedule (`InstallationSound`: `FailureRestores`, `InstalledWorks`, `RecordTruthful`, `UserLinesKept`), ProbeReport (`ReportHonest`: `RefusedOnlyForCause`, `EntriesHonest`), ProbeCycle (`ReportsFiled`: `OneRun`, `LastSeenIsNewest`, `LinksOfOneBody`, `AcceptedIsFiled`; `StationOnlyForward`: `AddressNeverOlder`, `DisabledIsFrozen`) | all routes and credentials; TTLs of 2 and a clock to 7; three lanes over a window boundary and a sweep at minute 60; three setups of two plans on every backend, each of their steps failing, two edits of a crontab of which four lines come in one piece; two targets in one lane; two runs, two attempts, one upset |
| ToolPlane | ProbeLoop (`SamplesTrue`: `RateTrue`, `StoredOnce`, `RetriedInTime`; `ScansSpaced`), CliService (`ServiceSound`: `OneLoop`, `StatusKnowsLoop`, `OneSource`), CliUpkeep (`NeverDowngrades`; `DoctorHonest`: `NoFabricatedPass`, `FailsForCause`), ReleaseTrain (`TagsSound`: `TagsAreProven`, `TaggedFilesAgree`, `NotesComplete`, `TagsGoUp`), LocalEnvironments (`InUseStays`: `NoCallAfterClose`, `OneLauncher`, `RunningStoreStays`), RecordingSanitizer (`RecordingSound`: `NothingLeaks`, `DistinctAliases`, `NamesSurvive`, `TargetsCoverLinks`), RecordedDemo (`DemoSound`: `SeededWhole`, `AggregatesKept`, `RefusedForCause`) | three samples with six attempts of one post; two shells and three process ids; two updates; three releases, four commits, two files; two instances and three runtimes, so that a tab leaves an e2e runtime for a demo that is then refreshed, and one rival; three names over a pool of two; two aliases, two points, all losses of three packets |
| HostAlertsOffline | `NoPromotionAcrossWindow` violated | one host silent during the window |
| CliTokenResurrected | `RevocationFinal` violated | no KV fault needed |
| ConnectDeletedKeys | `AtMostOnce` violated | one slot, host deletion allowed |
| RateWindowsSwept | `RateLimited` violated | windows of ten minutes |

A checked property is what its component promises; after a colon stand the named
parts of which it is the conjunction. The type invariants of HostRegistry,
AgentHeartbeats, ConnectTokens, WebhookEvents and RateWindows are parts too;
those of the other modules with proofs are proved. Every property has a
mutant in `PROJECT.json`: a bug that could be in that code and that the property
catches under the same cfg.

Fairness is assumed in one place: `FairSpec` of ConnectMutations has weak
fairness on `Progress(s)`, the next step of a held request. Each await of the
coordinator settles with a result or an error (the handler's fetch and D1 calls
have their own deadlines), and the runtime resumes a settled promise. Clients,
timers, evictions and browser edits need not act.

## Where code and documentation disagree

Four runs are violated; `PROJECT.json` quotes the lines.

1. *HostAlertsOffline* — a host silent during its maintenance window keeps its
   duration timer and its first sample afterwards promotes it.
2. *CliTokenResurrected* — a cache entry written after the revocation outlives
   the revoke sentinel; the token works again for the rest of its TTL.
3. *ConnectDeletedKeys* — deleting a host deletes its idempotency rows, so an
   old retry runs again once the host is back.
4. *RateWindowsSwept* — the sweep measures ten-minute windows in minutes and
   deletes the current count every hour.

Elsewhere the properties promise less than a reader of the documentation may
expect, because the code does:

- *The sentinel.* `_alerts-tier1.ts:203` invalidates it before the batch so that
  no concurrent ingest resurrects it. One that had already read empty tables
  still can: `SentinelSound` needs one tier-1 request of a host at a time, and
  `StaleSentinelBounded` says how long a stale sentinel lasts otherwise.
- *Logout* unlinks whatever file is there after awaiting the server. A login
  that replaced it meanwhile loses a live key: the one exception that
  `LogoutForgetsDeadKey` names.
- *Rate limits.* Concurrent GETs may count out of order at a minute boundary;
  the late count sets the window back and the minute starts again.
  `LimitHeldInOrder` shows that this and the sweep of a window in use are all
  that exceeds a limit; `RateLimited` needs callers in order.
- *The rollup* never returns to an hour, so `HourRolledUp` covers what was
  stored when the run began and only a run that reaches its purge: a sample up
  to five minutes late is missed, and a host deleted between the two statements
  of its rollup, or any rejected statement, ends the run for the hosts behind it.
- *Retention.* A failed read of the setting is answered with the default, so
  `RetentionHonoured` has to allow for the default too.
- *The metadata cache.* An entry stored after its invalidation lives a whole
  TTL: the window that judges a sample, and the row that a re-registered host
  seems to have, may be that old (`JudgedByRecentWindow`, `StrandedBounded`).
- *Connect keys without servers* can be managed by their owner only
  (`canManage`); docs/22-connect.md:13 also names a global manager.
- *changeToken* writes back the `last_used_at` it read, and a request with the
  old secret may still touch it after a rotation: `SecretsOnlyForward` is about
  secrets and revocation.
- *Events* paged by offset (`GET /api/events`) can skip a row when others are
  deleted; `CursorPagesComplete` is about the cursor of Connect.
- *Workstation runs.* A run suspended longer than its lock is good for works
  beside the next one and removes its lock; `OneRun` names the exception.
- *Reports of unusual machines* (more than 1024 CPUs, a volume of a pebibyte)
  are refused by their own schema each time; `RefusedOnlyForCause` lists them.
- *The schedule.* A kill between installation and record leaves a schedule that
  `--remove` does not know, and a crontab whose END marker was deleted loses
  the lines below it: `RecordTruthful` and `UserLinesKept` say so.
  `scheduler/index.ts:2` promises that a failed reinstall restores the previous
  files, but the files are written before the `try` (`index.ts:285`): a failing
  write leaves new or torn files behind while the old schedule runs on
  (`UnwrittenKeepsLoaded`). A record that cannot be written ends the command
  with an error over a schedule that is installed (`setup.ts:84`), and a
  `systemctl` that answers "No such file or directory" for another reason is
  read as "nothing to remove". `cron.ts:1` promises that only the block is ever
  rewritten, but a table of more than 64 KiB is captured in part
  (`exec.ts:37`) and that part is written back: `UserLinesKept` holds of tables
  that come in one piece.
- *The PID file* is checked and then written, and removed without a look at
  what it holds. `OneLoop` needs starts that do not overlap. A foreign process
  that has the number of a killed service blocks a start, and a running
  service keeps the key it started with.
- *Updates* that overlap can install the lower version last; an update on a
  pre-release never moves to the release.
- *Doctor* answers a revoked workstation key with a warning and exit code 0. An
  inspection of the schedule that throws (a command that does not start or times
  out) fails the check of the schedule with the schedule in place
  (`commands/doctor.ts:72`; `FailsForCause` names it), and a malformed credential,
  record or installation id ends the command with no verdicts at all.
- *The release script* tags HEAD, not the commit that CI proved
  (`TagsAreProven` needs a quiet clone), and a rerun after a failed gate writes
  the notes of the same commits again.
- *Local environments.* A killed launcher leaves `running.lock`, so that start
  and reset refuse until somebody removes it. A look at the store and the lock
  or removal that follows from it are two steps (`runtime.mjs:184`, `:79`-`82`):
  when two launchers are there at once and one of them removes the store, both
  may go on, and the one that fails takes the other's lock along (`:371`).
  `OneLauncher` and `RunningStoreStays` hold until that has happened (`outrun`).
  After a refresh `demoStarting` still resolves
  to the closed runtime (`launcher.mjs:36`).
- *Recordings.* Aliases of IPv4 addresses wrap after their pool
  (`DistinctAliases` holds as long as it lasts); two points of one second
  collide on their id and the store is refused; hardware addresses of an alias
  move by its index, so that two captured ones in a row would overlap between
  aliases. Nothing refuses two targets with one address or a captured server
  without an interface; `SeededWhole` is about recordings without either.
- *The probe.* The wrap of `compute_delta` turns an interface that was made anew
  into a huge rate; `RateTrue` exempts it. Figures that saturate do not have
  this.

## Proofs

The theorems hold for every value of the constants that satisfies the named
assumptions of the modules. TLC checked each inductive invariant's conclusion
first. `tlapm` proves every leaf with Z3, Zenon and LS4.

| Theorem | Needs | Inductive argument |
|---|---|---|
| HostAlertsProofs `TypeCorrect` | | a lane past its reads holds a full snapshot |
| `DeletedHostSafe` | | type invariant: the triggers abort any batch that would insert |
| `TriggeredAtKept` | | the upsert keeps the stored stamp, whatever the snapshot said |
| `StalenessBounded` | | `StalenessInv`: a live lane is at most `MaxLatency` old, and a table it read as empty was empty at or after its start |
| `SentinelSoundSerial`, `Refinement` | `Serial`: one lane of each kind, KV deletes succeed, no re-registration | `SerialInv`: snapshots are still what the tables hold, only duration rules have timers, no live sentinel between invalidation and commit |
| AccessPlaneProofs `DeletedTokenSafe` | | `LifeInv`: whoever found the row started before its deletion, so the cache ends by `deletedAt + MaxLatency + CacheTTL` |
| `SentinelShieldsSafe` | | `ShieldInv`: the sentinel is put once, over a deleted row; a shielded request reaches the cache only after it lapsed |
| ConnectPlaneProofs `QueueIsAccounted` | | `QueueInv`: only the running request is past the queue, the queue has no duplicates |
| `IfMatchIsHonoured` | | from the check to the handler the revision stands still |
| `RunsAtMostOnce` | no host deletion | a key that ran keeps its record; a request about to run holds the record of a key that has not |
| `RefusalsAreTruthful` | | `ToldInv`: before settling a client has been told nothing but 504 |
| WorkstationProofs `CodesMintOnce`, `VoidedCodesStayPowerless` | | `CodeInv`: a code that minted or was voided is consumed or purged for good |
| `EnrollmentNeedsConsent` | | `OwnerInv`: consumable codes belong to someone who consented, nobody re-owns the code of an exchange under way |
| `ConsumedCodesHaveRow` | | from the two above: the batch that consumes also upserts |
| `LogoutKeepsLiveKey` | | a key that a logout has had revoked stays dead, so a live key in the file was put there by another command |
| AccessPlaneProofs `NoRefusalBelowLimit` | | what the row counts was let through, up to the maximum, even if the row moves back |
| `OnlyDisorderExceedsLimit` | | `RowNewest`: until a count is out of order, the row is the newest window counted in and counts all it let through |
| `LimitIsKept` | `InOrder`: one lane, one-minute windows, a sweep that spares the longest request | the row is the newest window with an exact count; swept windows are older than any request to come |
| `RateIsExact`, `RevocationIsKept`, `QueueIsHonest`, `CodesAreGuarded`, `ExchangesAreSound`, `RunsLoseNothing` | | the properties of the runs, from the two theorems of the module about their parts |
| HostPlaneProofs `DeletedHostIsForgotten` | | the ingest batch and the foreign key both refuse a missing host |
| `RetentionIsHonoured` | | `LimitIsConfigured`: the purge limit belongs to a retention that was configured during the run, or to the default if reads may fail |
| `DueSamplesRolledUp` | | `DueStored`: what was due stays stored until the purge, and a host the run has come to has it in its row or in what was read for the row |
| HostPlaneProofs `DeletedHostsStayAway` | | with the types inductive as it stands: the upsert of a report is guarded by the tombstone, its other inserts by the foreign key, and a deletion empties the tables in one batch |
| `LagIsBounded` | | `RowHistory`: the row has had its present content until now; `Young`: a report is at most `ReportLatency` old; `ReadRecently`: what it read was true less than a TTL and a latency before it arrived, since an entry that it may have read ends by then (`ProjectionBounded`) |
| `HeartbeatsAreHonest` | | `Backed`: every snapshot, also an older one that KV still answers and one about to be put, is of a write that reached D1; `Landed`: of each write the row has been seen at it or later, or has been made or edited since |
| `OthersUntouched` | | from the types: the statements name the source |
| InventoryProofs `InventoryStaysSound` | | `RefsStand`, `LimitsStand`: each write checks in its own step what it refers to, and each deletion takes along what refers to it; the half of a replacement that is still to come inserts no more than the limit leaves |
| `TokensKeepToServer` | | `ConnectKeeps` of each change, on rows whose references stand |
| AccessPlaneProofs `NoWayAround` | | `Said`: for each layer what a request that is past it satisfies; `Recorded`: nothing is audited before the end, and what ends has its entry |
| `ReportsAreFiled` | | `LockHeld`: as long as nobody overslept the lease, whoever counts on the lock made the directory and has kept it fresh; `SeenNewest`: the row is the newest of what is filed; `AnswersKnow`: an answer 200, or one that is under way, has its report behind it |
| `StationMovesForward` | | from the same: an address is written only with a report that is newer than all filed |
| AlertPlaneProofs `WebhooksStaySound` | | `TokensKnow`: tokens and ids only grow, and a request that found the present configuration began in the present life of the host; `QuotaCounts`: one visit of the window to a minute, and one more for each return; `ReaderKnows`: what is there of the events the reader began with is read up to its cursor. The lemmas on pages (`PageReturnsAll`, `LastPageIsWhole`) say that a page has all events up to its cursor; they use that a set of ids has a least member |
| `ViewsStayTruthful` | | `RequestKnows`: what a request has read so far is so of every host that has not changed since it began, and its answer was true since then; `EntryKnows`: a stored answer was true less than a freshness and a latency before it expires. That a maintenance window is a walk around the day (`WindowIsWalk`) is a lemma |
| AccessPlaneProofs `ReportsStayHonest` | | `MachineFits`: each part of a report fits the schema but for what the collectors do not cut; `SlotsAre`: every reply of a ping lands in the slot of its packet |
| ConnectPlaneProofs `SecretsStayCurrent` | | `RowsCurrent`: not only the stored rows, but also those that a request carries and a batch is about to write hold their secret under their own context |
| `TokensMoveForward` | | `VersionsKnow`: as long as the version that a batch expects stands, the batch knows the servers of the token and has at least its secret; each change of either moves the version (`VersionsTell`) |
| `TokensStaySound` | | besides: `GrantsStand`: what a token refers to exists, so a global manager covers it; `NoncesSpent`: a nonce is in one confirmation, or in the request that consumed it, or used; the tokens in force are finitely many, and one that enters finds room |
| ToolPlaneProofs `ServiceStaysSound` | | `PidsDiffer`: processes that run have numbers of their own; `LoopKnown`: until two starts race, the PID file holds the number of the loop and nobody is about to write it; `SourceKnown`: until two first logins race, there is one source key from the first on |
| `InUseStaysThere` | | `StoreKept`: until `outrun`, whoever runs the demo holds the lock of a store that is there, nobody else is about to remove it, and while one launcher is about to remove it no other has looked at it and not yet acted; `DemoKnown`: one demo runtime is open, and only the refresh closes it; `UseKnown`: an e2e runtime has one instance, and it is open as long as that is active or has calls under way |
| `UpdatesGoUp` | | `UpdateKnows`: an update that nobody has overtaken replaces the version that it started from, and goes on to the installation only with one that it has found higher (`OutdatedRanks`) |
| `DoctorStaysHonest` | | `LooksOn`: while it looks, the doctor has seen what is in order now; `Seen`: what it holds of the machine and has learned so far was so at some time; a credential that it has read stays revoked once it is; a schedule that it holds for missing was missing, or its inspection threw |
| `TagsStaySound` | | `TagsStand` with `TagsClimb`: later tags are higher and HEAD's version is below none; `RunStarted`, `RunPrepared`, `RunCommitted`, `RunProven`: what a run has at each of its steps, what an earlier run left in the tree and people commit beside it included; a tag with a commit beside its run is told apart (`alone`) |
| `SamplesStayTrue`, `ScansStaySpaced` | `Patient`: six requests with their pauses are shorter than the skew allowed (10 s each and 31 s against 300 s) | `ClockKnown`, `SampleKnown`: the baseline was read with the sample under way, which is stored or newer than all that is; `PostTimed`: how late a request may be by its number; `Tier2Known`: one task at most, and `lastDeep` is not before the last scan that ended |
| `RecordingStaysSound` | | `LookedThrough` with `SectionsAreSound`: every section that writes names of a collected kind is one that has been looked through; `NumbersDiffer`: no number is behind two names, since the first are places in an order and later ones come after them; `NameShown`: what is shown of a name is what the table has, for good |
| `DemoStaysSound` | | statements are those of the points gone through, and a key is there twice only for two points of one second; `ReconstructionKeeps`: the packets that are made from a summary have that summary again, case by case of how many came back |
| WorkstationProofs `InstallationStaysSound` | | `Points`: at each of its steps an installation, a rollback or a removal has a known tail of its plan before it and a machine on which the steps behind it have had their effect, and what the backend does not touch is as it was (`Installing`, `Restoring`, `Clearing`, `Removing`, `Apart`); `RecordKept`: while every failed step was undone and every record written, schedule.json tells of the machine, or of the one that the invocation found; `Shaped`: the crontab is the user's lines, cut at one place at most by the block (`TableIs`: what the CLI then finds in it and strips from it), so that `BlockKnown` tells whether the block is there. Both, and `ReadWhole` (a rewriting rests on the whole table), are of tables that fit into one piece. `Ends` carries what was said of the last invocation until the next one |

The types are theorems of their own (`TypeCorrect`, `RegistryTypeCorrect`,
`RollupTypeCorrect`, `WindowsTypeCorrect`, `CacheTypeCorrect`,
`TokensTypeCorrect`) or parts of the inductive invariant. The assumptions
`Serial`, `InOrder` and no deletion are what the code needs and does not always
have; the section above says where. `Patient` is a relation of constants that
the code's satisfy. Besides the ranges of the constants, the
modules assume that "nothing" is no value: `NoValueAssumption` and
`IdAssumption` say so for the rows and times of a heartbeat and for the tags
(an absent row is not a row), and that tags and ports are finite sets.

The proof modules named after a plane, and the one about workstations, have
one section for each component of it.

Only model-checked: `QueueDrains`, since liveness is beyond the prover. Every
other property of a passing run is proved. What a fold or a recursive function computes for every input is
induction over data and stays with TLC; where a single least counterexample is
enough (the pages of events, the first interface of a host) the proof takes it
from `WFMin`.

## Assumptions and limits

- KV is taken as linearizable except where a module says otherwise
  (AgentHeartbeats lets it show an older value); Cloudflare promises less, so
  staleness bounds hold on top of KV's own propagation delay.
- A D1 write that an evicted coordinator had already sent and that arrives late
  is modelled for token changes (`LateBatchArrives`), not for the mutations of
  the Connect API.
- The clock of a probe does not step; a step back by less than the skew limit
  could put two samples into one second.
- Payload validation (but for workstation reports), cryptography (PKCE, HMAC,
  hashing, sealing), display data and the numbers inside a sample are
  abstracted away.
- Bounds on clocks, samples, requests and keys are named constants; the theorems
  hold for every value of them.

Not modelled: the arithmetic of the hourly aggregation (floating point without
state), the web UI (presentation), the OpenAPI contract and its texts (constant
data), the reading routes that only format rows (time series, tier 2, live,
workstation history), the collectors of the probe and of the CLI as far as they
read the system, the probe's echo of the public address, build and test tooling.

## Plan

Done: the core of the Worker (alerts, token revocation, configuration changes,
enrollment, rate windows, rollup) with proofs; then host registry, heartbeats,
webhooks, Connect tokens, inventory, entry control, the views, the CLI with its
probe, schedule, service, doctor and update, the Rust probe, the release
script, the local environments and the recordings, all model-checked; then
proofs about all of them.

Next: more abstract specifications like the one of HostAlerts, first of what the
queue of configuration changes promises its clients, with the detailed modules
shown to implement them.
