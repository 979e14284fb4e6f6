# UptimePulse: a verification project

TLA+ models of UptimePulse (a self-hosted uptime monitor in Rust: one process,
one SQLite file, tokio tasks, an axum admin API, a public status page), checked
with TLC on small instances, with proofs checked by TLAPS. Paths below are
relative to the repository; `engine.rs` is `src/engine.rs`.

## 1. The system: inventory

The process is one tokio runtime. Everything durable is in SQLite behind **one**
`tokio::sync::Mutex` around one connection (`database.rs`); each operation takes
and releases it, so operations interleave at every `await`, but what happens
under one acquisition is atomic with respect to other tasks. It is *not* atomic
with respect to failure: apart from `restore_json` and `reorder` nothing uses a
transaction.

| Component | Code | State | Operations | Talks to | Hard part |
|---|---|---|---|---|---|
| Scheduler loop | `engine.rs` 64-139 | in-memory tracker: monitor -> last instant | a round per second: read table, decide what is due, spawn | monitors table, probe pipeline | stale snapshot, loss at restart, stagger and fast-retry edges |
| Probe pipeline | `engine.rs` 144-180, `models/heartbeat.rs` 108-157 | `status`, `consecutive_fails`, raw heartbeats | probe, record, process incident, notify, broadcast | prober, incidents, Telegram, event channel | overlapping tasks of one monitor, failing statements, dropped futures |
| Prober | `prober.rs` | none | HTTP, JSON assertion, TCP, ping | network, `ping` binary | silence at any point, odd timeouts, vacuous assertions |
| Incidents | `models/incident.rs` | `incidents` (open = `resolved_at` null) | open on "down", resolve on "up" | Telegram | at most one open; each change announced once |
| Monitors and admin API | `models/monitor.rs`, `controllers/monitor_controller.rs` | `monitors` | store, update, destroy, pause, check, reset, reorder | spawns probes | run beside probes in flight; cascade deletes |
| Retention | `database.rs` 186-274, `models/heartbeat.rs` 244-349 | `heartbeats`, `heartbeat_daily` | roll-up, prune (worker every 6 h, manual), daily timeline | all history readers | partial prunes, edge of the raw window |
| Telegram and its settings | `models/setting.rs`, `controllers/setting_controller.rs` | `settings` | load, save, sync zone, send (no retry), test | Telegram API, alert log, backup | settings torn or read in part, messages lost, late, reordered |
| Alert log | `alert_log.rs` | two files | log, rotate, tail | file system | no lock around rotation, writing or reading; errors ignored |
| Login, sessions | `middlewares/rate_limit.rs`, `models/user.rs`, `controllers/auth_controller.rs` | failure counts, `users`, `sessions` | login, logout, change password | - | check and record are separate awaits |
| Backup | `controllers/backup_controller.rs` | - | export, download, restore, prune | all tables, the file | two locks, a read without a lock, a checkpoint that may fail |
| Schema | `database.rs` 25-185 | columns of `monitors` | create, migrate | SQLite | groups of ALTERs, errors ignored |
| Event stream | `main.rs`, `controllers/public_controller.rs` | broadcast channel of 100 | subscribe, send | status page | lagging receivers |
| Public summary, status page | `models/heartbeat.rs` 390-470, `public/js/public.js` | what the page shows | summary, throttled refetch, reconnect | tables, event stream | two reads of what two writes change, overlapping probes and answers |
| Configuration | `config.rs` | - | flags, environment, defaults | - | flag and environment disagree |
| Version check | `controllers/setting_controller.rs` | a cache | fetch the latest release | GitHub | not modelled |
| Statistics, admin console, routes | `models/heartbeat.rs`, `public/`, `routes/` | - | read-only or stateless | - | not modelled |

What must hold, per component:

* pipeline and incidents: never two open incidents on one monitor, none on a
  deleted one; every opening and closing announced by exactly one task; no
  incident below the retry threshold; counter, status and incidents agree, and
  a counter never claims more failures in a row than there were;
  an outage is eventually an open incident, a recovery eventually closes it;
* scheduler: nobody forgotten, nobody probed too early, first probes spread out;
* prober: up exactly when the target earned it, and an end to every probe;
* retention: no day lost by failed or missed prunes, recent days exact, storage
  bounded, the long timeline complete;
* login: the limiter limits although it is asked and told separately (its bound
  is weaker than the policy the documents state, section 3), a block is earned,
  served and ends, a session ends by time or logout only;
* Telegram and log: at most one message per alert; at most one log entry, a true
  one, and none missing without a fault; settings used together belong together;
  rotation keeps the end of the log;
* backup: restoring an export brings the configuration back, an export is one
  moment, a download whose checkpoint succeeded is a committed state;
* schema: whatever release made the file, all columns are there at the end;
* status page: an answer does not contradict itself, the page catches up.

## 2. Modules

| Module | Models | Kind |
|---|---|---|
| `ProbePipeline` | tasks through the stages of `run_probe_and_record_cfg`, admin operations, scheduler snapshot, faults, cancellations, restarts | detailed specification |
| `IncidentLedger` | what the pipeline promises of incidents and notices | abstract specification, refined by `ProbePipeline` |
| `Scheduler` | due times: tracker, stagger, fast retry | specification with discrete time |
| `Prober` | one probe against a target that does as it likes; JSON paths and operators | specification, with a reference definition of the assertion |
| `Retention` | heartbeats -> daily aggregates -> timeline | specification with discrete time |
| `AdminAccess` | logins in flight, limiter, accounts and sessions | specification with discrete time |
| `AlertDelivery` | from a changed incident to Telegram and the log | specification, with a lossy network, file operations that fail, drops and restarts |
| `ConfigStore` | monitors and settings as a backup sees them: edits, export, restore | specification |
| `DatabaseFile` | path, migrations, commits, checkpoints, download | specification |
| `LivePage` | pipeline's writes, event channel, summary, browser page | composition of both ends of the event stream |
| `DeliveryPromise` | what sending and logging promise of every alert | abstract specification, refined by `AlertDelivery` |
| `*Proofs` | theorems about the module of that name; `StorageProofs` is about `ConfigStore` and `DatabaseFile` | TLAPS |
| `MC*` | instances for TLC (symmetry, documents, files, settings); `MCStorage` holds `ConfigStore` and `DatabaseFile`, of which a behaviour explores one | |

The modules share no variables: each takes from its neighbours only what it
needs, as an action of its own. The target's answer is `health` in
`ProbePipeline` and `LivePage`, and what makes it so is `Prober`; a probe's result
is any change of the counter in `Scheduler`; a notice handed out by
`ProbePipeline` is a task of `AlertDelivery`; a prune is whole in `Retention`, and
its step on sessions is in `AdminAccess`, its checkpoint in `DatabaseFile`; a
restored backup is whole in `ConfigStore`, and its Telegram and zone keys are a
writer in `AlertDelivery`.

Definitions named `X_Something` stand before the definition `X` they vary. They
are the plausible mistakes of section 5 and are used by no specification.

### ProbePipeline

State and code: `mon` is the `monitors` table (presence, `status`,
`consecutive_fails`, `max_retries`, `is_active`); `openOn` the unresolved rows of `incidents`;
`telegramOn` the setting; `task` the tokio tasks with the local variables they
carry across awaits; `due` what is left of the scheduler's snapshot of one
round. History variables: `downAlert` (what became of an open incident's DOWN
alert) and `streak` (failed probes in a row since a success was stored or an
operator cleared the row: pause, resume, reset, delete or restore).
`budget` holds the bounds, `health` is the target itself. The rows of `heartbeats`
are not kept here, since nothing in the pipeline reads them and prune deletes
them by age (`database.rs` 236): they are `Retention`'s.

One action per lock acquisition or network wait:

| Action | Code |
|---|---|
| `Probe`, `Record`, `Broadcast` | `run_probe_and_record_cfg`, `Heartbeat::record` |
| `OpenIncident`, `ResolveIncident`, `ProcessNothing` | the locked block of `Incident::process_probe` |
| `NotifyOff`, `NotifyOn`, `Send` | `notify_down`/`notify_recovery`: load settings, then one request |
| `Store`, `Update`, `Destroy`, `TogglePause`, `Reset`, `Check`, `Restore`, `SaveTelegram` | the admin handlers |
| `SchedTick`, `SchedSpawn` | a round of the scheduler: snapshot, then spawn one by one |
| `Cancel` | the client of a manual check disconnects: its future is dropped |
| `Restart` | the process ends and starts on the same file |

Failing statements: `Record` may fail to read (the code then goes on with
`(3, 0)`), at the UPDATE or at the INSERT; `OpenIncident`/`ResolveIncident` may
fail to read the monitor's name, which loses the alert; `Reset` may stop after
the heartbeats or after the incidents. A kill between two statements of one
lock acquisition leaves the same database as the corresponding failing
statement followed by `Restart`.

`IncidentLedger` knows only `openOn` and the set of notices handed out and not
settled. `ProbePipeline` implements it under `notices <- Notices` (the alerts its
tasks carry): this states in one formula that whatever the stages, tasks, faults
and restarts do, incidents open only where none is open and each opening or
closing hands out at most one notice, once.

### Scheduler

Seconds, with instants kept as ages that saturate at `Cap` (they are only
compared with intervals below it). `Round(d)` is a whole round, `d` seconds after
the previous one: the loop sleeps one second, waits for the lock, and skips a
round when the read fails, hence `d \in 1..MaxLag`. Probe results appear only as
changes of `consecutive_fails`. Rowids are numbers, since the stagger is computed
from them. `NewIntervals` are the intervals `create` stores (it does not clamp),
`Intervals` those of `update` and `restore`, which do.

History variables: `since` and `wait` for `Spaced` and `Timely`; `calm` (nothing but
one-second rounds and results since the start) for `StartupSpread`, which is a
claim about an undisturbed start (of `Steady` monitors, see section 6); `early` (monitors whose last spawn was the first
one, with a stagger of 0) for the one exception of `Spaced`.

### Prober

`cfg` is what `probe_with_config` is given; `phase` is where the future waits
(request, body, connect, ping); `clock` counts seconds against `Deadline`
(`prober.rs` 46: at least one second; ping gets four more than its own `-W`);
`heard` is a history variable, what the target did. `Dispatch` is the match on the
type, `Respond`, `Body`, `Connect`, `PingExit` and `Break` are what the target or
the network may do, `TimeOut` is reqwest's or tokio's timer, and reqwest's runs
until the body is read.

A JSON document is a function from addresses to nodes. `Lookup` walks it as
`json_path_lookup_all` does, segment by segment over a set of candidates, and
`Matches` is `JsonOperator::matches`. `Selected` says what a path selects without a
walk: an address is selected if it can be cut into one piece per segment, each of
which `Fits` its segment. `UpIsEarned` is stated with `Selected`, so it compares the
two on every document and path of the instance; `LookupSelects` proves them equal.
The comparison itself (`Matches`) is on both sides, so a wrong operator would not
be noticed. A structure is `Rendered` as its compact JSON text (constant `Compact`):
it may equal the expected text, it contains what its parts contain, and it is no
number. Lower-casing, number parsing and `contains` on texts are constants.

### Retention

Time is cut into slots of one worker period; `SlotsPerDay` slots make a calendar
day, and one heartbeat per slot stands for those of the slot. One monitor stands
for all (every query is keyed by monitor). `Prune(k)` runs the first `k` of the
statements roll-up, delete raw, delete aggregates, each committing by itself;
`k < 3` is a failing prune. Expired sessions, checkpoint and VACUUM do not touch
history and are left out. `Timeline` is `get_daily_buckets`, including the rule
that raw rows override the aggregate. `truth` is a history variable.

### AdminAccess

`limiter` is `LoginRateLimiter`'s map, `password` and `session` the tables behind
`models/user.rs`, `request` the login handlers between their awaits. A login is
`Check` (limiter lock), `Authenticate` (database lock), then `RecordFail`, or
`RecordSuccess` and `CreateSession`; `Abandon` is a failing statement or a dropped
client. The clean-up of the map above 1024 entries is part of `RecordFail`, as in
`rate_limit.rs`. `Logout` and `PruneSessions` are one lock each. A change of the
password is two: `Admit` (the session is validated, `middlewares/auth.rs` 57) and
`ChangePassword`, with the request in `changing` between them, during which the
session may end.
`Start` creates the account if there is none, `Stop` empties the limiter and
drops the requests. Ages saturate beyond the window, so time goes on for ever
in a finite model. `recent`, a history variable, holds for every `k` the
failures of a watched address within the last `k` ticks, since its last success.

### AlertDelivery

One task per alert: `Load` (settings, lock), `LoadZone` (snapshot, lock), `Send`,
`Answer`, then `alert_log::log` with one action per file operation: `Stat`,
`Remove`, `Rename`, `Open`, `Write`, `WriteEnd`. `Test` is the endpoint that sends
with the settings of the request. `wire` and `inbox` are the network: `Arrive` in any
order, also after the sender gave up, or `Lose`.

* Settings. `SaveTelegram` and `SyncTimezone` write the first `k` keys of a save; less
  than all is a failing statement. `Restore` is `restore_json`, which writes whatever
  keys the backup holds (`Restored`). `Load` and `LoadZone` take the set of keys whose
  own reading fails: `get_val(..).unwrap_or(None)` makes them missing values.
* The log. `writeln!` on an unbuffered file is several writes, here two, the text
  and its end, each a `Piece`; a file is a sequence of them. A piece goes to the file
  that was opened, wherever it was moved meanwhile (`Follow`). `FileFails`: a size
  that cannot be read skips the rotation, a failed removal or renaming is passed
  over, and a failed opening or writing leaves out the rest of the entry.
* Other ends of a task. `Send` may fail to build its client, which logs nothing;
  `Drop` is a dropped request, `Restart` the end of the process. `Abandon` puts such a
  task at stage "lost": its entry may be missing or cut.
* Reading. `TailOld` and `TailActive` are the two reads of `tail`, with no lock;
  `Shown` is what the second of them returns.

History variables: `torn` (groups of settings written in part), `written` (every
piece), `crowded` (two tasks in the log at once), `reader.moved` (the log was moved
between the two reads), and a task's `whole` (what it loaded is not torn, and every
key could be read).

`DeliveryPromise` is the same without settings, stages, timeouts and files: the
`fate` of an alert is waiting, trying, a verdict, begun, or through, and at any
moment any set of alerts may be given up (`Stop`). It promises no entry; it
promises that an alert is handed over at most once, called OK only after it has
arrived, and logged at most once, as its verdict says and text before end. `Fate`
maps a task to it: up to `Send` it waits, while it flies it tries, from `Stat` to
`Write` it has its level, then it has begun, and done or lost it is through.

### ConfigStore

Tables `monitors` (name, interval, order per id) and `settings`. `ExportMonitors`
and `ExportSettings` are the two locks of `export_json`, anything may run in
between. `Restore` is `restore_json` in both modes, one transaction: its error path
changes nothing and has no action. `Create` takes `MAX(sort_order) + 1`, `Reorder`
places 0, 1, ... `All` is the order shown. `past` and `drift` are history variables:
the contents of both tables since the export began, and which of them changed.

### DatabaseFile

`at` is `init_db`'s place in the migration: `SkipGroup` when the first column of a
group is there, else one `AddColumn` per ALTER, whose error is ignored. `live` and
`main` are the committed version and the main file's version of every page:
`Commit` changes `live` (the log), `Checkpoint` and `CopyPage` copy pages to `main`
under the lock; `CheckpointFails` gives up with any number of pages copied, and both
callers drop the result. `Download` checkpoints under the lock, `OpenFile` and
`ReadPage` read the main file without it, whether the checkpoint went through or not. `ServerPath` and `DownloadPath` are the two ways the code
finds the file. History variables: `clean`, `hurt`, and in the download `since`,
`torn` (a checkpoint wrote during the read) and `stale` (its own failed, or a later
one left the file half copied before the read). Its specification and type invariant are `FileSpec` and `FileTypeOK`, so that
one module of proofs can extend it together with `ConfigStore`.

### LivePage

Both ends of the event stream: `Record`, `Process`, `Broadcast` are the pipeline's
three steps; `unread` counts the events in the channel (the page does not look at
an event), and `Broadcast` drops the oldest beyond `Capacity`. `ReadMonitors` and
`ReadIncidents` are the two locks of `get_public_summary`. The page: `Receive` sets
`publicRefetchTimer`, `TimerFires` asks for the summary, `Arrive` shows it,
`Disconnect` and `Reconnect` are `onerror` and its timer. Edits send no event.

`task[m][l]` is a probe of monitor `m` in lane `l`: `Spawned` lanes are tokio tasks
(the scheduler, a probe after an update), `Checks` lanes are manual checks, which run
in their request. Probes of one monitor overlap, as `engine.rs` 133 and
`monitor_controller.rs` 125 and 184 allow. `Record` may fail to read, at the UPDATE
or at the INSERT (the probe goes on with a result of its own), `Process` may fail,
`ResetHalf` stops between the statements of a reset, `Drop` ends a manual check
anywhere and `Restart` ends every probe, request and connection.

History variables: a request's `moved` is the monitors touched between its two
reads; `marred` the monitors whose status and incident may be at odds for longer
than that: set by each of the events just named and by two overlapping probes
with different results, cleared by the next probe that is recorded completely and
with no such overlap.

## 3. Runs

All but the last two expect no error.

| Run | Instance | Shows |
|---|---|---|
| `pipeline_overlap` | 1 monitor, 2 tasks, 3 operations, 2 flips of the target, 1 fault, 1 cancellation, 1 restart | `TypeOK`, `AtMostOneOpen`, `AlertOwnership`, `CounterBacked`, `OpenedAboveThreshold`, refinement of `IncidentLedger` (`LedgerImplemented`) |
| `pipeline_serial` | 2 monitors, 1 task at a time, no faults | `SettledAgreement` |
| `pipeline_live` | 1 monitor, 2 tasks, 2 operations, 1 flip, 1 fault, fairness | `OutageDetected`, `RecoveryDetected` |
| `sched_rounds` | monitors 1 and 6, intervals 6, 17 and from `create` also 3 and -1, lag up to 2, 1 operation, 1 restart, fairness | `TypeOK`, `Timely`, `Spaced`, `StartupSpread`, `ProbedForever` |
| `retention_window` | 2 slots a day, raw window 1 day, retention 2, timeline 3, 8 slots, 1 failed prune, 1 downtime, 1 manual prune or reset | `TypeOK`, `NoDayLost`, `TimelineHonest`, `StorageBounded` |
| `access` | 2 addresses, 2 logins at once, 2 tokens, 2 passwords; 2 failures in 2 ticks block for 2; map limit 1, sessions of 1 tick; fairness | `TypeOK`, `FailuresBounded`, `BlockEarned`, `BlockServed`, `LockoutEnds`, `SessionKept` |
| `delivery` | 2 alerts or tests, 2 set-ups (one without a token), 2 zones, backups with every key or with two of them, a log rotated above 1 write, 3 events (alerts, tests, saves, restores, reads of the log, faults) | `TypeOK`, `LogTruthful`, `SettingsBelongTogether`, `TailComplete`, refinement of `DeliveryPromise` (`DeliveryImplemented`) |
| `storage` | `ConfigStore`: 4 rowids, 4 edits, 1 key, 3 hand-made files; `DatabaseFile`: files of every earlier release over groups of 2, 1 and 3 columns, 2 pages, 3 commits, 2 faults, 2 paths | `TypeOK`, `RoundTrip`, `ExportIsSnapshot`; `SchemaComplete`, `CopyConsistent` |
| `page` | 1 monitor, a spawned probe and a manual check at once, channel of 1, 2 requests at once; at most 1 edit, 1 flip and 2 faults, 2 of these in all; fairness | `TypeOK`, `SummaryAgrees`, `PageCatchesUp` |
| `prober` | every type with timeouts -1, 0, 2; every path of up to two segments with 6 assertions over every document of depth two | `TypeOK`, `UpIsEarned`, `ProbeEnds` |
| `retention_complete` | as `retention_window`, 6 slots, no faults; expects a violation | `TimelineComplete` |
| `access_policy` | 1 address, 1 login at a time; 3 failures in 2 ticks block for 2; expects a violation | `PolicyHolds` |

`retention_complete` checks a sentence of the repository: the 90-day timeline stays
complete (`database.rs` 90, `docs/HANDOVER.md` 143). The code shows the day cut by
the raw window's edge, and later aggregates it again, from the rows left of it.

`access_policy` checks the policy as the repository states it: "5x login gagal dalam
5 menit -> IP diblokir 5 menit" (`middlewares/rate_limit.rs` 6), "5 failed attempts /
5 mins" (`README.md` 42). The counting window opens with the first failure and does
not slide (`rate_limit.rs` 53-61), so failures late in one window and early in the
next are never counted together. TLC's counterexample needs no second request, no
restart and no fault. `FailuresBounded` of the run `access` is what the code does
guarantee: it is not the policy but the least bound that holds, and one less is
violated.

### Bounds and why they are enough

* One monitor in `pipeline_overlap`: no statement of the pipeline reads another
  monitor's rows. `pipeline_serial` has two, so that one is deleted or restored
  beside a probe of the other, and the theorems hold for any number.
* Two tasks are enough for every pair of stages to interleave, and a third adds
  no new kind of pair: the invariants relate two tasks at most. `SettledAgreement`
  with one task is the claim for probes that do not overlap; with two it is
  false (section 6).
* `MaxRetries = 2` has all three verdicts; `FailCap` saturates the counter, which
  is only compared with `max_retries`. A fallback threshold of 3 that cannot be
  reached still differs from 2 in the way that matters (0 failures are below it).
* Incident identities are reused after they are closed *and* no task still
  carries their alert, so the number is a bound on what is open or announced at
  once, not on history. In `pipeline_overlap` two suffice for one open and one
  being announced.
* Three operations allow create, pause and resume or create, delete and restore
  between the stages of a probe.
* In `Scheduler` ages above every interval plus the lag are equivalent; intervals
  6 and 17 lie on both sides of the 15 s of the fast retry; monitor 6 with
  interval 6 has stagger 0, monitor 1 has not.
* In `Retention` a day must be cut in two (2 slots) and all three windows must
  end inside the horizon: 4 days against a raw window of 1, a retention of 2 and
  a timeline of 3. `CHECK_DEADLOCK FALSE` there, since time ends at the horizon.
* In `AdminAccess` two failures, a window and a block of two ticks are the least
  for which a count is neither always 1 nor always over, and a moment lies
  strictly inside and exactly at each end. With a map limit of 1 every second
  address triggers the clean-up. Two logins at once are the least that pass the
  check together. Nothing else is bounded: time and requests go on for ever.
* In `AlertDelivery` two tasks cover each pair of file operations, and a log that
  rotates above one write is at its limit all the time; the files may be there
  from an earlier run, beyond the limit included. Three events are two alerts and
  one of everything else beside them: a partial save or restore, a key that
  cannot be read, a failing file operation, a read of the log, a restart; or one
  alert and two of those. Alerts end (`CHECK_DEADLOCK FALSE`).
* `storage` runs two modules that share no variable; `MCStorage` lets a behaviour
  explore one of them, so no states are multiplied.
* In `ConfigStore` four rowids are two monitors, deleted and created or restored
  again; four edits are an edit before, two during and one after an export.
* In `DatabaseFile` groups of 1, 2 and 3 columns have a first, a middle and a last
  column; two pages are the least that can be torn; three commits the least of
  which one lies before, during and after a read; two faults are a failing
  checkpoint or ALTER and a crash around it.
* In `LivePage` a channel of one loses an event as soon as two are sent; the page
  does not look at events, so 100 behave like 1 that is reached later. Two
  requests may overtake each other; the throttle makes a third need two answers
  that are slower than its delay. Two probes are the least that overlap, one in a task
  of its own and one that can be dropped; a contradiction needs at most two
  events (an edit or a change of the target, and a fault). Summary and incident
  rows are per monitor.
  `CHECK_DEADLOCK FALSE`: with its only monitor paused, everything rests.
* In `Prober` documents of depth two hold a wildcard in a wildcard, items that
  lack a key, an empty array and a scalar where a structure is expected.
  `CHECK_DEADLOCK FALSE`: a probe ends.

Symmetry over monitors, tasks and incidents is used in the safety runs of the
pipeline only.

### Fairness

* `pipeline_live`: weak fairness of each task's own steps (tokio polls a ready
  task; each wait has a timeout: the probe's, Telegram's 10 s, SQLite's 5 s), weak
  fairness of spawning what is in a snapshot (the loop does not skip), and strong
  fairness of an active monitor being put in a snapshot: the loop is often busy
  with another monitor in between, but the interval keeps elapsing. The last is
  what `sched_rounds` (`ProbedForever`) shows for the scheduler from weak fairness
  of its rounds alone, for intervals that are not negative. Operators, faults,
  cancellations, restarts and the target owe nothing.
* `access`: clocks go on (`WF_vars(Tick)`); nobody has to log in or out.
* `page`: the scheduler picks an active monitor again and again and the probe runs
  to its end, a stream hands over what it has, the browser's timers fire, and a
  request that does not fail is answered. Faults, dropped checks, restarts, edits
  and flips owe nothing.
* `prober`: seconds pass and timers fire; the target owes nothing, it may be
  silent at any point.

## 4. Proofs

Checked from the named assumptions on the constants alone (`ConstantsAssumption`,
`SchedulerAssumption`, ... next to the constants they are about), for every value
of the constants. Where a theorem needs more, it is a hypothesis of the theorem.
A module with an assumption is extended by an instance of section 3, so TLC
evaluates the assumptions on it.

Every safety property of the passing runs is a theorem. Each proof has the same
form: an invariant that the initial states satisfy and every step keeps, with one
lemma or step per action (or kind of action), and the property read off it.

| Module | Theorem | States | Inductive invariant |
|---|---|---|---|
| `ProbePipelineProofs` | `TypeCorrect` | `TypeOK` | `Typed` |
| | `SingleOpenIncident`, `AlertsOwned` | `AtMostOneOpen`, `AlertOwnership` | `AlertInv` |
| | `ImplementsLedger` | `LedgerImplemented` | `AlertInv` |
| | `CountersBacked` | `CounterBacked` | `CounterInv` |
| | `IncidentsAreEarned` | `OpenedAboveThreshold` | `ThresholdInv` |
| | `SerialAgreement` | `SettledAgreement` | `SettledInv` |
| `SchedulerProofs` | `TypeCorrect` | `TypeOK` | itself |
| | `NobodyForgotten`, `IntervalKept` | `Timely`, `Spaced` | `TrackerInv` |
| | `FirstProbesSpread` | `StartupSpread` | `SpreadInv` |
| `RetentionProofs` | `TypeCorrect` | `TypeOK` | itself |
| | `NoDayIsLost`, `TimelineIsHonest`, `StorageIsBounded` | `NoDayLost`, `TimelineHonest`, `StorageBounded` | `HistoryInv` |
| `AdminAccessProofs` | `TypeCorrect` | `TypeOK` | itself |
| | `BlocksAreEarned` | `BlockEarned` | `EarnedInv` |
| | `BlocksAreServed`, `SessionsAreKept` | `BlockServed`, `SessionKept` | `TypeOK` |
| | `LimiterLimits` | `FailuresBounded` | `LimitInv` |
| `AlertDeliveryProofs` | `TypeCorrect` | `TypeOK` | itself |
| | `SettingsStayTogether` | `SettingsBelongTogether` | `TogetherInv` |
| | `LogIsTruthful` | `LogTruthful` | `TruthInv` |
| | `TailIsComplete` | `TailComplete` | `TailInv` |
| | `ImplementsPromise` | `DeliveryImplemented` | `TypeOK` |
| `StorageProofs` (`ConfigStore`) | `TypeCorrect` | `TypeOK` | itself |
| | `ExportsAreSnapshots` | `ExportIsSnapshot` | `TypeOK`, `Drifted` |
| | `BackupsRoundTrip` | `RoundTrip` | `OrderInv` |
| `StorageProofs` (`DatabaseFile`) | `FileTypeCorrect` | `FileTypeOK` | `SchemaTyped`, `CopyTyped` |
| | `DownloadIsConsistent` | `CopyConsistent` | `CopyInv` |
| | `SchemaIsComplete` | `SchemaComplete` | `MigrationInv` |
| `LivePageProofs` | `PageTyped` | `TypeOK` | itself |
| | `AnswersAgree` | `SummaryAgrees` | `Inv` |
| `ProberProofs` | `LookupSelects` | `Lookup(doc, path) = Selected(doc, path)` | induction over the segments |
| | `TypeCorrect`, `UpsAreEarned` | `TypeOK`, `UpIsEarned` | `ProbeInv` |

Why the properties are not inductive by themselves, and what is added:

* **Pipeline, alerts.** `TypeOK` needs `TaskShape`: `Record` needs a running task to
  have a monitor, `Send` a task with an alert to have an incident. `AlertInv` adds
  `OpenHistory` (only an open incident has an alert history): without it a task that
  settles the alert of a closed incident could leave an "owed" mark no task backs.
  The argument goes by kinds of steps, one lemma each: steps that touch neither
  incidents nor alerts (`QuietStep`), that delete a set of monitors' incidents
  (`PurgeStep`), that end tasks (`DropStep`), that open, resolve and settle.
* **Pipeline, refinement.** The same kinds of steps are what `ImplementsLedger` maps
  to the ledger: quiet steps and operators that delete nothing to a stutter,
  `OpenIncident` and `ResolveIncident` to the ledger's open and resolve with the notice
  of the task that made the step, a settled or dropped alert to a notice that is
  settled or lost, a deletion to a purge. `AlertInv` is what makes a fresh
  incident's notice new: no task carries one of the same identity.
* **Pipeline, counter.** `CounterInv` adds `Unborn` (a monitor not yet created has no
  failures to its name) and that faults are only spent: the counter equals the
  failures in a row as long as no statement has failed, and never exceeds them,
  because a failing read makes it start low and a failing write leaves it behind.
* **Pipeline, threshold.** `ThresholdInv` carries the threshold from
  `Record` to `process_probe` through everything that may happen in between: a task
  that is to process "down" had counted enough, or its monitor has been deleted
  since, and ids are never used twice, so the deleted one stays deleted
  (`Exists`, also for what is left of a snapshot).
* **Pipeline, agreement.** `SettledInv` splits by whether a task is between `Record` and
  `process_probe`: if none is, status and incident agree; if one is, the status is
  what it recorded or what an operator has made of it. The theorem's hypotheses are
  about the execution, not the constants: never are two tasks at work on the same
  monitor (`NoOverlap`), and no fault, cancellation or restart has happened
  (`Undisturbed`). Any number of tasks may work on different monitors;
  `pipeline_serial`, with one task, is an instance. Without the hypotheses the claim
  is false (section 6).
* **Scheduler.** `TrackerInv` bounds the history by the tracker: who waits has waited
  less than the tracker's age and one lag, and the tracker's age is never more
  than the seconds since the last spawn, except after a first spawn with stagger
  0. `SpreadInv` says of a calm start that one number `k` of rounds explains the
  tracker's age of every monitor that has not been probed yet.
* **Retention.** `HistoryInv`: rows are true or gone; all of the raw window is there; an
  aggregate exists only for a day with checks, and claims no check, good or bad,
  that was not recorded (`NotMore`: a roll-up counts a part of the day and replaces
  what was there); a day within the retention has rows or an aggregate with a count
  (`DayKept`); after a whole prune nothing old is left. `DayKept` is what the order of
  the statements protects: a failing prune keeps it after any of them.
* **Limiter.** `EarnedInv` backs the counter of an entry by failures of the last
  `age` ticks. `LimitInv` is the real argument: an entry is counting, serving a
  block, or past one (`Counting`, `Serving`, `Served`), and in each case the failures
  the window still sees are bounded by the counter, the part of the block that
  has passed, and the logins that have passed `check` already. It needs a block as
  long as the window (`BlockFor = Window`, a hypothesis of `LimiterLimits`; both are
  300 s in `rate_limit.rs`): with a shorter block TLC finds an address that fails
  before and after it within one window.
* **Telegram settings.** `Stored`: a group of keys is torn, or holds what one save
  wrote (or nothing yet); a save or backup that writes a whole group mends it.
  `Whole`: what a task has loaded from a group that was not torn, with every key
  read, is one save's, and a label names the offset because either both come from
  one zone or the label is derived from the offset.
* **Log.** `TruthInv` follows an alert through its stages: `Sent` (not yet sent means no
  copy and nothing on the wire), `Told` (an OK to be written means a copy has
  arrived), `Logged` (how many texts and ends the log has of it at each stage,
  `Heads` and `Ends`; of a lost one, at most one of each and no end without its
  text). `TailInv`: unless two tasks have logged at once, the two files together are
  the end of what was written, and either long enough or all of it (`EndOf`), and so
  is what a reader has of the first file together with the second, unless the log
  was moved since (`Seen`). `Rotating` adds that a task that is about to rotate had
  measured a full file, and that one about to end its line has its text as the
  last write, which gives `Joined`.
* **Delivery, refinement.** Each step of a task is a step of one alert seen through
  `Fate` (`OneFate`): `Send` without a token and a refused `Test` refuse it, `Send` hands it
  over, `Answer` concludes, `Write` logs and `WriteEnd` finishes. `Load` of switched-off
  settings, a client that cannot be built, `Drop`, a failed opening or writing and
  `Restart` give up the alerts of their tasks (`Stop`). `Notify`, `LoadZone`, the saves,
  the restore, the reads of the log and the file operations before `Write`, failing or
  not, are stutters.
* **Backup.** `Monitor::all` is shown as a sequence that is defined by its order
  alone. `RankIsOnto` shows that the place of a row (one plus the number of rows
  before it) is a bijection to `1..n`, so there is exactly one such sequence
  (`ShownIs`, `AllIs`, `AllSorted`); with that, `ShownInOrder` says that rows whose order
  grows with their ids are shown by id, which is what a restored file looks
  like. `OrderInv` adds that an exported file is sorted. `Drifted` says of an export
  in progress which of its two parts is still the current one.
* **Download.** `CopyInv`: under the lock the pages still to be copied are the ones that
  differ; after a checkpoint that went through the main file is a version committed
  since the request, and it stays so until another one starts to write, which
  tears the copy, or gives up half-way, which makes it stale; what has been read so
  far is the main file's. Nothing is claimed of a download that is `torn` or `stale`.
* **Migration.** `MigrationInv`: outside the group being added, the first column of a
  group speaks for all of it, unless a fault has hurt that group.
* **Prober.** `LookupSelects` is what `UpsAreEarned` rests on: for every document and
  path the candidates after `n` segments are the addresses that the first `n` select
  (`SelectedBy`). One step of the walk extends each candidate by what its segment
  fits (`StepFits`), and a cut of the longer address into `n` pieces is one of the
  shorter address and one more piece (`NextSelection`). The induction on `n` is for a
  *set* of numbers (`Everywhere`, from the well-foundedness of "less than"), because
  the provers cannot instantiate the operator of `NatInduction`; `Lookup` is a
  recursive function on `0..Len(path)`, not a RECURSIVE operator. The temporal part is
  plain: `ProbeInv` adds that a probe that waits has no answer yet (`Waiting`).
* **Status page.** `TableAgrees` (status and incident agree unless the monitor is
  `marred` or a probe is between its two writes; probes between them agree on the
  result unless it is marred) and `AnswerFresh` (what a request has read still holds
  of every monitor nothing has touched since, and that monitor is neither marred nor
  between two writes): the second read sees the row the first saw.

To be reasoned about, three modules state assumptions that an instance could be
given silently: in `AlertDelivery` a zone's label, when the browser sends one,
names the offset sent with it (`public/js/admin.js` 1380 takes both from one zone
in one request); in `DatabaseFile` no column is named twice in the groups; in `Prober`
a document that has an address has everything above it, which any JSON value has.

`FileTypeOK` is proved and checked by no run. Only model-checked:

* liveness (`OutageDetected`, `RecoveryDetected`, `ProbedForever`, `LockoutEnds`,
  `PageCatchesUp`, `ProbeEnds`): fairness and ENABLED are beyond the prover;
* `TimelineComplete` and `PolicyHolds`, which are false.

## 5. What the properties are for

Each property has a mutant, an operator next to the one it replaces, that makes
a plausible mistake (no look for an open incident, a counter that a reset
forgets, raw rows deleted before they are counted, a block that the map's
clean-up forgets, a log that is deleted instead of moved, a timeout that covers
the headers only, ...) and that the run finds. `PROJECT.json` lists them, and the
hazards of the code with the properties that guard them.

Some properties hold on conditions the code does not ensure. They are part of the
property, and section 6 says what happens without them:

* `OpenedAboveThreshold`: no statement has failed so far. `CounterBacked`: the counter
  never exceeds the failures in a row, always; it equals them as long as no
  statement has failed.
* `SettledAgreement`: no statement has failed and no two probes of one monitor
  overlap (one task in its run).
* `FailuresBounded`: the bound is twice `MaxFails - 1` plus the requests under way,
  which is more than the documented policy (`PolicyHolds`, violated).
* `LogTruthful`: an entry may be missing, or lack its end, when the client could not
  be built, a file operation failed, or the task was dropped or died; there is
  never a second or a false one.
* `SettingsBelongTogether`: no save failed half-way and no backup held only some of
  the keys since the group was last written whole, and every key could be read.
* `TailComplete`: tasks log one after the other; a reader between its two reads is
  promised the last lines unless the log is moved in between.
* `ExportIsSnapshot`: the two tables did not both change during the export.
* `CopyConsistent`: the checkpoint of the download went through, no other one wrote
  or gave up before the read was over, and the file is the server's own.
* `SchemaComplete`: the groups that no fault has left half-way.
* `SummaryAgrees`: monitors nothing touched between the two reads, with no probe
  between its two writes at the first, and not marred: no overlap with a different
  result, failing statement, dropped check, restart between the writes or half
  reset since the last clean probe. `PageCatchesUp` has no such condition.

## 6. Observed facts

Met while modelling. Where a document, comment or test claims something else, its
line is quoted.

* Two overlapping probes of one monitor may record in one order and process in
  the other: status "up" with an open incident, or the reverse, until a later
  probe (`engine.rs` 163).
* A manual check dropped by its client after the incident's INSERT loses the DOWN
  alert for good (`monitor_controller.rs` 184, against `incident.rs` 96).
* A pipeline's counter may claim more failures than `heartbeats` holds: prune deletes
  rows older than seven days (`database.rs` 236) and leaves the counter alone, so in a
  long outage the two part. Nothing compares them.
* One failing statement in `record` makes a single failure "down", whatever
  `max_retries` is (`engine.rs` 159, against `monitor.rs` 14).
* A monitor whose stagger is 0 is spawned in the first round and again one second
  later (`engine.rs` 108, against the interval of `monitor.rs` 12).
* First probes after a restart are spread (the comment at `engine.rs` 106 wants not all
  in the same second) unless a monitor was being retried or has an interval below
  5 s: the instant the tracker is given assumes the interval of a healthy monitor
  of 5 s or more, so all of that kind are due in the second round. `StartupSpread` is
  about the others (`Steady`).
* With `--retention` shorter than the raw window, the roll-up writes again what the
  purge has just deleted, as long as raw rows of the day are left
  (`StorageBounded` allows for it).
* `create` does not clamp a negative interval; the cast makes it infinite, and the
  monitor is never probed (`engine.rs` 93). `ProbedForever` leaves it out.
* A monitor with an interval below 15 s is re-checked *later* while it retries
  (`engine.rs` 91 always takes 15).
* A second prune changes the aggregate of the day the raw window cuts, which is
  the other face of `retention_complete`.
* The limiter's window opens with the first failure and does not slide, so one
  address may fail twice `MaxFails - 1` times in one window's length, plus the
  requests under way, without a block: seven failures in five minutes.
  `rate_limit.rs` 6 ("5x login gagal dalam 5 menit -> IP diblokir 5 menit") and
  `README.md` 42 ("5 failed attempts / 5 mins") say five; `access_policy` shows it.
* A login that was authenticated before a block or a logout goes on: it lifts the
  block and creates its session. Sessions survive a change of the password.
* Two tasks that rotate the log at the same moment may remove the file just
  rotated (`alert_log.rs` 56), and the pieces of their lines may mix.
* The alert log is best-effort: a file that cannot be opened or written loses the
  entry or its end without a word (`alert_log.rs` 37, 47), a client that cannot be
  built returns an error that is not logged (`setting.rs` 224), and a dropped
  request takes its entry with it.
* `tail` reads the two files without a lock (`alert_log.rs` 77): a rotation in between
  hides a whole file of lines from that reader, although no two tasks log at once.
* A key that cannot be read counts as missing (`unwrap_or(None)`, `setting.rs` 70), and
  a backup writes whichever keys it holds (`backup_controller.rs` 240): both mix
  settings of different saves, or drop one, without a failing save.
* A fault between two ALTERs of a group leaves the later columns missing for good:
  the first one stands for the group (`database.rs` 113).
* The download asks the environment for the path, the server also `--db`: with the
  flag alone another file, or none, is read (`backup_controller.rs` 183). A
  checkpoint during the unlocked read tears the copy. The result of its own
  checkpoint is dropped (`backup_controller.rs` 188): when it fails, an old file is
  answered with 200, the kind of copy `docs/HANDOVER.md` 69 warns of.
* The summary contradicts itself, until the next clean probe, after overlapping
  probes with different results, a failing statement of `record` or `process_probe`,
  a manual check dropped or a process ended between the two, or half a reset.
* The page shows the answer that arrives last, asked first or not; it does not
  fetch when it reconnects; edits send no event. All of it heals with the next
  probe (`PageCatchesUp`), unless no active monitor is left.
* In a JSON path a wildcard requires all values found to match, items that lack
  the key are skipped, and an empty expected value asks only that something is
  there. `ping` is given four seconds beyond its timeout.

## 7. Not modelled

* Telegram texts, HTML escaping, latency averages and percentiles, layout, theme
  and language: data no property here tells apart.
* A wrong or stepped wall clock: time only moves forward. Prune and roll-up trust
  local time (`database.rs` 238), so this is a real hazard without a property.
* VACUUM: it changes no row.
* Version check: a cache filled by whoever finds it empty; its only effect is a
  hint in the console.
* Hourly statistics and monitor detail, `list_recent`, `db_stats`: read-only.
* Admin console, routes, security headers, static files, host and port parsing,
  default branding: stateless or presentation.
* Request headers, methods and bodies, ping's argument checks beyond "refused":
  they change what is asked of the target, not what is done with its answer.
* Binding the listener and the graceful drain at shutdown: a stop may come between
  any two steps of the models that survive one.

## 8. Plan

Done: the core, the shared services around it, both ends of the event stream, the
prober, and the proofs of every safety property, two refinements among them. Left,
most useful first:

1. An abstract specification of the export (one atomic read) implemented by
   `ConfigStore` where nothing drifts, in the manner of `DeliveryPromise`.
2. What a monitor's fate is across modules: `Timely` in terms of `ProbePipeline`'s
   snapshot.
