# Verification of the Dune dedicated server manager

TLA+ models of this repository's programs, the TLC configurations that check
them and TLAPS proofs. Paths are relative to the repository root; `service/`
stands for `crates/dune-server-service/src/`, `core/` for
`crates/dune-manager-core/src/`, `desktop/` for `app/src-tauri/src/`.

## The system

Three programs share the work.

* **The management daemon** (`crates/dune-server-service`) runs next to the game
  server. It has a scheduler with four tasks, an HTTP API, one SQLite file, and
  it reaches the game through `kubectl`, Postgres and RabbitMQ.
* **The core library** (`crates/dune-manager-core`) does everything that is done
  to a server from outside: SSH sessions and tunnels, setup of guests, Hyper-V
  and Kubernetes, vendor flows.
* **The desktop** (`app/`) is a Tauri program: Rust commands in `desktop/`, a
  React web view in `app/src`. It uses the core library for SSH and reaches the
  daemon's API through a tunnel.

### Components

| Component | State it keeps | Operations | Talks to | What is hard |
| --- | --- | --- | --- | --- |
| Scheduler and runner, `service/scheduler` | set of running task ids, `task_runs` rows, loops | loop fire, manual trigger, shutdown, orphan sweep | store, every task | overlap of loops and triggers, errors between guard and release, crash |
| SQLite store, `service/store` | runs, logs, welcome ledgers, configuration, history | one statement each, under one mutex; migration at start | all of the daemon | partial sequences, crash between statements |
| Welcome package, `service/tasks/welcome_package.rs` | `welcome_grants` | scan, gate, committed insert, record; retry by the operator | Postgres, store | effect and record are in two databases |
| Welcome message, same file | `welcome_grant_actions` | scan, gate, whisper, published, confirmed | broker, Postgres, store | the whisper cannot be taken back or asked about |
| Restart and restart notice, `service/tasks`, `service/scheduler` | next fire times | daily fire, announcement, restart, wait for readiness | battlegroup CLI, broker | daylight saving, wall clock, lead time |
| Configuration API, `service/http/api_runs.rs` | `task_config`, the environment taken at start | get, set field by field | store | rejected halfway, two writers, applied only at restart |
| Admin API and item catalog, `service/http/api_admin.rs`, `service/admin` | active catalog, history | preview, apply, revert, grant, publish, whisper | Postgres, broker | check then write, players coming online |
| Cluster cache, Postgres client, broker publisher | cached discovery, pool, publish lock | get, expire, publish | `kubectl` | late results over newer ones |
| SSH forwarder, `core/orchestration/russh_tunnel` | session behind a mutex, accept loop | start, accept, get, reconnect, stop, drop | SSH server | many connections over one dead session |
| Tunnel commands, `desktop/commands/tunnel.rs`, `desktop/state.rs` | registry of forwarders | start, stop, status, stop all | forwarder, web view | two starts of one id, panic under the mutex |
| SSH command runner, `core/orchestration/russh_runner` | cached session | run, run script, deadline, one retry | SSH server | a command that ran and is run again |
| Management service installer, `desktop/commands/management_service.rs` | files and units on the server | upload, stop, swap, start | SSH runner | no rollback |
| Battlegroup lifecycle, `core/orchestration/battlegroup_management` | none | start, stop, poll until ready | SSH runner | stale readiness, deadline |
| Battlegroup objects, instances, swap, `core/orchestration/{battlegroup_kubernetes,instance_management,experimental_swap}` | none: patches computed from a copy that was read | resize, name, region, PvP, memory profile, swap file | SSH runner, `kubectl patch` | stale copies, positions in a patch, scripts sent twice |
| Setup of guests and of Hyper-V, `core/orchestration/{guest_bootstrap*,ubuntu_ssh_setup,hyperv_*}` | none: what the scripts left on the guest | import, configure, start, bootstrap, create world | SSH runner, PowerShell | failure halfway, begun again, nothing rolled back |
| Vendor flows, `core/orchestration/vendor_*` | none | menus as data, prompts answered | the vendor's program | the program is not in the repository |
| Status pages, web view, command line, tools | display state | queries, parsing | the above | none that a model tells apart, apart from request races in hooks |

`PROJECT.json` lists every component with its files and says for each whether
it is modelled.

### What makes each component correct

* Runner: one body per task at a time; every row that says running has an
  owner; what was recorded is final; shutdown ends.
* Welcome tasks: an effect per player, repeated only after a fault; a record
  never claims an effect that did not happen; nobody is forgotten.
* Forwarder and tunnels: one SSH session at a time; nothing left open; every
  forwarder can be stopped; every answer names a live tunnel.
* Restart: every restart that the schedule makes is announced for its very
  instant, happens once per date, and leaves a stopped battlegroup stopped.
* Configuration: a saved setting is applied by the next start or reported.
* Catalog: what is active passed the validation and the shrink guard that was
  shown for it; a revert restores the bundled one.
* Caches: an answer is never older than its time to live allows.
* Battlegroup operations: whatever overlaps, is abandoned or sent twice, the
  resource stays whole; what is answered as done, undisturbed, is there; a patch
  changes nothing it was not meant for.
* Setup: what is answered as done is complete, whatever an earlier attempt left;
  nothing an earlier attempt left makes a later one fail; the passwords of a world
  open its database.
* Installer: a command nothing disturbed has done what its answer says.
* Admin API: an effect in the game is whole, recorded, and a record of success is
  an effect.

## Modules

| Module | Models | Run |
| --- | --- | --- |
| `SingleFlight` | abstract: one owner in flight per key | refinement in `task_runner` |
| `TaskRunner` | scheduler, runner, runs table, process life | `task_runner`, `task_runner_skip` |
| `EffectLedger` | abstract: an outside effect and the ledger kept beside it | refinement in `welcome_package`, `welcome_message` |
| `WelcomeScan` | what the scans of the two welcome tasks have in common | with the next two |
| `WelcomePackage` | the package scan, its ledger, retry | `welcome_package` |
| `WelcomeMessage` | the whisper scan and its action rows | `welcome_message` |
| `SessionProvider` | one SSH forwarder and its session | `session_provider` |
| `TunnelRegistry` | the desktop's tunnel commands | `tunnel_registry` |
| `DailyClock` | times of day on a calendar with a change of the clocks | with `DailyRestart` |
| `DailyRestart`, `MCDailyRestart` | the daily restart, its notice, their loops | `daily_restart` |
| `BattlegroupDoc` | the BattleGroup resource and the patches computed from a copy | with `BattlegroupOps` |
| `BattlegroupOps`, `MCBattlegroupOps` | operations on a battlegroup over the SSH runner | `battlegroup_ops` |
| `GuestScripts` | the setup scripts, effect by effect | with `HostSetup` |
| `HostSetup`, `MCHostSetup` | setup of a Hyper-V machine, of its guest, of a Ubuntu host | `host_setup`, `host_setup_download` |
| `ItemCatalog` | validity, comparison and shrink guard of item catalogs | with `DaemonApi` |
| `DaemonConfig` | the settings: defaults, loading, saving, the restart flag | with `DaemonApi` |
| `AdminCommands` | the fifteen commands, their fields and payloads | with `DaemonApi` |
| `DaemonApi` | the daemon's process and the requests that change something | composed by `ManagementService` |
| `ManagementService`, `MCManagementService` | the desktop's installer, the host's init system, and `DaemonApi` | `management_service` |
| `ClusterAccess` | detection of the cluster, the cache, the database clients | `cluster_access` |
| `HostSetupInvariant` | the inductive invariants of `HostSetup`, definitions alone | |
| `*Proofs` | the theorems about the module of that name; `WelcomeProofs` about both welcome tasks, `ConnectionProofs` about `SessionProvider`, `TunnelRegistry` and `ClusterAccess`, `DaemonApiProofs` about `ManagementService` with all that it extends | |

Composition: `ManagementService` extends `DaemonApi`, which extends
`DaemonConfig`, `ItemCatalog` and `AdminCommands`; its next-state relation
interleaves the steps of the installer, the init system and the API, which
share the process (`phase`) and the settings it runs with (`env`). `HostSetup`
extends `GuestScripts`, the two welcome tasks extend `WelcomeScan`, `BattlegroupOps`
extends `BattlegroupDoc`, `DailyRestart` extends `DailyClock`. `ConnectionProofs`
extends three modules that share nothing but their subject, which is why two of them
name their `Spec` and its parts after themselves.

A definition whose comment says that it is the mutant, or a bug, is not part of
any next-state relation: it is the wrong version of the definition below it,
kept to show that the property named with it in `PROJECT.json` is able to fail.

### TaskRunner

A *caller* is a scheduler loop or a slot in which a triggered run executes.
`pc` follows `TaskRunner::run` from one store call or await to the next, so that
other calls, an error of the store (`StoreError`), a panic of the body
(`BodyPanics`), SIGTERM and a crash can come in between. `running` is the
in-memory guard; `runs` is the table, with a status per row; `Start` includes
the orphan sweep of `Store::open`. The body itself is one step with one of its
three results.

`SkipMeansStillRunning` is what the code's skip message says. It is violated:
a store error after the guard's insertion returns through `?` and the guard
stays, so all later runs of that task are recorded as overlapping.

### WelcomeScan, WelcomePackage and WelcomeMessage

`WelcomeScan` has the position of a scan in its list of accounts, and the ways a
scan starts, stops and dies; the two tasks are two programs on these variables,
each with a specification of its own (`Spec`, `MessageSpec`). Both follow a scan through its queries, one step per query, commit, log line or
row. Steps can fail; a commit or a publish can take effect and its answer be
lost (`AckLost`, `AnswerLost`); the process can restart at any step. `faults` counts these and
appears in the properties: without a fault an effect happens once, and each
repetition takes a fault of its own. A store error before the body (the finding
above) stops the scans until a restart: the place `wedged`. Scans of one task do
not overlap, which `TaskRunner!SingleInstance` shows. Both refine
`EffectLedger`; in the package task a failed row may be reopened by the
operator, in the message task no row is ever marked failed.

`RetryNeverDuplicates` is what the comment on `delete_welcome_grant` says. It is
violated: an error after the committed insert is recorded as a failure.

### SessionProvider

`Request`, `Acquire`, `Reuse` or `Reconnect`, then `ConnectOk`, `ConnectFails`
or `GiveUp`, are `SessionProvider::get`; the start of the forwarder calls it
too, and `stop` waits for the same mutex (`Closer`). The mutex serves in order.
Sessions are numbered, `alive` are those whose connection is up and `current`
is the one behind the mutex. `OthersOwn` counts the references to the provider:
its last owner drops the session.

A failed attempt is the unit of time, `Deadline` of them make
`RECONNECT_DEADLINE`. `GetWithinDeadline` is what the comment on `get` says and
is violated: the wait for the mutex is not counted.

### TunnelRegistry

A command is a call in flight. `existing_running_tunnel`, the insert, stop and
`stop_all` are one step each, since they hold the registry's mutex throughout;
the SSH connection and the probe of the management service are between them,
without the mutex. `fwd` is the forwarder a start has made and not registered.
`StopAllPanics` is the async command: it blocks on the SSH runtime inside the
desktop's own runtime, which panics; the unwinding drops what was drained and
poisons the mutex. Closing the window runs the same function on the main thread,
where it works. `RegistryStaysAvailable` shows it (`TunnelRegistryPanic.cfg`).

### DailyClock and DailyRestart

`DailyClock` is `timezone.rs`. An instant is a number; a calendar has one change
of the local clocks, forward or back. `LocalResult` has one instant, two or
none, `BuildTarget` takes the latest and `NextDailyAt` the first date, out of
fourteen, whose target lies after now.

`DailyRestart` has two loops. `Start` and the end of a body (`Rearm`) compute the
next fire on the wall clock (`due`) and from it the time to sleep up to on the
monotonic clock (`wake`); `skew` is the distance of the two clocks and `ClockSet`
changes it. `pc` follows a body through its awaits:

* the notice: options, target, publish (`NoticeRejected`, `Target`, `Publish`,
  `PublishFails`);
* the restart: lookups, the check of `spec.stop` in scheduled runs, the vendor's
  script with its stop and its start, the wait (`Discover`, `LeaveStopped` or
  `Proceed`, `VendorStop`, `VendorStart`, `Ready` or `WaitTimesOut`), a failure
  anywhere (`RestartFails`).

A unit of time is longer than a run, except for the wait for the servers, which
is up to `WaitLimit` units. Operators trigger runs and stop and start the
battlegroup at any step. What the code does not keep but the properties need is
recorded beside it: `said` are the announcements still ahead, `wish` is what
operators last wanted, `raced` whether their stop came behind the check,
`served` the date of the last scheduled restart and `repeats` how often it was
served again, `trouble` when an announcement last failed. `NoticesFor(x)` are the
fires of the notice that come while the restart at `x` is the next one; a restart
need be announced only if it has one, which `DailyRestartLead.cfg` shows is not always
so: its notice time may be skipped on the day the clocks go forward. That is the
divergence `LeadTimeHonored`. A setting of the wall clock is excluded from
`RestartsAreAnnounced`, and `OncePerDate` allows one repetition for each. A calendar
whose clocks go back past midnight, so that a date comes twice, is not among those
of the runs: there `RestartsAreAnnounced` fails (`DailyRestartDates.cfg`), since
`next_daily_at` begins its search at the local date of now.

### BattlegroupDoc and BattlegroupOps

The members of the resource that are replaced as a whole (`doc`) are a function
of fields; a patch of them is a function of some of the fields. Launch arguments
(`pods`) are sequences, and a patch of them names positions, as JSON patches do.
`Resized`, `NextId`, `SetValue`, `MemoryProfile`, `NameEdits` and `RegionEdits`
are the functions of the code of the same purpose, with its arithmetic; the
stable sort by dimension and id is given by each partition's rank
(`ByDimension`).

An operation is a list of steps (`todo`). `Read` takes the copy and computes the
patch, `Send` starts the process on the guest, `Execute` performs its effects one
by one, `Answered` goes on. The faults are those of `russh_runner`: a step fails
(`StepFails`); the deadline passes and the process is left behind (`TimesOut`,
then `OrphanExecutes` or `OrphanEnds`); the connection ends without an exit
status, which counts as 0 (`ConnectionLost`); the end of a script's text could not
be sent, and the script is sent again whole while its first copy may have begun
(`ScriptResent`). `undisturbed` and `unfinished` say whether an operation that
changes the same ran beside it and whether a script of its was cut: the premises
under which an answer of success promises something. The vendor's wrapper, its
operator and the API server are external: `Wrapper` and `Reconcile` are what the
code relies on.

### GuestScripts and HostSetup

The guest is a function from what a script can leave there to its version or
password. A script is a sequence of effects, some of them conditional (`Unless`)
or computed when they are reached (`Branch`), in the order of its text; it ends
with its first effect that fails. `HostSetup` runs the steps of an operation:
import and settings of a virtual machine (one PowerShell command is one step),
the bootstrap of a guest, the phases for Ubuntu. The faults are those above, with
a power cut, and a new release of the payload between two operations. The
orchestrators are a library: no command of the desktop calls them, so the
operations are begun in any order a caller could choose.

`PayloadIsCurrent` is what the doc comment of the download step says. It is
violated: when five downloads have failed, the script leaves a loop whose `if`
takes the exit status, which is then 0; the setup goes on with what an earlier
one downloaded.

The passwords. Each run of `create_world` makes new ones, and a database keeps those
of its first start; the `sync` step carries the new ones over, if it finds the pod
running. If it does not, the script prints "No running database pod found ...;
skipping Postgres credential sync." and ends with 0: after a world's script was
sent twice, or was cut behind its manifest, and the machine was switched off and on,
the setup is answered as done and the database starts with the old password. That
takes three faults, more than the run allows, and was found by the proof. The script says what it left out, so
`CredentialsAgree` is about the operations that did not say so (`Skips`, the field
`skipped`), and about the world the operation was asked for.

### DaemonConfig, ItemCatalog, AdminCommands, DaemonApi

The settings are the table `task_config` (`conf`) and what the running process
has loaded (`env`). `SavesField` saves or refuses one field, in the order of
`set_config`. `ComparesCatalog` and `StoresCatalog` are the two halves of
`apply_catalog`. A request follows its handler through its awaits: `Checks`,
`ResolvesPlayer` or `ResolvesChat`, `PlansGrant`, `Publishes` (the publish lock),
`Writes`, `Records`. Presence and existence of a player are not state: each lookup
may answer either way. `Drops` is a client that gave up: axum drops the handler
at an await. Handlers of settings and catalogs have no await and cannot be
dropped, but their store calls interleave. `Killed` and `Crashes` end all of them;
a write in flight may have taken effect. A row of the history and the answer are
one step. Gradeable items, the only ones granted this way, do not stack.

`env` and `conf` hold what the two functions `Load` (`run`) and
`RestartRequired` (`get_config`) look at: they are separate pieces of code about
the same table, and `QuietMeansCurrent` says that they agree. A list under the
legacy key that does not parse keeps the flag on, which is allowed by it. Numbers
are stored as a `u64` and read through `get_config_i64`, by both functions: one over
`MaxI64` is accepted, stored and counts as no row (`Read`). With 300 stored and in
use, a save of 2^63 leaves the flag off, though a restart would load 600.
`QuietMeansCurrent` leaves out the settings of which such a number is stored
(`TooLarge`); `FlagShowsEverySetting` does not, and is violated
(`ManagementServiceFlag.cfg`). The table starts empty or with rows of an
earlier daemon (`Earlier`).

The query for free slots takes no lock. A plan carries the grants whose items it saw
(`after`), and two plans of which neither saw the other may name the same slots:
`GrantsAreWhole` allows that of grants that overlapped, and of no others. Whether two
rows may share a slot is decided by the schema of the game's database, which is not
in the repository; the model lets both inserts succeed.

`CommandsAreComplete` leaves out a broadcast that was asked for with a type that
is none of the two options: the code sends it as a generic one, without the title
and body it demands of those.

### ManagementService

`Begins` and the steps are the scripts of `management_service.rs` in the order
they are run, for systemd and OpenRC. `Enables` is `systemctl enable --now`, which
does nothing to a service that runs; `Restarts` and `Stops` wait for the daemon,
whose graceful end waits for its handlers. `StepFails` ends the command,
`StepIgnored` is a connection that ended without a status, or a stop whose failure
the script ignores. `QuietCommandsTakeEffect` is about commands that no other
command, fault or saved setting disturbed. The lookup of a tunnel's port and the
connection are one step, and a request that finds no daemon changes nothing.

### ClusterAccess

`Hit`, `Miss`, `DetectNamespace`, `DetectBroker`, `DetectDatabase` are `get_with`
and the kubectl commands of the detection; the mutex of the cache is released
before them, so several callers detect at once and each stores what it found.
`Client` to `Connect` are the shared client and the dedicated one of a
transaction, with the credentials of the namespace and the endpoint, where the
host port comes before the service. A kubectl command answers what is so when it
ends; each world's database has passwords of its own, which is why a connection to
the wrong database is refused. `Change` is what administrators do. `since` counts,
for the properties, how long ago a namespace was the only one with a broker.

The shared client is returned whatever namespace is asked for: a lookup may be
answered by the old database while it runs, and the transaction that follows is
made in the new one. `Recovers` is what the code keeps: this ends once one world
is left.

## Runs

| Run | Checks | Bounds |
| --- | --- | --- |
| `task_runner` | one body per task, final history, refinement of `SingleFlight`, shutdown ends, calls return | 2 tasks, one of them looping; 2 triggered runs at a time; 2 rows; 1 fault per life; 2 lives |
| `task_runner_skip` | violation: `SkipMeansStillRunning` | one fault suffices |
| `welcome_package` | deliveries, refinement of `EffectLedger`, nobody forgotten | 2 accounts, 3 faults, 2 retries |
| `welcome_message` | whispers, refinement, everyone greeted | 2 accounts, 3 faults |
| `session_provider` | one session, nothing left open, live sessions handed out, get and stop return | 3 connections, 3 sessions, deadline of 2 attempts |
| `tunnel_registry` | no orphans, true answers, every command answered | 2 ids, one of the management service; 2 commands in flight; 3 forwarders |
| `daily_restart` | announced for its instant, once per date, stopped stays stopped, not left stopped | day of 4 units, 2.5 dates, 2 calendars, 4 settings, 2 events |
| `battlegroup_ops` | the world whole, done is done, other arguments kept | 2 clients, 2 operations, 1 fault; 3 maps |
| `host_setup` | done is complete, credentials agree, a rerun succeeds | 2 operations, 1 fault, 1 world, a new release |
| `host_setup_download` | violation: `PayloadIsCurrent` | the same |
| `management_service` | the restart flag, catalogs, grants, history, commands, install and restart | 2 desktops of 2 versions, 2 commands or requests, 1 fault |
| `cluster_access` | age of answers, transactions in their world, recovery | 2 callers, 2 worlds, time to live 2, limit 1, 2 changes, 1 fault |

Why the bounds are enough. The runner's guard is per task and its rows are per
run: two callers of one task, a third of another and an overlapping run are the
cases in which the guard could be confused; a second life is needed for the
sweep; the safety properties are proved for any number of rows. Accounts never
interact except through the scan's position and its early end, so two suffice,
and three faults allow a failure, a lost answer and a restart of the same
account. Three connections give one that reconnects, one that waits before the
closer and one behind it; three sessions allow a death, a reconnect and a
reconnect after the close. Two commands in flight give the race of two starts of
one id, of a start and a stop, and of a start and a panic; a slot is used again
once it has answered, so that longer sequences occur. A day of four units is the
shortest on which a time of day, its lead, the skipped or repeated hour and
midnight are distinct; the change of the clocks is on the second date, so that a
date before and one after it are seen; the settings have a lead over midnight,
one of exactly a day, one of more, and no restarts; two events give a failure
and a restart of the daemon, or two racing operators.

Two battlegroup operations give every pair that overlaps or that one of leaves a
process behind for the other; each is a single read and a few effects, so a third
meets nothing that the second would not. The instance has maps with and without a
second partition, pods with and without arguments, and requests that are refused.
Two setups are an interrupted one and the one begun again, the case that matters;
one fault at any of its steps interrupts it. Two desktops with one command or
request each, interleaved step by step, with one lost step, answer, client or
process, are the pairs that QuietCommandsTakeEffect and the handlers could
confuse; that the API's properties hold for more is proved. `MaxI64` is 1800, the
largest default, so that a frequency of 1801 stands for a number that is too large.
Four slots take a grant of four, or two of two that overlap or come one after the
other. A time to live of 2 and a limit of 1 tell apart an
answer from the cache, an answer just detected and one detected slowly and stored
late; two changes replace a world by another.

`management_service` declares its two desktops symmetric; it has no liveness
property. No other run uses symmetry. The proofs do not depend on any of these
bounds: `MaxRuns`, `MaxFaults` and the like are arbitrary there.

Deadlock is not checked where the system may really stop: the daemon is down
for good after its last life, the connections are finished, the window is
closed, the operations considered are done, the time considered is over.

### Further configurations

These are beside the runs of `PROJECT.json`. Each finds a behaviour that a
comment of the code, or a property of the model, does not expect.

| Configuration | Property | What it shows |
| --- | --- | --- |
| `WelcomePackageRetry.cfg` (`WelcomePackage`) | `RetryNeverDuplicates` | an error after the committed insert is recorded as a failure, and a retry delivers again, against the comment on `delete_welcome_grant` |
| `SessionProviderWait.cfg` (`SessionProvider`) | `GetWithinDeadline` | the wait for the mutex is not counted in the deadline of `get` |
| `TunnelRegistryPanic.cfg` (`TunnelRegistry`) | `RegistryStaysAvailable` | `stop_all` as an async command blocks on a runtime inside a runtime, panics, and poisons the registry's mutex |
| `DailyRestartLead.cfg` (`MCDailyRestart`) | `LeadTimeHonored` | a notice whose time is skipped on the day the clocks go forward is not sent |
| `DailyRestartDates.cfg` (`MCDailyRestart`) | `RestartsAreAnnounced` | where the clocks go back past midnight, a daemon that starts before the change looks only from the later date on: the notice that comes when the earlier date does again is passed over, and the restart is not announced |
| `ManagementServiceFlag.cfg` (`MCManagementService`) | `FlagShowsEverySetting` | a number that is too large to be read back is saved over another one: the flag that a restart is required stays off, though the restart goes back to the default (`service/http/api_runs.rs`, lines 111 and 246) |
| `BattlegroupOpsEnded.cfg` (`MCBattlegroupOps`) | `DoneMeansEnded` | a connection that ends without an exit status is a success, though the command goes on |

## Fairness

* `TaskRunner`: weak fairness of each call's next step, of a cancelled loop's
  exit and of the end of a stopping process. The async runtime polls a woken
  task; every wait inside a body has a timeout. Nothing is assumed of triggers,
  faults, SIGTERM or crashes.
* `WelcomePackage`, `WelcomeMessage`: weak fairness of the scan. The interval
  loop starts it again after 2 and 60 seconds and every query, commit and
  publish returns, fails or times out. Not assumed: that a step succeeds while
  faults are left.
* `SessionProvider`: weak fairness of each caller's `get` and of the forwarder's
  own steps; nothing about clients leaving or about sessions dying. An attempt
  to connect ends because the connection has a timeout.
* `TunnelRegistry`: weak fairness of each command's next step: blocking threads
  are scheduled and the SSH connection and the probe have timeouts.
* `ClusterAccess`: weak fairness of each caller's steps, of time and of the end of
  a connection whose database is gone. Callers are the scans, which come back at
  every interval; a kubectl command has a time limit, and the connection's task
  is polled by the runtime. Nothing is assumed of administrators, nor that a
  command succeeds while faults are left.
* `DailyRestart`, `BattlegroupOps`, `HostSetup`, `ManagementService`: none; their
  properties are about safety. That a sleeper is woken in time is a guard of
  `Tick`.

## Proofs

Each proof module extends its component and shows, for every value of the
constants that satisfies the module's assumption, an inductive invariant by one
step per action, and from it the theorems.

* `TaskRunnerProofs`: `RunnerInv` adds to the properties that a call past the
  guard has its task in `running` and is the only such call (`GuardExclusive`),
  and that a call's row is its own, says running and has the call's trigger
  (`RowsExclusive`). Without the first, the release by one call could open the
  guard for another; without the second, a result could be written over another
  run's. The refinement of `SingleFlight` follows from the first.
* `WelcomeProofs`, about both tasks: an effect made and not yet recorded belongs to
  the scan's current account (`Unrecorded`, `Unmarked`); counting it apart gives `faults + 1` for settled accounts and `faults` for open ones, which
  is inductive where the bound alone is not. The refinement of `EffectLedger` is
  proved step by step.
* `ConnectionProofs`, about `SessionProvider`: `ProviderInv` says that holding and connecting are
  exactly the places of the mutex's holder and that no session is kept while one
  reconnects; with it a new session is the only one (`OneSession`).
* `ConnectionProofs`, about `TunnelRegistry`: `RegistryInv` gives each forwarder one place, so that
  stopping what is registered under an id never takes another's, and a fresh
  forwarder is nobody's; `NoOrphans` and the action property about answers
  follow.
* `ConnectionProofs`, about `ClusterAccess`: `AccessInv` bounds how long ago what a caller has found
  was so, by the time its commands took (`FoundInTime`), and the same for what is
  cached, by its age (`CachedInTime`). The age of an entry alone is not enough: a
  slow caller stores late what it found early, and a hit is answered from it; with
  both, an answer is younger than `TTL + 2 * Limit`, which is `AnswersAreFresh`.
  `TransactionsStayInTheirWorld` follows from the step that connects.
* `DailyRestartProofs`: the next fire lies strictly after now (`NextIsLater`) and is
  the target of its own local date (`NextIsATarget`): fourteen dates always hold a
  target ahead, so that the fallback of `next_daily_at`, 24 hours from now, is never
  taken. The first such date exists because a bounded set of integers that is not
  empty has a least element (`LeastElement`).
  `RestartInv` says of a restart past its check that a wish to stop either
  overtook it or preceded a run asked for by hand; with it a battlegroup that
  was stopped stays stopped, and is not left stopped without a cause.
  `OncePerDate` counts repetitions against settings of the clock, and is not
  inductive: a clock that was set back repeats nothing until the loop fires again.
  `OnceInv`: repetitions, plus one if the loop's next restart is on the date last
  served, plus one if it is about to wake before its instant (`Early`), are at most
  the settings of the clock; and while the target of the served date is ahead, which
  takes a clock set back past it, at least one setting is still unspent. A new due
  instant is on the served date only if that date's target was still ahead, so that
  no step but a setting raises the sum.
  `RestartsAreAnnounced` rests on `NextStays`: the next fire stays the same instant
  until it comes. That is true only if local dates do not decrease (`DatesGrow`), and
  the theorem has `DatesGoOn` as its hypothesis: clocks that go back do not go back
  to an earlier date. Clocks that go back within a date, or at midnight, meet it, and TLC
  evaluates it for the calendars of the runs; zones that changed just after
  midnight, as St. John's did until 2011, do not. The invariant, `AnnouncedInv`, holds
  while the clock was not set. `Punctual`: a loop that sleeps has not slept past its
  instant, a loop's body runs at the very instant its loop woke for, and the notice's
  target is the next restart from there. `Announced`: of the instants from the
  daemon's start up to the next notice, each at which a notice was due, and which no
  later failure excuses, has announced the restart that follows it, while that is
  ahead. When the notice's loop goes on, no notice lies between now and its next fire
  (`NoneAhead`); when the restart takes place, now is its instant, and its notices lie
  before now and so before the next one.
* `DaemonApiProofs`: about the specification of `ManagementService`, that is with
  installs, restarts, crashes and any number of desktops. `ConfigInv` says that a
  daemon that runs shares with the table whatever has no row (`Follows`) and that
  what is stored is well formed (`StoredWell`): without the first, a setting
  without a row, or with one that cannot be read, could differ from its default and
  the flag not show it; without the
  second, a saved zone could be passed over by the next start. `CatalogInv` says
  that what waits to be stored is valid and contains what it was compared with,
  unless confirmed. `HistoryInv` says that what took effect is recorded, about to
  be, or excused. `GrantInv` says that a request whose write is ahead has left
  nothing in the backpack, that the slots of its plan are as many as it asked for and
  are apart from those of the grants that it saw (`Planned`), that items of grants
  that did not overlap are apart (`Apart`), that two requests have different ids, and that a request about to be recorded
  as done has taken effect: without the plan's count the cardinality in
  `GrantsAreWhole` is not inductive, without the slots a plan made after a grant could
  land on it, without the ids one insert could complete another's. `TypeCorrect` adds the types (`ApiTyped`, `HostTyped`, `OpsTyped`) and
  takes from the invariants above what they need: that a stored catalog was valid
  when it was compared, and that rows and items name requests that were made.
  `QuietInv` follows a command of the installer that nothing has disturbed through
  its steps: `Progress` says of each step what the host and the daemon already have
  of the command's purpose (the files written, the service stopped, the new process
  started with them), and the last step makes `QuietCommandsTakeEffect` of it.
  `CommandInv` says that a request to publish that is past its checks was not
  refused and publishes what `Payload` makes of it; that such a payload is complete
  is a fact about the fifteen specifications and the conversions (`Complete`), of
  which `CommandsAreComplete` is the part that concerns the game.
* `BattlegroupOpsProofs`: that the world is whole is not inductive, since a patch may
  be applied long after its copy was read. `OpsInv` says of every patch, computed,
  sent or abandoned, that it has all three members of Survival's world or none
  (`SoundPatch`), that its list is in order with distinct ids that no other map has
  *now*, and that other maps only ever lose partitions (`WorldInv`), so that what was
  free stays free (`FewerIds`). A patch has all three members or none because a list
  in order of the size asked for is left as it is, and one of another size changes
  the list, the count and the ids (`SurvivalCounted`). The lemmas about ranks,
  cuts and largest elements are proved for lists of any length. The rest are scripts:
  whatever the client does about a lost or late one, what runs on the guest is the
  remainder of a script that was sound as a whole (`RestSound`).

* `GuestScriptsProofs`: an effect needs some items, writes some and leaves some
  (`Needs`, `Writes`, `Makes`); what is executed in the place of a `Branch` or an
  `Unless` writes no more and leaves no less (`BranchSubstitutes`, `ThenFits`). A
  script is ready if whatever an effect needs is there or is made before it;
  `ScriptStep` shows that this survives each effect, with whatever the effect is
  replaced by. `Sound` asks for the order that holds even if two scripts run beside
  each other and either was cut (a world after its namespace and its secrets, a
  binding after its role), `Ready("all", ...)` for everything, so that no effect
  fails (`NothingFails`). `GoodScript` says of the script of every step that it is
  sound, ready given `Wants`, makes what the step promises, and writes of the items
  that carry versions only its own.
* `HostSetupProofs`: `Basic` holds of every behaviour: the types, that the guest is
  sound and that the scripts that run on it keep it so (`GuestInv`), and that what is left to do
  is the end of the operation's steps (`ClientInv`). Nothing about what is *there*
  could be inductive with another script running beside, so the rest is about an
  operation that is `Alone`. `Orderly`: what the steps that are past promised is
  still there, and the script that runs will make what it promises
  (`PromisesKept`); it writes only what its step may (`WritesItsOwn`), without which
  a later step could undo an earlier one; what was brought to the payload's version
  has it (`VersionsMatch`); the passwords agree or are about to
  (`Synced`). From it follow `DoneIsComplete` and `CredentialsAgree`.
  `Easy`, for an operation that no fault befell either: its script is ready and
  what it creates is not there yet (`Fresh`), and the guest can be reached when it is
  needed. That the operation has not failed is its first part, so `RerunSucceeds`
  follows at once; the work is in the others, for a guest on which any number
  of scripts was cut before.

`OnceInv`, `AnnouncedInv`, `QuietInv`, `CommandInv`, `OpsInv` and the parts of `OrderlyInv` and
`SmoothInv` were each checked by TLC on the component's run before they were proved (of `HostSetup`
without `Typed`, whose set of values TLC cannot compare: add `GuestInv` and
`ClientInv`, or a definition of the implications, to `HostSetup.cfg`).

Assumptions used: those named in the modules (`RunnerAssumption`,
`ScanAssumption`, `RetriesAssumption`, `ProviderAssumption`,
`RegistryAssumption`, `ClockAssumption`, `RestartAssumption`, `AccessAssumption`,
`WorldAssumption` and `RequestAssumption` of `BattlegroupOps`,
`SetupBounds`, `RequestsAssumption` and `AbsentAssumption` of `HostSetup`,
`ConfigAssumption`, `EarlierAssumption`, `RequestAssumption`, `CatalogAssumption`, `SlotsAssumption`,
`ApiBounds`): distinct names, natural bounds, settings whose time lies within the
day, clocks that are changed by a day at most and never to a date before the first (of
`RestartsAreAnnounced` alone, `DatesGoOn` beside them),
a bundled catalog that is valid, a backpack of finitely many slots, an empty
list of actions that parses, and requests whose fields are present, where a value
that is a number, a truth value or a text that is not empty has a text that is not
empty, and a whisper is none of the fifteen commands; of `HostSetup`, that a request
is one of the kinds that the code knows, with the fields of its kind and the
phases of a Ubuntu host in their order. TLC evaluates each on the runs.

`WorldAssumption` describes the resource before the first operation: whole, with a
partition for each of the two maps (the code refuses to resize without one), and
Survival's listed by dimension and id, as the manager itself writes them. The order
is needed: of a list in another order, an operation that asks for the size there is
computes a patch that reorders it and leaves the replicas out; a resize that runs
between its read and its patch changes the replicas, which then count partitions that
are gone. TLC finds this within nine states when the list of `MCDoc` is turned around and a
request for two instances is added.

Only model-checked, since the prover does not reach them: the liveness properties
under fairness (and anything about ENABLED), and `DoneIsDone` and
`OtherArgumentsKept`: both are about a fold over a sequence of edits (`AllPatched`),
of which nothing can be shown for every length without induction over data.

No module has a recursive operator.

## Hazards no property covers

`PROJECT.json` lists them with the reason. Two are outside the repository: the first
poll of the vendor's wait may read the phases from before the restart, and a player
may log in between the check and the write of a grant. Of four the nearby property
excuses the very case, since the code has no answer to it: a stop that comes behind
the restart's check (`StopIsRespected` has `raced`), a script that fails between its
stop and its start (`NotLeftStopped` has `faults`), a patch whose positions are those
of a stale copy (`OtherArgumentsKept` has `undisturbed`), and an update of the catalog
that removes what another one added after the comparison (`UnconfirmedKeepsWhatItSaw`
is about what was compared). That no row is written for a player who still loads is
proved and not run (`LoadingLeftOpen`). The notes of other hazards say which part of
them a property's premise leaves out. Smaller ones were met while modelling and are
not in the list:

* The scan of whispers asks its gate for the player's id of `encrypted_accounts`
  and marks the one of `accounts` that the chat lookup answered
  (`service/postgres/queries.rs`): nothing in the code makes them agree; the model
  has one id per player.
* A stop, or `stop_all`, of a tunnel whose start is under way finds nothing to
  stop; a local port that was looked up may be reused by another process before the
  request connects to it.
* A publish that answers without `publish=ok` is logged, and the run of the notice
  recorded as done.
* The swap script of a Ubuntu host, cut between the file and its format, finds the
  file at the next run and does not format it; `swapon` fails, which it ignores.
  The answer says that the swap is not active.
* The same for a role and its binding in the operators' rights.
* `operator_versions_differ` reads the version of the operator that runs through
  `kubectl_retry`, which prints what it is answered to standard error
  (`core/orchestration/guest_bootstrap_ssh/scripts.rs`, lines 141 and 192). What is
  compared is empty, so the definitions are replaced and the images loaded by every
  bootstrap. Were the version read, one whose script of the definitions was lost, but
  that patched the operators, would leave the old ones to later bootstraps: that is
  the mutant of `DoneIsComplete`.

## Plan

Done are: `TaskRunner`, the welcome tasks, `SessionProvider` and
`TunnelRegistry`, `DailyRestart`, `BattlegroupOps`, `HostSetup`,
`ManagementService` with the daemon's API, and `ClusterAccess`, each with its
runs, and the proofs above. Left, in this order:

1. The wait of the vendor's wrapper, poll by poll, with phases from before.
2. The migration of the daemon's database, with crashes between its statements.
3. The hooks of the web view that race requests of status.

## Not modelled

Text: command lines, YAML, JSON, SQL, redaction, display. Reading single values
from Kubernetes or the database, and everything that is only displayed: status
pages, dashboards, logs, the listing of players. The vendor's update of a
battlegroup, the restart of a single component, and the vendor's menus and
prompts: what they change is on the side of a program that is not in the
repository. The database migration (see the plan). The web view's own state. Dry
runs of tasks, since no caller asks for one. Sums of times near the end of 64
bits. `ClusterCache::refresh`, which has no caller. Tokio, SQLite, Postgres,
RabbitMQ, systemd, OpenRC, PowerShell and Kubernetes are environments: they appear
as the steps they may take.
