# Laqista in TLA+

Laqista runs AI applications on a cluster of servers with GPUs. A user deploys
an application (an archive with an ONNX model and a WebAssembly module) through
the cluster's scheduler; the scheduler picks a server and tells its daemon to
run the application; clients ask the scheduler which server to call.

This directory holds TLA+ modules of the parts that keep state and interact,
the TLC configurations that check them, and proofs for TLAPS. Paths such as
`scheduler.rs:279` are relative to `src/src/`.

## 1. The system

### Components

| Component | State | Operations | Talks to |
|---|---|---|---|
| `MeanScheduler` (`scheduler/mean.rs`, `stats.rs`, `utils.rs`) | none | `schedule`, `schedule_gpu`, `needs_scale_out` over a map of reported windows | called by the scheduler |
| `AuthoritativeScheduler` (`scheduler.rs`) | one `SchedulerRuntime` behind a tokio `Mutex`: `Cluster` (group, servers, instances, server_stats), deployments | `join`, `report`, `deploy`, `lookup`, and the task `lookup` spawns | daemons (`spawn`), its own node's database |
| `DeploymentDatabase` (`deployment/{database,fs,http}.rs`) | `apps` and `instances` in memory behind a tokio `Mutex`; files under `apps/<name>/` | `default` (read everything), `add_app`, `add_instance`, `get`, `lookup` | HTTP download; a channel to the runner |
| `ServerDaemon` (`server/server.rs`) | its runtime behind a tokio `Mutex`, the `DaemonState` it was created with | `spawn`, `get_info`, `ping`, `monitor`, `nominate`, `destroy` | the database; `get_info` of the scheduler's node its runtime |
| `ServerRunner` (`server/run.rs`) | `DaemonState` (Joining, Running, Authoritative, Failed); the state channel, capacity 1 | `run`, `run_start`, `start_service`, `join_cluster`, `start_running`, `start_authoritative`, `start_reporter`, `common_services` | scheduler, reporter, daemon, applications |
| `MetricsReporter` (`report.rs`) | the scheduler it reports to, the last cluster state | `new`, `start`, `stop`, `report` (with the election), `put_cluster` | scheduler, monitor, state channel |
| Monitors (`monitor/`) | a child process, the text it has printed, a channel for one window | read a sample, parse it, send the window | `radeontop`, `powermetrics`, the reporter |
| `laqista-core` wasm host (`wasm.rs`) | the guest memory's cursor | `write_bytes`, `call`, pointer arithmetic | guest modules |
| `face-wasm` guest (`memory.rs`, `interface.rs`) | guest linear memory | `grow_to`, reads and writes | the host |
| `face` application (`apps/face/src/server.rs`) | ONNX session, wasm runner | `detect` | host, guest |
| proxy, `hello`, client helpers, command line | none of consequence | | |

### Interactions

* `deploy` → own database `add_app` (download, unpack, note) → choose a server →
  that server's daemon `spawn` → that node's database `add_instance` → the
  state channel → that node's `ServerRunner`, which restarts its gRPC service so
  that the new application is served → the scheduler registers the instance.
* A server that starts joins the scheduler, then its reporter sends a window per
  second; each answer carries the whole cluster, which the reporter keeps for a
  failover.
* `lookup` answers from a copy of the runtime and leaves behind a task that may
  add another instance.

### Hard behaviours

* Handlers run concurrently, and each takes the mutex several times with awaits
  in between. The task behind `lookup` keeps its guard across an await.
* tonic drops a handler's future when its caller goes away: each await is a place
  where a `deploy` can end.
* A remote call may take effect and lose its answer.
* Everything the scheduler knows is in memory; the database is on disk, written
  by several unsynchronised steps, and a process may die between any two.
* The state channel holds one command; senders wait.
* A window's length is computed from truncated timestamps, without the seconds.
* The service and the daemon of the scheduler's node wait for the scheduler's mutex,
  so that a scheduler that blocks takes them along.
* Each monitor reads a pipe with a blocking call on a worker thread of tokio, and
  nobody stops it when its service is replaced.
* The scheduler's own node runs applications too: a deploy may restart the service
  that it came through.

`PROJECT.json` lists the hazards at their lines, with the properties that cover
each, and the components with what is modelled of each.

## 2. Modules

    Monitor                window, timestamps, subtract_window
      MeanScheduler        the placement policy
        MCMeanScheduler    drives it over small StatsMaps
          MeanSchedulerProofs
        Scheduler          AuthoritativeScheduler (also EXTENDS IdMaps)
          MCScheduler      windows and symmetry
          SchedulerProofs  (with an instance of MeanSchedulerProofs)
    IdMaps                 IdMap<T> and its entry updates
      DeploymentDatabase   the store of one node
        MCDeploymentDatabase, DeploymentDatabaseProofs
    Placement              what a scheduler promises; Scheduler implements it
    RadeonLine             what the parser makes of a line of radeontop
    PlistReader            what the reader makes of a sample of powermetrics
      MonitorPipeline      tools, blocking readers, channels, reporters (EXTENDS both)
        MCMonitorPipeline  samples that differ from the usual one in one place
        MonitorPipelineProofs
    ServerRunner           one node: its services, their daemons, the state channel
      MCServerRunner, ServerRunnerProofs
    SchedulerNode          Scheduler and ServerRunner in one process
      MCSchedulerNode
      SchedulerNodeProofs  (EXTENDS SchedulerProofs, instance of ServerRunnerProofs)
    ClusterNodes           several nodes: processes, reporters, cluster state
      MCClusterNodes, ClusterNodesProofs
    WasmMemory             one face detection: host, guest and their memory
      MCWasmMemory, WasmMemoryProofs

The modules look at the system at different scales. `Scheduler` is one process in
detail, `DeploymentDatabase`, `ServerRunner` and `MonitorPipeline` are one node,
`SchedulerNode` puts the scheduler on such a node, `ClusterNodes` puts
nodes together and keeps of each part what the others can see: of a scheduler the
cluster and who reported, of a node its process, service and command channel.

Operators named `X_something` in a module are altered versions of the operator
`X`, each standing for a plausible mistake in that code; no specification uses
them. For each property there is one that makes TLC report a violation in
the property's own run.

### Monitor and MeanScheduler

`Timestamp` keeps what `datetime_to_prost` (`utils.rs:62`) keeps: the second *of
the minute* and the nanoseconds. `SubtractWindow` is `subtract_window`
(`utils.rs:45`), which adds `end.seconds` to both operands. `UtilizedRate` is
`cpu_utilized_rate`/`gpu_utilized_rate`; a float is an exact fraction, `0/0` is
NaN, and `RateLess` is `<` on floats (false whenever NaN takes part).
`ScheduleLoop` is the body of `schedule` for one iteration order of the hash
map; `ScheduleChoices` is the set of its results for all orders, in closed form.

Units are parameters. A second has 1000 "nanoseconds" in the
scheduler's runs and counts 4294 in `subtract_window` (10 and 43 in the
policy's), so that the ratio is that of 10^9 and 2^32. Sums and
products are unbounded integers; the code's `i64` sums do not get near their
limits for windows of seconds.

### Scheduler

A task is a call in flight (`pc`, `arg`). A stretch of code between awaits that
locks, works and unlocks is one action guarded by `lock = Free`.

| Code | Actions |
|---|---|
| `join` (`scheduler.rs:184`) | `JoinPush`, `JoinReply`: two acquisitions |
| `report` (`:207`) | `Report` |
| `deploy` (`:220`) and `deploy_in_us` (`:84`) | `DeployClone`, `DeploySave`/`DeploySaveFails`, `Select`, `SpawnTakesEffect`, `SpawnConfirmed`/`SpawnFails`, `Commit` |
| `lookup` (`:252`) | `LookupRefused`, `LookupAnswer` |
| the spawned task (`:276`) | `ScaleNotNeeded`, `ScaleOut`, then `Select` |
| a future dropped by tonic | `CallerLeaves` |
| process killed and started | `Restart` |

`ScaleOut` sets `lock` to the task itself, since the guard lives to the end of
the block; `Select`, the first thing `deploy_in_us` does, needs `lock = Free`.
`spawned`, `answered` and `created` are history: what daemons were told, what
clients were told, which ids were drawn. `saved` is the set of deployments whose
`add_app` returned here.

### Placement

The contract: an application is started on a server before it is listed there,
clients are sent only to listed places, and listings go all at once (restart) or
not at all. `Scheduler` implements it with `running <- spawned`,
`listed <- Listed` (the pairs of `cluster.instances`) and `answers <- answered`.

### DeploymentDatabase

Files and memory are separate variables. A save is `Download`, `OpenDir`
(creates the directory, truncates a file that is there), `WriteFiles`,
`TruncateInfo`, `FillInfo`, `Insert`; every one of the steps before the last can
fail (`AddAppFails`), leaving what was written. A directory's name is made of the
second and the hash of the archive, so two saves share it when they fall in one
second; `overlaid` is the history of the directories that a save found there. `CheckApp`, `PushInstance` and `SendKeep` are the rest of
`add_instance`. `Crash` loses memory, channel and calls in flight; `Start` is
`default`, which needs every directory to be readable. `read_dir` lists
subdirectories in no particular order: `Start` chooses one.

### ServerRunner

A turn of the loop in `run_start` (`server/run.rs`) is a *service*, numbered by
its place in `offers`. `NextService` starts one: for a state command
(`ReceiveKeep`), or after a join (`JoinSucceeds`). Each service creates a daemon,
whose mutex is `held[g]`, looks up the application "face" (`LookupFace`), creates
it and listens (`Listen`). Dropping a service closes its listener only: calls that
came through an accepted connection go on with the old daemon, so a call carries
the service it belongs to, and calls may still arrive at any service in `listened`.

`spawn` is `SpawnLock`, `Save`/`SaveFails`, `NoteInstance`, `SendKeep`, with the
daemon's mutex held from the first to the last. `DeployHere` is a `deploy` of the
scheduler on the same node: it saves an application and sends nothing.

A node that is the scheduler waits for the scheduler's mutex in two places: before a
service looks up "face" and listens (`run.rs:181`), and in `get_info`, which has let go
of the daemon's mutex by then (`GetInfo`, then `GetGroup`). Whether that mutex is gone
for good is `blocked`; `ScaleOutBlocks` is the `lookup` that makes it so. That it is
taken for a moment by other handlers is left to `SchedulerNode`.

Of the database only the set of applications is kept; of an application, whether its name
is "face" and whether `FaceServer::create` succeeds on it (`Sound`). `command` is
what the command line asks for and is kept across restarts of the process.

### RadeonLine and PlistReader

`RadeonLine` abstracts a line of radeontop to its time and a list of gauges, a gauge
to a name and one of the forms that the parser of `monitor/linux/parse.rs` tells
apart: a percentage with its decimals and what comes after it, hexadecimal digits, a
number that is not a percentage, a word. nom's `alt` and `separated_list1` become
statements about places in the list: `Reached` are the gauges the list comes to,
`Listed` those it keeps, and a gauge that leaves something over, or does not parse,
is where it ends, without an error. The errors come afterwards, from keys that are
missing (`HasGauges`), and the panics from more than three decimals (`Panics`): of
every number that the list comes to, since the decimals are read before the "%" is
looked for.
`PlistReader` does the same for the lines of a plist: which are `Kept`, and whether
serde accepts what they make (`Deserializes`). Two casts of floats may cut off what
rounding has taken: `GpuHundredths` and `GpuPercent` give both results.

`Recognised` is the reader's search for the line to keep, which must *begin* with
`idle_ratio`; a NUL in front of it, as powermetrics prints between samples, hides it.

Each module ends with a reference that is not taken from the parser but says what
the sample says (`Printed`, `WellPrinted`, `NothingLong`; `PrintedIdle`, `WellFormed`).
`IsLine` and `IsPlist` say what the tools print: a gauge once per line, a declaration
before the keys. `SourcesPrint` assumes them of the samples, and nothing else.

### MonitorPipeline

One pipeline per service the node has started: `child`, the pipe, the monitor's
task, the channel, the reporter's task.

| Code | Actions |
|---|---|
| `start_reporter` (`server/run.rs:223`), `MetricsReporter::new` | `StartReporter` |
| `RadeonMonitor::run`, `spawn` of `apple.rs` | `StartTool`, `SkipHeader`, `ReadSample`, `SendWaiting` |
| `next`, `next_inner` | `ReadFails`, `EndOfOutput` |
| `start` of the reporter (`report.rs:42`) | `Take`, `ReportDone`, `ReportFails` |
| the tools and the pipe | `PrintHeader`, `PrintSample`, `PipeBreaks`, `ToolExits` |
| any other work of the node | `CallArrives`, `HandleCall` |

A task in `header` or `read` is inside a blocking read and keeps its worker
(`Blocking`); every step of another task needs `WorkerFree`. A send that finds room
does not give the worker back; one that must wait does. A reporter whose channel is
closed waits for a token that nobody cancels, so it has no action then.

### SchedulerNode

`Scheduler` is extended, `ServerRunner` instantiated with its calls in `call` and
`calling`, and with the scheduler's `lock` for `blocked`; slot `t` of the one is slot `t` of the other. `SaveHere` is a step of
both, since `deploy` saves in the node's own store; `ConnectHere` opens the call to
the daemon that is listening, `RefusedHere` finds nobody; `DaemonNotes` is the effect
of the spawn for both; `ConfirmedHere` waits for the answer. Between its steps the mutex is
only ever held by a scale-out, so `lock # Free` is what `ServerRunner` calls blocked: the
guard of `LookupFace` comes with it, which is how the runner can wait for the handlers. A caller that leaves takes its handler along, and
that the call to the daemon. The cluster is this node alone; deaths of the process
from outside are in the two modules.

### ClusterNodes

`proc[n]` is how far the process of node `n` is, `boss[n]` the scheduler its
service knows, `cluster[n]` the `Cluster` if it is a scheduler. `reporters[n][k]` is
the reporter that the `k`-th service of the process started: reporters are never
cancelled when a command replaces a service, so a process has as many as it had
services. `Connect`, `Report` and `ReportFails` are `MetricsReporter::report`;
`PutCluster` and `ClusterDiffers` are `put_cluster` and `cluster_differs`;
`RemoveServer` and `ChooseScheduler` the election. The branch that elects is guarded
by the value of `ErrorFrom`, which is that of `From<Status> for LaqistaError`
(`error.rs`): always `RequestError`. Effect and answer of a report are one action:
the reply is only lost when the scheduler's process ends, and with it what the
report has changed. `Ends` makes the calls the process was to answer fail.

The network loses nothing by itself. A call fails when nobody listens at its
address or the process behind it dies.

### WasmMemory

One `detect` of the face application, step by step (`apps/face/src/server.rs`,
`laqista-core/src/wasm.rs`, `apps/face-wasm/src/`): the host instantiates the module,
writes the request, calls `main`, reads the guest's result and the parameters of
the inference it points to, writes the reply of the inference, calls
`get_probability`, reads the result and the detection it points to. A message is
its length and its place; the properties look at which messages are still intact.
Host and guest each keep their own book of the memory. The host's is a cursor that
only `Join` moves: the join of two pointers takes the start of the second and the
last address, not the sum of lengths. The guest's is `grow_to`, which asks for
pages when less than the length is available; the subtraction is that of `usize`
in a release build, so that it wraps, and `memory_grow` refuses the absurd number.
(A debug build panics there.) What the linker places at the start of
the memory is not modelled.

The sizes of the messages are parameters under `WasmConstants`: the guest's first
result is shorter than the request, and what comes after the parameters is no more
than they are. The real sizes are far from these limits (some 40 bytes against
an image, some 4 KB against 602112 bytes).

## 3. Runs

| Run | Question | Bounds |
|---|---|---|
| `policy` | Is the closed form what the loop returns, for every iteration order? | 3 servers, 2 windows each, out of 6 windows: within a second, across a second, across a minute, CPU measured |
| `window_length` (violation) | Is the length of a window the time between its ends? | the same; stated for windows within a minute |
| `scheduler_safety` | Types, one instance per deployment, save before spawn, the contract of `Placement`; when is the mutex kept, and does anything change afterwards? Does a deployment that could be looked up stay so? | 2 calls in flight, 2 servers, 2 deployments, 1 window per server, 1 restart |
| `scheduler_live` | With the loads that the two shipped monitors report: does every call return? | 1 deployment, no restart, fairness; deadlock is checked |
| `scale_out` (violation) | Does a scale-out that was begun finish? | 1 server |
| `database` | Instances have their app; an acknowledged app survives crashes; what `get` reads is complete, unless it was found on the disk; does each instance lead to a restart of the service? | 2 ids of one name and 2 seconds, so that saves share a directory or not; 2 calls at once, 3 in all; 2 crashes, fairness |
| `start_succeeds` (violation) | Can a process always read what its predecessor left? | 1 call, 1 crash |
| `runner` | Is what was acknowledged offered and served, does every call end, what waits for a blocked scheduler, can a node with unusable applications come back? | 3 deployments (usable, unusable, another name), 2 calls at once, 3 in all, 2 starts, fairness |
| `scheduler_node` | Is what the scheduler lists here offered here, and found by clients? Does the node come to rest after deploys to itself? | 2 calls in flight, a usable and an unusable "face", 1 window that may be an overload, fairness |
| `cluster` | One scheduler; do reporters survive deployments and restarts of others; do members get known, do reporters catch up? | 2 nodes, 3 starts of processes, 2 spawns (one may be a scale-out), 2 services per process, fairness |
| `wasm` | Is each message read back as written, is there room for the reply, when does the guest grow and when does it trap? | pages of 4 bytes, 2 to 8 of them, 480 combinations of lengths up to and over the whole memory |
| `monitoring` | Do windows say what was printed? What ends a monitor? Are windows reported and calls handled with as many monitors as workers? | 39 lines and 14 plists, each different in one place, with one service; two services with a clock of "inf%" or an unreadable load; 2 workers; 1 sample in the pipe; fairness |

Why the bounds are enough to be of interest. Two calls in flight show every
race between a pair of handlers; the races of this code (choose then record,
check then insert, two saves in a directory) are between pairs. Two deployments
are needed for one to be registered while another is on its way; two servers so
that the choice, the place recorded and the place answered can differ. One
window per server reaches "has reported" and "has not". Two crashes allow a crash
after a restart that already read a half-written store. Three calls in the
database reach a save, its repetition and an instance. Three calls to a node fill
the channel with one, make the second wait, and have a third come through a
connection to the daemon before. Three starts among two nodes are a founder, a
member, and one of them coming back; two services are a node
whose service was replaced. Members do not talk to each other, so that a second member
is for the safety properties what the theorems say of any number of them. Two calls on the scheduler's node are two deploys, of which one restarts the service
under the other, or a deploy and the lookup that blocks the scheduler. Two monitors
on two workers leave no worker when both read; a third would wait like a call does.
A line has a gauge before the needed ones, two of these, and one after them, so
that an odd gauge can be in each of these places. In the memory, requests from 1 to 9 bytes lie on both
sides of the 8 bytes there are before anything grows, and parameters up to 17 take
one, two or more pages. The theorems of section 5 do not depend on any of these
bounds.

Deadlock checking is off where the system really may stop: `scheduler_safety` and
`scale_out` (that is the finding), the database runs, which end when the calls and
crashes are used up or a start is impossible, `runner` (an exited process that is
not started again), `scheduler_node` (blocked, or ended), `cluster` (everybody down)
and `monitoring` (both halves of each pipeline have ended). Symmetry is used only in
runs without liveness properties; call slots and deployment ids are only compared
for equality.

### Fairness

`Scheduler!FairSpec` has weak fairness on the steps of each task: tokio runs
tasks that are ready, its `Mutex` is handed over in FIFO order, and remote
calls and downloads end in an answer or an error. Nothing makes calls arrive,
callers leave or processes die. Weak fairness is enough although the mutex may be
taken and freed again: no action holds it across a step, except for the
scale-out task, which never frees it. `DeploymentDatabase!FairSpec` adds that
the runner returns to the channel: `run_start` selects on the receiver.
`ServerRunner!FairSpec` has it for the loop, for the service that is starting, and
for each call to a daemon. A service or a `get_info` that waits for a blocked scheduler
has no step it could be made to take: `AckedServed` and `EveryCallReturns` name these
two waits as their exceptions. `ClusterNodes!FairSpec` says that a started process goes
on and that each reporter does: a monitor delivers a window every second.
`SchedulerNode!FairNodeSpec` is that of the two modules, with the runner's loop as one
task. `MonitorPipeline!FairSpec` assumes that a tool goes on printing or exits and
that a report is answered or fails. The steps that need a worker have strong
fairness: when monitors block all of them, a worker is free again and again and not
for good, and tokio takes the tasks that are ready in the order of its queue, so each
of them gets its turn.

### What the violations show

1. `scale_out`: the detached task of `lookup` locks the runtime, and
   `deploy_in_us` locks it again. The scheduler then answers nobody.
   `BlockedOnlyByOverload`, `FrozenUntilRestart` and `NeverBlocked` say
   when, for how long, and why it has not been seen: no shipped monitor reports
   a CPU load.
2. `start_succeeds`: a failed unpacking or a crash during a save leaves a
   directory that makes `read_apps` fail, and `default` unwraps it.
3. `window_length`: `subtract_window` is said to compute `end` - `start` in nanoseconds
   (`utils.rs:43`), but adds the seconds of `end` to both. radeontop's windows of one
   second have length 0, and the rates of their servers are NaN; a powermetrics window
   loses the seconds it crosses, which may make its length negative. With both monitors
   reporting a CPU load of -1, placement follows these artefacts and not the load.

### What else the models say of the code

These follow from single lines, or need no interleaving, and have no run of their
own.

* `timestamp` (`parse.rs:102`) passes microseconds on as nanoseconds (`RadeonTime`).
* A monitor that meets a sample it cannot read ends for good, by a panic or by the end
  of the loop, and with it the reports of its service (`ReadFails`); the node goes on.
  The comment at `parse.rs:36` has such a gauge ("mclk inf%"), which does no harm
  where it stands, after the gauges that are needed.
* A `lookup` right after a `deploy` fails until the chosen server has reported
  (`scheduler.rs:271`); `tests/face.rs:41` of the repository calls them back to back.
* `add_app` sends no state command, although `server.rs:121` says that the
  completion of a download is announced (`DeployHere` leaves `channel` alone).
* A state command drops the service with the token of its reporter, which does
  not cancel it (`run.rs:98`): a node has one more reporter per restart
  (`reporters` in `ClusterNodes`).
* A scheduler that restarts its own service, which a deploy to its own node is
  enough for, listens nowhere for a moment. A report that connects then fails, and
  `report.rs:51` panics on it: the member never reports again. This is why
  `ReportersSurvive` and `MembersGetKnown` are stated for a scheduler whose service
  is not replaced.
* No failed call is ever a `TransportError` (`error.rs:101`), so no member ever
  elects a scheduler. With that conversion changed, the cluster has two schedulers
  as soon as a founder comes back; `OneScheduler` holds because of it.
* A reporter that outlives a restarted scheduler stores a cluster that lists the
  scheduler only, while `scheduler.rs:391` counts on the caller being listed.

## 4. Properties worth knowing

* `RefinesPlacement`: however deploys, lookups, lost answers and restarts
  interleave, no client is sent to a server that did not confirm the deployment.
* `OneInstanceEach`: what looks like support for several instances cannot happen:
  the only path to a second one is the scale-out, which blocks.
* `SavedBeforeSpawned`: no daemon runs what the scheduler's node has not stored.
* `DurableOnceAcknowledged`: as long as no second save under its name was begun, of
  whatever archive or id, an acknowledged application is complete on disk with its
  info, through crashes, failures and saves of other names. A second save of the name
  does replace the info, and in the same second it writes over the files.
* `ServableUnlessFound`: everything served was completely written by the process
  that serves it, or was in place before: left by an earlier process, or written over
  by a second save of one archive within a second, which truncates files that are
  already registered.
* `InstancesSignalled`: although the channel holds one command,
  no instance is forgotten. There is one exception. A caller that leaves
  while its `add_instance` waits for the channel takes the command with it, and if
  the command in the channel was received before the last push, nobody tells the
  runner; two daemons of one node are needed for that (`abandoned`).
* `AckedIsOffered`: `spawn` is answered before the service is restarted, and the
  starting service may have looked for "face" just before the spawn saved it.
  Still, a service that listens with the channel empty offers a "face" application
  if one was ever acknowledged, since the command that the spawn sent makes it start
  again.
* `EveryCallReturns` of the runner: a spawn waits for the runner to take a
  command with the mutex of its daemon in its hand, and the runner replaces that
  very daemon's service; nobody waits for each other. On a scheduler's node `get_info`
  may wait for ever for a blocked scheduler, but without the daemon's mutex, so that
  spawns end even then; `GetInfo_keepsGuard` makes them wait too.
* `AckedServed`: the "face" application is served in the end, or the process ends, or
  the scheduler on this node is blocked, and the service that the spawn had restarted
  waits for it before it listens.
* `AnswerableOnceReported`: a deployment is listed before its server may have reported
  and cannot be looked up until then; nothing takes it back afterwards.
* `ListedIsOffered`, `AnsweredIsServed`: a client that was sent to the scheduler's own
  node finds the application there, although `add_app` announces nothing and the
  service it reaches may be the one before.
* `ComesToRest`: on that node the runner waits for the scheduler's mutex, handlers of
  the scheduler for the daemon, the daemon for the runner. There is no cycle, as
  long as no handler keeps the mutex while it waits: `Select_keepsGuard` makes one.
* `SaysWhatWasPrinted`: whichever gauge of a line is odd, a window never carries
  the load of another gauge or one that is off by a factor.
* `EndsOnlyForAReason`: what comes after the needed gauges, and powermetrics' second
  `idle_ratio`, end nothing.
* `KeepsReporting`, `CallsHandled`, `FailedReporterFreesWorker`: leaked monitors take a
  worker each, and still everything goes on, since a monitor whose window finds no
  room in the channel gives its worker back. With a channel that never makes it wait,
  two monitors would stop a node with two workers.
* `StaysPoisoned`: one "face" application without usable binaries ends the
  process, and every later process of the node, as long as there is no other.
* `OneScheduler`, `ReportersSurvive`, `MembersGetKnown`, `ServersCatchUp`: see the
  remarks on the failover above; `put_cluster` may drop a cluster it takes for the
  same, but what a reporter keeps ends up with the servers of its scheduler.
* `ReadsIntact`: neither the host's join of pointers, which moves the cursor back,
  nor the guest's allocation spoils a message before its reader has read it.
* `RoomForReply`: the host never grows the memory. Its second message fits since the
  guest has grown for the first, and since the join loses the length of what came
  before; a join that added the lengths would run out of memory.
* `GrowsOnlyWhenShort`, `TrapsOnlyWhenFull`: in spite of the wrapping subtraction, the
  guest grows only when it must, and gives up only when the pages are used up.

## 5. Proofs

Every type invariant and every safety and action property of the passing runs is a
theorem, for all values of the constants that satisfy the modules' assumptions. The
bounds on calls, windows, crashes, starts, and so on are constants like the others, so
that the theorems hold for each of them. The assumptions are stated in the modules
and evaluated by TLC in every run: `TimeUnits`, `SchedulerConstants`, `DatabaseConstants`,
`RunnerConstants`, `NodeConstants`, `NodesConstants`, `PipelineConstants`,
`PlistKeysRead` and `GpuIsNeeded` ask for distinct sentinels, positive sizes, and
constants of the right kind; `WasmConstants` bounds the sizes of messages and
`SourcesPrint` says what the tools print (see section 2).

| Module | Theorem | Statement |
|---|---|---|
| `MeanSchedulerProofs` | `LoopMatchesChoicesAlways` | `Spec => []LoopMatchesChoices` |
| `SchedulerProofs` | `TypeCorrect` | `Spec => []TypeOK` |
| | `OneInstanceAlways` | `Spec => []OneInstanceEach` |
| | `SavedBeforeSpawnedAlways` | `Spec => []SavedBeforeSpawned` |
| | `BlockedOnlyByOverloadAlways` | `Spec => []BlockedOnlyByOverload` |
| | `NeverBlockedAlways` | `Spec => []NeverBlocked` |
| | `FrozenUntilRestartAlways` | `Spec => FrozenUntilRestart` |
| | `AnswerableOnceReportedAlways` | `Spec => AnswerableOnceReported` |
| | `Refinement` | `Spec => RefinesPlacement` |
| `DeploymentDatabaseProofs` | `TypeCorrect` | `Spec => []TypeOK` |
| | `InstancesHaveAppsAlways` | `Spec => []InstancesHaveApps` |
| | `DurableOnceAcknowledgedAlways` | `Spec => []DurableOnceAcknowledged` |
| | `ServableUnlessFoundAlways` | `Spec => []ServableUnlessFound` |
| `ServerRunnerProofs` | `TypeCorrect` | `Spec => []TypeOK` |
| | `AckedIsOfferedAlways` | `Spec => []AckedIsOffered` |
| | `StaysPoisonedAlways` | `Spec => StaysPoisoned` |
| `SchedulerNodeProofs` | `NodeTypeCorrect` | `NodeSpec => []NodeTypeOK` |
| | `ListedIsOfferedAlways` | `NodeSpec => []ListedIsOffered` |
| | `ImplementsScheduler` | `NodeSpec => Spec` of `Scheduler` |
| | `ImplementsRunner` | `NodeSpec => Run!Spec` of `ServerRunner` |
| `ClusterNodesProofs` | `TypeCorrect` | `Spec => []TypeOK` |
| | `OneSchedulerAlways` | `Spec => []OneScheduler` |
| | `ReportersSurviveAlways` | `Spec => []ReportersSurvive` |
| `WasmMemoryProofs` | `TypeCorrect` | `Spec => []TypeOK` |
| | `ReadsIntactAlways` | `Spec => []ReadsIntact` |
| | `RoomForReplyAlways` | `Spec => []RoomForReply` |
| | `TrapsOnlyWhenFullAlways` | `Spec => []TrapsOnlyWhenFull` |
| | `GrowsOnlyWhenShortAlways` | `Spec => GrowsOnlyWhenShort` |
| `MonitorPipelineProofs` | `TypeCorrect` | `Spec => []TypeOK` |
| | `SaysWhatWasPrintedAlways` | `Spec => []SaysWhatWasPrinted` |
| | `EndsOnlyForAReasonAlways` | `Spec => []EndsOnlyForAReason` |

The properties are not inductive alone. Each state machine has an invariant that is,
`IInv` at the end of its module (`NodeIInv` in `SchedulerNode`), and a lemma
`Invariance` (`NodeInvariance`) that every step preserves it, with one case per action
and one step per conjunct which the action can disturb. The theorems follow from it.

### The policy

Nothing here depends on how the map was reached but that it is finite and holds windows
(`StatsAreMaps`). `RateLess` compares fractions whose denominator may be 0 and is no
order: NaN is neither below nor above anything. Below zero it is a strict weak order,
and nothing else is ever below something below zero (`BelowNegative`, `RatesOrdered`).
`BestSoFar` is the loop's invariant: either no server met so far is below zero and the
first one is still kept, or the one kept is below zero and none that was met is below
it. So the loop ends with a lowest server (`LoopResult`); and a lowest one that comes
first is kept (`LowestStays`), so that each of them is the result for some order.
`PositionInduction` is induction with a set in the place of a predicate; by it
the recursive functions for the sum and the loop are shown to exist.

### Scheduler

That a commit adds the first instance of its deployment depends on what
every call in flight carries. So `IInv` adds

* `ArgsFit`: a task has the arguments its code reads at this point;
* `DeploysDistinct`: deploys in flight are about different ids, none of them
  listed yet. A scale-out task is excluded, since past `ScaleOut` it holds
  the mutex (`BlockedOnlyByOverload` says that such a task is at `select`, where
  it cannot go on);
* `SavedFirst` and `SpawnedFirst`: how far a deploy has come says what has been
  saved and spawned.

`Refinement` maps `SpawnTakesEffect` to `Start`, `Commit` to `List`, `LookupAnswer` to
`Answer`, `Restart` to `Forget`, and everything else to stuttering.
`AnswerableOnceReported` takes from the policy's proofs that a map with an entry always
has a choice (`ChoicesExist`).

### DeploymentDatabase

* `CallsFit`, `DiskFits`, `StoppedIsEmpty`: arguments, the finiteness of directories (a
  `Start` chooses among them), memory after a crash.
* `FilesFirst`: a save goes on to its info file with all files written, unless it was
  overlaid; a version in the map came from such a save or was found. This gives
  `ServableUnlessFound`.
* `FirstSaveAlone`: as long as one save of a name was begun, that save alone writes
  under it, its directory is full once it is past `WriteFiles`, and the info file is its own
  when it comes to `Insert`. This is what `DurableOnceAcknowledged` needs of the moment
  when a save returns; afterwards, other names do not touch its files.

### ServerRunner

* `CallsFit`: who holds the mutex of a daemon is between `SpawnLock` and the end.
* `SavedFirst`: a call that is about to note or to signal has its application in the
  store, so what was acknowledged is there too.
* `LookedUp`: `AckedIsOffered` already from the moment when "face" was looked up. A spawn
  that is acknowledged after that has put its command into the channel, so that the
  channel is not empty, until the next service looks again.
* `EndedIsQuiet`: an ended process has no listener, no command and no call.

`StaysPoisoned` needs a second invariant, `Barred`, from the end of the process on:
nobody can save a usable application, since no call reaches a service that does not
listen, and each start finds an unusable one.

### SchedulerNode

`NodeIInv` is the two modules' invariants and what they know of each other:
`CallsMatch` (a call to the daemon is that of a handler which waits for it, with the
same deployment), `AckedBeforeListed` (a handler past its call has the daemon's answer),
`CallersHaveConnected` (a handler came through a service that has listened), that the
node is the scheduler, and `saved \subseteq apps`. `ImplementsScheduler` and `ImplementsRunner` prove that each
step is a step of each module or leaves it unchanged, so the theorems of both hold for
the node; the proof itself uses them that way, for its two `IInv`. The step to watch is
`SaveHere`, a deploy's save and the runner's `DeployHere` at once. For the runner, the one
step of the scheduler that changes `lock # Free` is its `ScaleOutBlocks` (`ScaleOutIsBlock`);
all others leave it (`LockStays`).

### ClusterNodes

`NobodyElected` is the heart: as `ErrorFrom` never gives a `TransportError`, no node is
ever told to become scheduler, so that only the founder has a cluster, and whatever a
node or a reporter knows of a scheduler is the founder. `ProcessStages` relates a process
to its services and commands. `MembersFollow` is for `ReportersSurvive`: while the founder
is undisturbed, it serves whenever some member has been admitted, so that no
report can fail.

### WasmMemory

`Layout` says at which address each message and each of the two cursors is, for each
point of the detection. From there the properties are inequalities between the sizes, where
`WasmConstants` is needed: a message is intact since the intervals are disjoint, and
`RoomForReply` holds since the memory reaches beyond the guest's first messages, of which
the parameters alone are as long as what comes later. The arithmetic of pages
and of the wrapping subtraction is in lemmas.

### MonitorPipeline

The pure part comes first: a line that is read is `WellPrinted`, one that is well printed
with nothing too long is read, and the window carries the `gpu` gauge (`ReadIsWellPrinted`,
`WellPrintedIsRead`, `RadeonWindowsCarry`); the same for plists, where the line kept is
the first that `Recognised` finds. `IInv` then adds `InOrder` (the header comes first, who
reads a silent child, when there is no child) and `FromSamples` (what is on its way was
read from a sample of this tool). `EndsOnlyForAReason` is inductive with these.

### Only model-checked

* Liveness and what rests on fairness, which the prover cannot do: `EveryCallReturns` of
  the scheduler and of the runner, `InstancesSignalled`, `AckedServed`, `AnsweredIsServed`,
  `ComesToRest`, `MembersGetKnown`, `ServersCatchUp`, `FailedReporterFreesWorker`,
  `KeepsReporting`, `CallsHandled`; and the three properties that are violated.
* That the number of starts in `ClusterNodes` stays within `MaxStarts`: the guard sums
  with a fold. The type invariant says that each count is a natural number.

Not claimed at all: that `SchedulerNode` keeps the fairness conditions of its two modules.
It implements their specifications without fairness, which is what the theorems say.

## 6. Not modelled

* `handle_failed_server`, `with_group`, `to_nomination` and `get_addr` in the
  scheduler are never called.
* The proxy and `hello` keep no state. The command line and the conversions between
  protocol and program types do not affect the properties here. `retry` of
  `laqista-core` calls a closure up to three times; only tests and benches use
  it, around requests that change nothing when repeated.
* `MetricsReporter::stop` and the cancellation behind it: `serve` returns only with an
  error, so that no token is ever cancelled.
* Characters: `RadeonLine` and `PlistReader` start from gauges and lines with keys.
* ONNX inference is external.

## 7. Plan

1. An abstract specification of a node (what was acknowledged is served, or the
   process ends) for `ServerRunner` to implement, by proof.
2. An abstract specification of the store (a name has the versions that were
   acknowledged, and a crash adds or loses only what was not) for `DeploymentDatabase`.
3. The election as an operator: servers that see the same cluster choose the same
   scheduler, for any cluster; and what `OneScheduler` would need if a failed call did
   count as a `TransportError`.
4. `Placement` for a cluster: `SchedulerNode` implements it through `Scheduler`.
