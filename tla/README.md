# TLA+ verification of devops-toolkit

A set of TLA+ modules that model the parts of the devops toolkit (`src/`, a Go
server with a React front end) in which state changes under concurrency or
failure, the TLC configurations that check them on small instances, and proofs
that TLAPS checks for every value of the constants. All paths below are under
`src/internal/` unless they start with `src/`.

## 1. The system

One Go process serves HTTP requests, one goroutine each, on top of a relational
database reached through GORM. Besides the requests it runs a monitor loop, one
goroutine per pipeline run, the WebSocket hub's loop, and workers that empty
bounded queues. **Almost nothing is done in a transaction.** A handler reads a
row, decides, and writes the *whole* row back with an upsert (`Save`) that
compares nothing. That is the source of most hazards: two goroutines may read the
same row and overwrite each other, a check may be stale when its write happens,
and a crash can fall between any two statements.

| Component | State | Operations | Shares state with |
|---|---|---|---|
| Physical hosts (`physicalhost/`) | `physical_hosts`: state, `in_maintenance`, `consecutive_failures`, address | monitor tick and probe, enter/exit maintenance, create, PUT, delete | the monitor loop and every request write the same rows; audit; hub (`device_event`) |
| Pipelines (`pipeline/`) | `pipelines`, `pipeline_runs`, `pipeline_step_runs`; in memory: `Service.running`, a cancel function per run | trigger, execute, cancel, update, delete; planning of strategies | executor goroutine and cancel requests write the same run row |
| WebSocket hub (`ws/hub/`) | two Go channels, the maps of channels and clients, a `Send` queue per client | publish, run, drain; register, subscribe, unregister, shutdown | publishers in request goroutines, one loop, two pumps per client |
| Projects (`project/`) | `projects` (a tree through `parent_id`), members | create, move, delete; assign, revoke | any two requests on the same tree |
| Discovery (`discovery/`) | `discovery_runs`, `discovered_hosts` | scan, promote | devices; two scans or promotions at a time |
| Host-project links (`hostproject/`) | link rows | link, unlink, bulk link, view | hosts, projects, members |
| Alerts (`alerts/`) | alert and channel rows | fire, suppress, dispatch, acknowledge, resolve; channels | the maintenance flag of hosts |
| Kubernetes (`k8s/`, `k8s/logstream/`) | clusters, two caches of clients, log streams | register, probe, delete; exec, logs; stream over WebSocket and SSE | the apiserver, the catalog's health |
| Buffered sinks (`audit/emitter.go`, `physicalhost/async_writer.go`) | a bounded queue, workers, counters | emit/enqueue, work, close | every service emits audit events |
| Devices (`device/`) | devices, groups, templates | create, update, delete, maintenance | two requests on the same row |
| Service catalog (`servicecatalog/`) | services, shifts, runbooks, a gauge | the same, and the health rollup | clusters |
| Metrics cache (`physicalhost/cache.go`) | entries with an expiry | look up, collect, store, evict | - |
| Auth and RBAC (`auth/`) | failure buckets, tokens held by clients, the matrix | login, admit, authorise | projects |
| Logs (`logs/`) | files, lines in memory, a cache of scans, retention, filters | append, search, save | log streams, in principle |
| Health (`health/`) | one report's rows | run the checks | database, sinks, clusters |
| Server (`src/cmd/devops-toolkit/main.go`) | the stage of the process, the routes | build, serve, drain, exit | everything |
| Metrics and audit trail (`metrics/`, `audit/`) | two tables that only grow | ingest or emit, list page by page | the caller's projects |
| Tracing, configuration, frontend, charts | none that decides anything | exposition, export, reading | - |

What makes the modelled ones correct, and where they are hard:

* **Hosts.** State, flag and counter of a row agree, unless a client has named the
  state; a host that is down is found offline and one that is up online;
  maintenance is always told in the audit trail. Hard: a probe takes seconds
  between its read and its write.
* **Pipeline runs.** The step rows agree with the run's status; a cancelled run
  ends, unless its command never returns; a settled run stays; no run is left
  "running" by anything but a fault. Hard: two writers of one row, a step's row
  written in two statements, in-memory state lost in a crash, an executor whose
  callback drops errors.
* **Hub.** A payload reaches the channel it was published on, in order, and a
  drain ends; the registry of channels follows what clients asked for, and a
  broken client leaves. Hard: payload and channel name travel on two Go channels;
  the hub, the registry and each client have a lock of their own.
* **Projects and access.** The tree has no cycle, no live project under a deleted
  one, and at most three levels; nobody reaches a project they are no member of.
  Hard: checks that take several statements and a write that repeats none of them;
  unique indexes that still hold soft-deleted rows.
* **Discovery.** An address is recorded once, a host becomes one device, a run's
  row tells what its scan did. Hard: check-then-insert and create-then-mark.
* **Alerts.** A suppressed alert went to nobody outside, one that was not
  suppressed met a moment outside maintenance, and the log has them all. Hard: the
  flag is read, the row stamped and the channels called in separate steps.
* **Queues and streams.** What is accepted leaves in order and is lost only for a
  named reason; Close and the end of a stream leave nobody waiting. Hard: a check
  of a flag before a send, three goroutines on unbuffered channels.
* **Caches** (clients of clusters, metrics, log scans). An answer is not older than
  the cache's life; what is kept for good (clients) was the row's once since the process
  read it first. Hard: a miss is filled outside the lock, so that slow fills overtake
  each other; a failed read may be kept as the answer.
* **Login.** Nobody is turned away without the failures for it, nobody gets in by
  a role they did not have a token's life ago. Hard: the bucket is checked before
  the bind and counted after it.
* **Lists read in pages** (metrics, audit trail). A client that follows `has_more` has
  seen every row that was there. Hard: a count, a find and the next page are
  statements of their own, and rows come in between.
* **Commands, readiness, shutdown.** What a caller is told happened: the code of an
  exec, the report of a probe, the grace of a drain. Hard: an answer, a deadline
  and a client that leaves race.

`PROJECT.json` lists every component with its status, the hazards at their lines,
and for each definition the lines it models.

## 2. The modules

```
HostLifecycle (atomic)      <- PhysicalHost     <- PhysicalHostProofs, MCPhysicalHost
DeploymentStrategy (pure)   <- PipelineRun      <- PipelineRunProofs, MCPipelineRun
                               HubDispatch      <- HubDispatchProofs, MCHubDispatch
ProjectHierarchy (atomic)   <- ProjectTree      <- ProjectTreeProofs, MCProjectTree
                               Discovery        <- DiscoveryProofs, MCDiscovery
SinkPromise (abstract)      <- BoundedSink
HubRegistry, LogStream, Alerts, Server, Health, PodCalls   (with BoundedSink) <- StreamsProofs
Permissions (pure)          <- ProjectAccess, Login
Tables (pure)               <- Clusters, ServiceCatalog, MetricsCache, Login
Devices, LogStore, Listings                        (with the two rows above) <- TablesProofs
all fifteen services        <- MCServices;  with StreamsProofs, TablesProofs <- ServicesProofs
```

Everywhere a step is one database statement, one operation on a Go channel, one
look at a context, or one call of something outside (a ping, a shell command, a
scan). Pure computation between two of these belongs to the step that reads.
*Ghost* variables are marked in the modules; no action's guard looks at one.

**HostLifecycle** holds the rows and the decisions of `monitor.go`,
`maintenance.go` and `handler.go` as functions from row to row (`ProbedUp`,
`ProbedDown`, `Entered`, `Exited`, `Edited`), and the atomic specification in which
each operation reads, decides and writes in one step. **PhysicalHost** is the code:
a process loads a row (`LoadForCheck`, `RequestEnter`, ...), perhaps pings
(`Probe`), finds the row again (`UpdateFind`, Update's `First`) and saves what it
carries (`UpdateSave`), after which maintenance emits its audit event
(`Announce`). The monitor loop lists the hosts (`Tick`) and checks one after the
other (`LoopCheck`). `DbError` and `Crash` may strike between any two steps. `up` is
the network. The ghosts are `fresh` (processes whose row nobody wrote since they
read it), `audited` (what the audit table says) and, in a row, `named`: a POST or PUT
set its state, and the service has not decided one since.

**DeploymentStrategy** has the three planners of `strategy.go` and `resolveSteps`,
with `RollingPlan` compared with the reference `RollingCovers`. **PipelineRun** is
`Trigger` (look, insert, register, start), the goroutine (`Kickoff`, `Mark`, then
per step `Select`, `Shell` with its three ends, and `Finish`, `Cleanup`) and `Cancel`
(load, signal, write). What the executor emits stands in `event` until it is recorded:
`CreateStepRun` inserts the step's row as pending, `UpdateStepRun` writes the status,
and a failed step has one event for each step after it (`After`); another actor, an
error or a crash may come between any two. `Toggle` is what an Update or Delete of the
pipeline means to a run.

**HubDispatch** has `Publish` as its two sends (`PublishPayload`, `PublishName`), and
`Run` as take, deliver or drop, plus the drain after the context ends. Capacity is
a constant.

**ProjectHierarchy** is the tree and its atomic operations. The way up from a project is
the least set that has it and the parent of each live member (`Line`), its depth the
size of that set (`Depth`), so that nothing is recursive. **ProjectTree** has the
walks of `GetTree` (`MoveTree`, a level at a time) and `GetAncestors` (`CreateDepth`,
`MoveDepth`, `MoveOwn`, a row at a time) as steps of their own, before `Insert`,
`Commit` or `Drop`. The ghosts are `fresh`, `clean` (every write so far was by a
fresh request) and `grafted` (a project with children has moved).

**Discovery** is `StartRun` (create the run, `Scan`, `Dedup` and `Persist` per host,
`Close`) and `PromoteHosts` (`SelectHosts`, then `Build` and `Mark` per host). The
ghosts are `met` (which scans overlapped), `shaky` (hosts in two promotions at once,
or whose mark a fault prevented) and `hit` (runs struck by a fault).

**BoundedSink** is both sinks, which differ in how they are told to stop (`kind`):
`Call` and `Send` are the check of the flag and the select with a default, `Take`,
`Write`, `Look`, `Stop`, `LeaveWorker` the worker's loop and its drain, `BeginClose`,
`FinishClose`, `Join` the statements of Close. **SinkPromise** is what callers may rely
on: an entry is accepted or turned away on the spot, waits in order, leaves once, and
is overtaken by fewer later ones than there are workers. `SinkKeepsPromise` is the
refinement, `INSTANCE SinkPromise WITH waiting <- HeldInOrder \o ch, fate <- ...`: what
workers hold (`HeldInOrder`, each entry at its rank) is older than what the channel
holds, and what became of an entry is told from where it is. The ghost is `late`.

**HubRegistry** is the other half of the hub: `Upgrade`, then per client a read pump
(`SubscribeOwn` and `SubscribeRegistry`, `UnsubscribeOwn` and `UnsubscribeRegistry`,
`ReadEnds`, `Unregister`, `RemoveAll`, split where a lock is released) and a write pump,
the broadcast as a snapshot and one send per subscriber, and Shutdown as a snapshot
and three steps per client. The ghost is `expelled`. It meets HubDispatch only in
`BroadcastSnapshot`, which takes any topic at any time, so whatever HubDispatch
delivers is covered.

**LogStream** is one pod's log: streamer, fan-out and handler, each with a line in hand
or none, over WebSocket or SSE, with the shared context and each one's return.
**Alerts** is `Fire` in its four steps (store, look the host up, stamp, dispatch to the
log and then channel by channel), acknowledge, resolve, delete, and the channels.
The host's maintenance is a variable that changes at any time, which is all of
PhysicalHost that suppression can see.

**Permissions** is the matrix of `auth/rbac/matrix.go` and the ranking by which LDAP groups
become a role. **ProjectAccess** composes it with members, links and the gates of the
routes: a request goes through gate, checks and writes while other requests change
what they looked at. **Login** composes it with the failure buckets, the tokens and
their check on every other request.

**Clusters** is the rows and the two client registries (`AskClient`, `BuildClient`,
`KeepClient`: a miss is filled without the lock, and the error of a failed read is an
answer like others), and the end of the process.
**PodCalls** is an exec and a log query from the check of their input to the answer,
racing the command, the deadline, the pods and the client; what an exec hands to the
audit emitter (`emitted`) gets to the trail later or never (`AuditWrites`). **Listings** is a client that
reads the metrics or the audit trail in pages, each of them a load of its projects, a count
and a find, while rows come in and projects are joined and left. **ServiceCatalog** has the
services, shifts and runbooks, and the rollup that sets a gauge. **Devices** has the
three tables of `device/` as one table of keyed rows: `Create`, `Update` as load, find
and save, and `Delete`. **MetricsCache** and **LogStore** are the caches with a life in
ticks, and what fills them; LogStore also has the end of a scan at a line over the
scanner's limit (`reach`) and the default retention, which any error of the second
lookup writes again (`LookAgain`; the ghost `missed` counts the errors that met a row).
**Health** is one report with a goroutine per dependency
and a shared deadline. **Server** builds the modules in order (one whose tables cannot
be made is left out, and what it gives to later ones is nil), serves, drains and exits;
a WebSocket is taken from it by the upgrade (`Hijack`), and a drain does not wait for it.

**Tables** has the one operation on a table that is a function from its keys, `Put`.

**MCServices** EXTENDS the fifteen services of the run `services` and puts them side by
side: a group of moves for each, which steps that service and no other.
What one of them reads of another (the maintenance of a host, the answer of a cluster)
its module lets change at any time, so each behaviour follows one service, chosen in
its first state (`on`), and leaves the others at their start: the state space is the
sum of theirs, not the product. The two halves of LogStore, its lines and its rows, share
nothing but the searchers and are followed one at a time for the same reason. Such a behaviour is one of every service's own
specification (`ServicesFollowTheirSpecs` in ServicesProofs), so what is proved of a
service holds of the run.

In each module a definition called a *mutant* in its comment is a plausible bug; no
specification uses it. Each property of each run is broken by one of them.

## 3. The runs

| Run | Configuration | Bounds | Distinct states | Result |
|---|---|---|---|---|
| `host_concurrent` | `MCPhysicalHost.cfg` | 1 host, 2 addresses, threshold 2, counter to 2, loop + 1 request, clients name states, 1 fault | 1,206,376 | holds |
| `host_alone` | `MCPhysicalHostAlone.cfg` | 2 hosts, 1 request at a time, no loop, clients name states | 483,664 | holds |
| `host_audit` | `MCPhysicalHostAudit.cfg` | loop + 1 request | - | violated |
| `pipeline` | `MCPipelineRun.cfg` | 1 run of each of 18 pipelines, 2 cancellers, 1 fault | 201,138 | holds |
| `pipeline_terminal` | `MCPipelineRunFinal.cfg` | 1 run, 1 canceller | - | violated |
| `hub_dispatch` | `MCHubDispatch.cfg` | 2 publishers, 2 channels, capacity 2, 5 payloads | 51,854 | holds |
| `hub_out_of_order` | `MCHubDispatchOrder.cfg` | 1 publisher | - | violated |
| `project_tree` | `MCProjectTree.cfg` | 3 projects, 2 requests, 3 levels | 722,606 | holds |
| `project_alone` | `MCProjectTreeAlone.cfg` | 4 projects, 1 request, 3 levels | 52,805 | holds |
| `project_depth` | `MCProjectTreeDepth.cfg` | 4 projects, 1 request | - | violated |
| `discovery` | `MCDiscovery.cfg` | 2 scans, 2 promotions, 2 addresses, 2 devices a host, 1 fault | 1,191,503 | holds |
| `services` | `MCServices.cfg` | below, per service | 907,483 | holds |

The run `services`, service by service (distinct states are those of that service alone):

| Service | Bounds | States | Property |
|---|---|---|---|
| BoundedSink | 2 callers, 2 workers, 2 Closes, capacity 1, 3 entries | 51,000 | `SinkKeepsPromise`, `OnlyLateEntriesStay` |
| HubRegistry | 2 clients, 2 topics, caps of 1 connection, 1 channel, 1 frame | 106,000 | `RegistryFollowsClients` in `SocketsTold` |
| LogStream | 4 lines, backpressure 2 | 1,400 | `LinesReachClient` in `SocketsTold` |
| Alerts | 2 requests, 1 alert, 1 channel beside the log, 1 fault | 116,000 | `SuppressionTold` |
| ProjectAccess | 1 user and an administrator, 2 projects, lists of 2 | 148,000 | `MembershipTold` in `AccessTold` |
| Clusters | 2 clusters, 2 names, 2 requests at a time, 2 writes | 127,000 | `ClientsTold` in `CachesTold` |
| ServiceCatalog | 1 service, 2 shifts, 2 users, 3 requests | 2,800 | `ShiftsTold` in `CatalogTold` |
| Devices | 1 row of each table, 2 requests at a time, 4 writes | 9,000 | `RowsTold` |
| MetricsCache | 2 hosts, 2 viewers, life 2, 1 entry, 2 ticks | 39,000 | `CacheTold` in `CachesTold` |
| Login | 1 person, 2 roles, 2 logins at a time, 4 in all, 2 failures, 2 ticks | 107,000 | `LoginTold`, `RanksKeepPermissions` in `AccessTold` |
| LogStore | 2 searchers, 2 lines on disk, 1 in memory, life 2, 3 seconds | 54,000 | `LogsTold` in `CachesTold` |
| Server | 2 requests or WebSockets of 4 modules, grace 2, 1 table that fails | 24,000 | `ServerTold` in `ProcessTold` |
| Health | database, sinks and 2 clusters, deadline 1 | 51,000 | `ReportTold` in `ProcessTold` |
| PodCalls | 3 pods, limit 2, deadlines 1 and 2 | 3,000 | `PodsTold` in `ProcessTold` |
| Listings | 3 rows, 2 times, 1 project, pages of 1 row or of all, 3 time ranges | 66,000 | `PagesTold` in `CatalogTold` |

### What they show

*Hosts.* However the loop and a request overlap, with crashes and errors, the state
column, the flag and the counter of a row agree (`RowsConsistent`), because each
writer saves a complete row that was consistent when computed. A PUT or POST may name
any state, also "maintenance" without the flag, so the property excepts a row whose state
a client named, until a probe or the maintenance service decides another. The price is lost
updates, and they are the only anomaly: each change that is not an atomic
operation is a save by a process that another write has overtaken
(`OnlyOvertakenSavesDiffer`). The monitor repairs whatever they leave
(`DownHostsGoOffline`, `UpHostsComeOnline`), with one exception: Check has no branch that
takes a host from "maintenance" to offline (`monitor.go:170-180`), so a down host that a
client put there by name stays there (`Stranded`). With one operation at a time the code
implements the atomic specification (`AtomicSpec`), and the audit trail is right
(`AuditTellsMaintenance`). `audited` is compared with the flag, so
a PUT of the state alone does not disturb it. No fault strikes in that run: a crash
between the host's save and the audit event does lose the event. `host_audit` shows that a stale save,
which rewrites the flag too, does.

*Pipelines.* The step rows explain the row of the run (`RowsExplainRun`): no step starts
before the ones in front of it have succeeded, "succeeded" has only steps that did,
"failed" has one that failed and exactly the later ones skipped, and once the goroutine
has gone the steps tell one of the three ends, whatever a late Cancel wrote over the
status. A run that an error or a crash has struck is not excepted: the rows it did not
get to are left at none, pending or running, and none of them is wrong. `NoOrphanRuns`:
only a fault leaves a run pending or running without a goroutine. `SettledRunsStay` and
`CancelledRunsEnd` say what a Cancel does achieve, the second unless the command
of a step never returns, for which the code has no remedy (section 6);
`pipeline_terminal` says what it does not.

*Hub.* A payload is delivered on its own channel as long as nothing was dropped and
no two Publishes overlapped (`OwnChannelWhileClean`). Order is kept in any case.
What was accepted leaves the queue and the drain returns, but for the state `Stuck`,
in which Run holds a payload whose name was never sent.

*Projects.* The hierarchy holds as long as no request writes on the strength of a
check that another write has overtaken (`HierarchyHolds`), and a change that is not
atomic is such a write (`OnlyOvertakenWritesDiffer`). Requests end unless the tree
has a cycle (`RequestsEnd`), and only overtaken writes make one. One at a time the
code implements `ProjectHierarchy`; even then a move of a project with children
breaks the depth limit (`project_depth`).

*Discovery.* Two runs record one address only if their scans overlapped
(`DuplicatesOverlapped`), a host becomes two devices only if two promotions had it in
hand or a fault hit between device and mark (`OneDevicePerHost`), a run's row tells
the truth about its rows (`RunsTold`) and is closed unless a fault prevented that
(`RunsClose`).

*Sinks.* Both sinks do what SinkPromise says (`SinkKeepsPromise`). When Close has joined
the workers, whatever is still in the channel was accepted after Close had begun
(`OnlyLateEntriesStay`): Emit between Close's two statements, Enqueue past its check
of the flag. Such an entry is neither written nor counted, and that is the only way to
lose one in a running process.

*Sockets.* A connected client between two messages is in exactly the channels it has
asked for, and one that has gone is in none, unless Shutdown took it out under its
read pump: then what it subscribes to afterwards stays for good. A log stream's lines
reach the client in order and without a gap, and one is lost only once the context is
done (`SocketsTold`).

*Alerts.* `SuppressionTold` tells from the rows and from what was sent that an alert
stamped as suppressed went to no external channel and met a moment in maintenance, one
that was sent met a moment outside, and all went to the log, but for faults.

*Access.* What a request did to a project it was entitled to at a moment of its own,
success is true as far as the unique indexes allow (without effect only for a pair that
was once revoked or unlinked), login limits let through fewer
extra tries than there are logins under way, and a role that was taken away serves for
a token's life at most (`AccessTold`). One more group takes nothing away from a user
but the view of the audit log.

*Clusters, metrics, logs.* `CachesTold`: what a cache answers is not too old for its life.
The clients of clusters are kept until the process ends, whatever is written meanwhile:
what is answered is what the row has said at some time since the oldest answer kept
about it was read, or the error of a read that failed. So it is stale only if the row
was written since, and it never comes from a change that was refused, nor from before
that first read. A search finds the lines it should as far as
no over-long line stands before them. The default retention is written once, and once
more at most for each second lookup that failed although the row was there.

*Catalog and devices.* Overlapping shifts were inserted by two requests neither of
which could see the other's; a deleted service keeps a series only by a health check
that recorded late (`CatalogTold`). A deleted row comes back, and a device enters or
leaves maintenance unasked, only by an overtaken Save (`RowsTold`).

*Lists.* A new row only pushes others further back, so a client that follows `has_more`
misses none of the rows it began with, unless a row came in between the count and the
find of the page it took for the last, or it left a project; and it sees a row twice only
if something came in, or its projects changed (`CatalogTold`). Any order would do that is
total and the same for every page, hence the tie-break by id. Rows of an audit trail that name a project all
carry the earlier of the two times in this run.

*Process.* `ProcessTold`: run returns nil only after a signal, and has then cut off
nothing but WebSockets; a request is cut off by a drain only when it has had the whole
grace; a report of "ok" was earned by every dependency, and a dependency is told as
timed out only if the deadline passed before the client left; the code an exec answers
is the command's own and was handed to the audit, and nothing else was, which the
trail may have dropped; and a timeout is told only when time was up or the client had
left.

*Liveness.* `ServicesSettle`: again and again nothing is owed. Accepted entries have
been written or the process is gone, Close has returned, broken clients have left the
hub, ended streams have left no goroutine behind, a signal has ended the process. As
every behaviour follows one service, it is the liveness of each.

### Why the bounds are enough

Two actors on one row are enough for every race the code can have on it, as each
write depends on one read: a third writer only repeats what the second does, with
another row. Threshold 2 with a counter up to 2 has a failure below and at the
threshold; the counter saturates there (`MaxFails`), and a greater one decides
nothing else. One
fault reaches each point where a fault can fall; `MaxFaults` bounds the state space
only. The pipelines are one of each strategy, before own steps, and a rolling update
for fleets of 0 to 4 with the default, a fractional and a full surge. Capacity 2 and
5 payloads overflow both Go channels and empty them again. Three projects allow a
cycle of two or three and an orphan with a child; four are one more than there are
levels. `MaxDevices` 2 allows the duplicate that must not happen; the proofs cover
every value of these constants.

In `services`, a cap of 1 is reached and exceeded by the second of two; capacity 1
with 3 entries and 2 workers fills the channel while both workers hold one, so that
overtaking and overflow both happen. Two requests are again every race on one row. A
life of 2 ticks has a moment inside, at and after the expiry; `MaxFails` 2 with two
logins at a time and four in all lets one past the limit and one more be turned away.
Two lines on disk put an over-long one in front of a good one. Four lines put one in each goroutine's hand and one in the
source, with the backpressure counter at its limit. Requests and clients are alike, so
the first fires the one alert and the first connects first (`First`, `Upgrading`).
Alerts need one row, as nothing relates two of them; two pods more than the limit
would only repeat the third.

### Violations: where the code and its comments differ

* `host_audit`: `maintenance.go:45-47` says that a host enters and leaves
  maintenance only through the service, "so the audit row is guaranteed". A check
  (or a PUT) saves a whole row it read before (`repository.go:159`) and so takes the
  host out of the maintenance that the trail reports.
* `pipeline_terminal`: `models.go:372-374` says "no further transitions are
  allowed" from a terminal status; both the goroutine (`service.go:514`) and `Cancel`
  (`service.go:708`) write without looking again.
* `hub_out_of_order`: `hub.go:96-98` says the branch "cannot happen"; it does when
  Run takes a payload between Publish's two sends.
* `project_depth`: `models.go:41-43` says the depth is enforced by the service
  layer; the check ignores the subtree that moves.

### Fairness

* Hosts: the ticker keeps firing, and a started operation goes on (`WF` of a loop's
  and of a request's next step). Pings and writes have a context of five seconds.
  Nothing is assumed of clients or the network; the liveness properties are about
  hosts that both leave alone.
* Pipelines: a goroutine goes on (`Walk`). Nothing is assumed of a shell command: it
  has no time limit, and the kill of a cancelled context reaches `/bin/sh` only, while
  `cmd.Run` waits for every process that holds the pipe of its output.
* Hub: Run's goroutine and a Publish that has begun go on. Nothing makes a client
  publish.
* `services`: the goroutines of sinks, streams and pumps go on, a read pump whose
  connection is closed ends by its read deadline at the latest, net/http notices an SSE
  client that leaves, and time passes while the server drains. `ServicesSpec` conjoins
  the fairness each module states for itself; what it lets wait for ever is not enabled
  while another service is followed. Nothing makes a caller, a client, a pod or a
  database do anything.
* Projects and discovery: a request that has started goes on; a scanner has a time
  limit (`scanner.go:43-63`). Nothing makes a request come in.

## 4. The proofs

`tlapm` checks them from nothing; the leaves use Z3 and Zenon, temporal steps LS4.
**Every safety invariant, action property and refinement that a passing run checks is
also a theorem**, for all values of the constants that the named assumptions allow.
Those say that bounds are natural numbers (a limit or a threshold that the code keeps
positive is not zero), that sets the code counts are finite, and that a few names do not
clash; each stands in the module that declares the constant, and TLC evaluates it.
What a theorem supposes beyond them is told below.

The arguments are alike. A property speaks of the states in which nobody is between
two statements, so the invariant has to say what each process knows in between: that
the row it carries is still the row, that the entry in its hand precedes those in the
queue, that the address it will write was seen free. Each step then has a lemma, and
what a step leaves alone is told once, in a frame lemma of its module.

**PhysicalHostProofs.** `Typing`. `Consistency`, whatever states clients name:
`RowsConsistent` is not inductive, since a save
writes the row a process carries, so every carried row has to be consistent too
(`CarriedConsistent`).
`OvertakenOnly`: a fresh process carries a row that an atomic operation makes of the
current one, and every step that makes it otherwise takes it out of `fresh`. With one
request and no loop nobody is ever overtaken (`AloneInv`), so the specification implements
`AtomicSpec` (`AloneIsAtomic`); and if no fault strikes either (`MaxFaults = 0`), the audit
trail tells who is in maintenance (`AuditTrail`: a save that sets or clears the flag is
announced before anything else happens, `TrailInv`). `host_audit` shows that
two processes are enough to break that.

**PipelineRunProofs.** `PlanAssumption` says that each pipeline's plan is a finite list,
`RollingAssumption` that the size of a fleet and the surge are integers, of any sign; TLC
evaluates both for the pipelines of the runs. `Typing` needs that the goroutine is at a step of the
list while it is at a step at all. `NoOrphans`: where the goroutine is tells what
status the row can have, and it leaves only after a terminal write or a fault.
`SettledStay`: the goroutine is gone and a Cancel that loads a terminal row returns, so
nothing can leave that state. `RowsTold`: at each place of the goroutine, and of the event
it is recording, the rows of earlier steps are told, those of later ones untouched
(`Walked`); the status of the run is the goroutine's or a Cancel's (`StatusTold`); and
what excuses a row, a fault or a cancelled context, is never taken back (`RowsInv`).
`RolloutsCover`: the batches of a rolling
update cover the fleet once, in order, none larger than the surge, for every
size. `RollingPlan` is a recursive function, and what one computes is usually an
induction over data; here it is turned into a least counterexample: were the plan wrong
for some fleet, there would be a least number of instances still to go for which it is, and
the next batch leaves fewer. The model rounds in exact integers, where the code uses
float64 (`strategy.go`); they agree on the sizes that a float64 holds exactly.

**HubDispatchProofs.** `Typing`. `OwnChannel`: while clean, at most one Publish is between
its sends, the payloads pending (the one Run holds and those queued) are as many as
the names queued, plus the one still to be sent, and each meets its own name by
position. `Order`: sequence numbers increase along the queue and exceed the last one
delivered.

**ProjectTreeProofs.** First, of any table of projects: the line of a project is closed
upwards and least, it is one longer than its parent's, and it is the same in two tables
that agree on it; so creating under, moving to, or deleting a project keeps the
hierarchy where the checks hold *now* (`CreateKeeps`, `MoveKeeps`, `DeleteKeeps`). Second,
what a request that nobody has overtaken knows at each place of its walk (`Fact`): the walk
up has counted the rows it passed, the walk down a level at a time would still meet the
new parent if that lay below. `IInv` is the types and these facts. From it: `Typing`;
`OvertakenOnly`; `AloneIsAtomic` (for at most one request); and `HierarchyKept`, with the tree's shape
as long as all writes were fresh (`HInv`).

**DiscoveryProofs.** `Typing` needs that a promoter holds only listed hosts. `OneDevice`:
two promoters share only shaky hosts, and no unshaky host in hand is promoted, so whoever
builds one finds no device. `Deduplicated`: an address one run carries and another has
recorded was recorded after the first looked, hence while both were at work; two
runs at work have met. `RowsTell`: while a scan is at work its row says "running", and
the rows it has written and those in its hand are together what it found (`RowInv`).

**StreamsProofs**: what flows through queues and goroutines.
* BoundedSink: `SinkTyping`. `LateOnly`: a worker drains, and leaves, only once Close has
  begun, and it leaves an empty channel; so as soon as one has left, all that is in the
  channel came after (`LateInv`). `SinkKeeps` is the refinement of SinkPromise: numbers
  are given out in order, the channel increases, and what is in a hand is older
  (`OrderInv`); so a Take moves an entry from the channel's head to the last rank of the hands,
  which the promise does not see, a Write removes one that fewer than all workers'
  hands precede, and whatever moves neither keeps its fate.
* HubRegistry: `CapsHold` (the caps count finite sets). `RegistryFollows` speaks of a read pump
  between two messages; `RegInv` adds what the registry lacks or has too much while the
  pump is between a client's own set and the registry, and that a client Shutdown is
  about to remove is in the map no more.
* LogStream: `StreamKeepsLines`. A line in a hand is the next after those that are further on,
  while the goroutines it has yet to pass run (`StreamInv`).
* Alerts: `SuppressionIsTold`. A request carries a decision that a moment since its start justifies,
  and nothing has been sent before it (`Knows`).
* Server: `ServerKeepsGrace` (nothing but a hijacked connection is open when the drain has
  ended in time). Health: `ReportIsTrue` (the clusters answered and those yet to
  answer are all there were, unless a ping failed or time was up). PodCalls: `PodAnswersAreTrue`
  (rows fetched and pods to fetch are listed pods, each once; what is in the trail was emitted).

**TablesProofs**: what is looked up, decided and written.
* Clusters: `ClientsAreTold`. While an answer is kept or carried, the ghost `held` has what
  building a client would give now, and a request carries one of those or the
  error of its read; a row about to be saved keeps its id, so that names stay
  unique (`ClusterInv`).
* Devices: `RowsTyped`. `RowsKept`: a request in `current` carries the value its row still
  has, and its row is not deleted (`DeviceInv`), so its Save changes nothing it was not
  asked for.
* ServiceCatalog: `ShiftsAndGaugeTold`. The shifts that one about to be inserted has been checked
  against are there, and it overlaps none of them (`CatalogInv`).
* MetricsCache: `CacheAnswersAreFresh`. An entry expires a life after its measurement at the
  latest, and a request holds what was measured after it began or had not expired then.
* Login: `LoginsAreTold`. A bucket has no more failures than there were since it began, and
  with the logins under way stays below the limit plus all logins; the role of a token is
  its person's, or was lost after the token was issued (`LoginInv`). `RanksKeep` is about
  the matrix alone, for every set of roles.
* LogStore: `SearchesFindLines`. A fresh scan has all lines older than itself that it can
  reach, and a search remembers no more lines than it will find (`LinesInv`); when
  the default is about to be written, it has been so no more often than a second lookup
  failed that should not have (`RetentionInv`).
* ProjectAccess: `OnlyMembersLink`. A request remembers what it was entitled to at the moments
  it looked; the row of a pair, once there, stays, so that success is still true (`AccessInv`).
* Listings: `PagesLeaveNothingOut`. Unless something came in late or the projects shrank, a row
  that was there at the start has been seen or ranks behind the pages read so far; rows
  that come in only push ranks up (`WalkTold`).

**ServicesProofs.** Each group of moves of MCServices is a step of its service and a stutter
of the others, hence `ServicesFollowTheirSpecs`; the theorems above then give
`ServicesTyped`, `SocketsAreTold`, `AccessIsTold`, `CatalogIsTold`, `CachesAreTold` and
`ProcessIsTold`. The remaining properties of the run are theorems of the modules
themselves (`SinkKeeps`, `LateOnly`, `SuppressionIsTold`, `RowsKept`).

**Only model-checked.** Liveness under fairness is beyond this prover:
`DownHostsGoOffline`, `UpHostsComeOnline`, `CancelledRunsEnd`, `AcceptedLeave`,
`DrainReturns`, `RequestsEnd`, `RunsClose`, `ServicesSettle`. So are the four
violations, which are counterexamples.

Proving changed the model where it could not be reasoned about or was true only within
TLC's bounds. The deletion of a shift now also takes its id out of what later shifts say
they have checked (`Forgets`): an id used again, which the bounds did not reach, made
`ShiftsTold` false of a race that never was. The bulk link of ProjectAccess keeps its
list without repetitions apart from the rows it makes. Depth and the order of entries in hand are
defined without recursion.

## 5. What is not modelled

* *Observability*: collectors and span export. *Metrics*: series, each one SELECT, and the
  scraper, which nothing calls. *Frontend and charts*: a client of the API and static
  configuration. None has state that decides anything.
* *Alert rules and their DSL*: a parser and rows that `main.go` wires to no route and no
  evaluator. *TLS and configuration*: read once, before anything runs. *The Loki and
  Elasticsearch backends*: one HTTP query each, nothing kept.
* *The bridges of* `ws/realtime`: wired to a publisher that does nothing.
* Of what is modelled: queries, the lists of other tables, formatting, columns that no decision reads,
  code that nothing calls (`MetricsCache.Invalidate`, `OrphanByDevice`, discovery's
  `DeleteRun`), requests whose input does not validate, and the test doubles, except
  the log client and the directory that `main.go` itself falls back to.
* The apiserver, client-go, GORM, net/http, LDAP and the shell are external: modelled
  by the outcomes the code has a branch for.

## 6. Noticed on the way

No run states these: most lie outside the modules, and where a module has one, its
properties name it as the exception.

*Rows.* All repositories' `Update` look for the row and then upsert it, so a Delete in
between is undone (modelled for hosts, clusters and devices); for groups and templates
the NotFound of that look is never reached. `ExitMaintenance` does not reset the
failure counter: the first failed probe may count as the third. The comments of
`monitor.go:120` and `:139-142` and of `maintenance.go:49-50` say that the probe still runs
during maintenance and the counter may grow; `Check` returns before it pings, and only
the times of the last and next check change. HostLifecycle, and with it `AtomicSpec`, says
what the code does. A PUT or POST may set a state without
the flag (`handler.go:180-186`, `:339-341`): a host that is "maintenance" by name alone is
probed, but no branch of `monitor.go:170-180` takes it offline, so that it stays as it is
however long it is down. Unique names count soft-deleted rows (clusters, services, members,
links): assigning a member again after revoking, or linking again in bulk, reports
success and does nothing. The group and the template a device names are never
checked. `DeleteOnCall` and `DeleteRunbook` delete by id, whatever the service.
Channels are always created enabled (`default:true` replaces false); updating one that
was deleted meanwhile dereferences nil.

*Pipelines.* `executor.go:197-198` says that cancellation kills the process; the kill reaches
`/bin/sh` alone (`:269-273`), and as the output is a buffer and no `WaitDelay` is set,
`cmd.Run` waits for every child that still holds the pipe: a cancelled run's goroutine
need not end, although its row says cancelled. A cancelled run may end "failed" when the
killed shell reports an exit status first. Two steps of one name share a step row. `primeStepOrder` locks
`stepRunCacheMu`, `ensureStepRun` reads `stepOrderCache` under `stepOrderCacheMu`.
`stepRunCache` is never emptied.

*Hub and streams.* After one drop or overlap the hub delivers each later payload under
another's channel name. `channel.go` says slow clients are reaped when their queue
overflows; nothing does that. The backpressure sink counts what is pushed and never
what leaves. The context of a WebSocket log stream is not cancelled when its client
leaves. `Hub.Shutdown` and the sinks' `Close` are not called from `main.go`, and pipeline
goroutines are not waited for. Emit after Close panics in its caller.

*Alerts.* `models.go` calls a resolved alert terminal; Acknowledge overwrites it.

*Clusters and pods.* `registry.go` says a kubeconfig is decrypted at most once; two
requests that miss at a time both decrypt it. Any error of the row's read is kept as the
cluster's answer (`registry.go:116-120`), "not found" as well as one failed query. Nothing
ever drops an entry, so that a client outlives its cluster's new kubeconfig, and its
deletion, until the process ends.
`main.go` gives the service a fake client, so that every probe says connected, and lists
the clusters of the catalog once, at the start. The rollup hands the id of a service to
a source that matches names of deployments. The doc of log queries promises lines
interleaved by time; they come pod by pod. An exec that times out may have run and is
not in the audit trail; one that is answered is handed to it, but the emitter drops what
its buffer does not take (`emitter.go:138-160`) and ignores a failed insert (`:63`).

*Access.* The device lookup of host links is never wired, so link and bulk link answer
500 in `main.go`'s process. `CheckProjectAccess` guards no route; `User.ProjectRole` is never
filled. `contracts/user.go:6` says a higher role has all permissions of a lower one:
Developer has not the `audit.view` of Auditor; and ScopedAuditor, whose rank is -1, is
never given. `audit.view.project` is missing from `allPermissions`. `audit/repository.go:129` takes
`json_extract` for a function of Postgres, too, where the list of a member fails. The real LDAP client of
this build lets nobody in.

*Logs.* `main.go` builds two local backends, one for streams and one for searches, so
that streamed lines are never found; it creates no tables for retention, filters and
rules. `NewHandlerWithExtra` leaves its local backend nil, so that Echo answers 400; a query with `to`
alone is refused. The default retention can overwrite an operator's policy: by a race,
once, and whenever the second lookup fails, as `extra.go:233-242` takes any error for a
missing row. A line of a megabyte or more ends the scan of its file without an error
(`local.go:203-214` does not ask the scanner for one), and hides the lines after it.

*Health and server.* The Checker is wired nowhere (`/health` is a constant). Its doc says
"timeout, never down"; clusters that time out are "down". Physical-host tables that
cannot be made give alerts a nil maintenance service. `Shutdown` (`main.go:252`) does not
wait for hijacked connections, so that a clean exit cuts off the WebSockets of the hub and
of log streams, which nothing else closes. The tracer is shut down as soon
as the router is built.

*Discovery.* The comment on `CIDRRange` says a /31 or /32 is returned as it is; none of
its addresses is. A scan that fails half way keeps the hosts it has recorded, hidden
from later scans, in a run that counts none of them.
