# A TLA+ model of pnos-runtime

pnos-runtime is the control plane of a NAS: it installs applications, runs them
as child processes ("agents"), restarts them when they crash, keeps a registry
of the components that announce themselves, pushes events to WebSocket clients
and serves an HTTP API behind an overload gate. Everything it knows is in memory,
behind `tokio` locks that are released at every await, so what is hard in it are
the interleavings between the critical sections of long asynchronous calls and
what a call leaves behind when it fails or is dropped half way.

Source references are relative to the Rust sources (`src/src/`).

## 1. The system and its parts

| part | state | operations | used by / uses |
|---|---|---|---|
| agent supervisor, `agent/mod.rs`, `agent/health.rs`, `api/agents.rs` | `agents`: id → handle (status, child, crash_count, healthy, health_failures) behind one RwLock; the child processes | register, unregister, start (2 sections around a spawn), stop (2 sections around a bounded wait), restart, monitor_tick (crash detection, back-off and restart, health probes) | called by the API, by its own monitor task, by the installer |
| installer, `install/mod.rs`, `api/store.rs` | `installed`: id → record; `progress`; the blue and the green directory of each application | install (trial run, then for good), upgrade (blue/green with rollback), uninstall, start, stop, list | calls the supervisor; waits for the `healthy` flag its monitor writes |
| overload gate, `rate_limit.rs`, `metrics.rs:212-226`, layered in `main.rs:130-138` | semaphore, token bucket, in-flight gauge | concurrency limit → timeout → token bucket → metrics → handler | every API request; its timeout drops handlers at an await |
| component registry, `registry.rs`, `api/apps.rs` | id → component (status, last heartbeat, token) behind one RwLock | register, unregister, heartbeat; heartbeat checker task | publishes on the event bus; read by the health probe, the proxy and the WebSocket handshake |
| event bus, `ws.rs` | one broadcast channel of bounded capacity; per connection a receiver and a set of subscriptions | publish, connect, subscribe, unsubscribe, forward | reader task and forwarder task per connection |
| store catalogue, `service/store.rs`, `main.rs:109-123` | id → manifest behind one RwLock; the file `store-cache.json` | refresh, look up, load the cache at the start | the API and one task at the start refresh it; the legacy manager takes manifests from it |
| legacy app manager, `app_manager.rs`, `api/apps.rs` | its own table of processes; a binary per application | install, start, stop | deprecated `/apps/:id/...` |
| metrics, `metrics.rs` | histograms, counters | record, snapshot | all |
| system monitor, `service/monitor.rs` | one snapshot | sample every interval | API, event bus |
| shutdown, `shutdown.rs` | one watch channel | subscribe, trigger | the three background loops |
| configuration, proxy, download mirror, working directories | none that changes | – | – |

What makes each part correct, and where it is hard:

- **Supervisor.** No process is lost or owned twice; status and child agree; a
  stop that was answered holds; a crash is noticed and healed; a live process is
  never the victim of crash handling; the health flag is about the process that
  runs. Hard: `start`, `stop` and `mark_crash` each write the handle in a section
  that does not know what happened since their first one; requests are dropped
  at awaits; spawns fail.
- **Installer.** When nobody works on an application, the record, the registered
  configuration, the process and the files agree, whatever failed before; failed
  installs leave nothing; the files of the recorded version are kept; a failed
  upgrade rolls back. Hard: twenty awaits in a row, each of which can fail or be
  dropped, and no lock per application.
- **Gate.** The rate is bounded in every window, permits are never lost, the
  gauge does not wrap. Hard: requests end in five different ways.
- **Registry and bus.** A silence is announced once and always, events tell who
  is registered, a subscriber misses nothing silently, publishing never blocks.
  Hard: events are published after the lock is released; clients are slow.

- **Store catalogue.** A refresh whose fetches fail loses nothing that was known; the
  catalogue survives a restart. Hard: refreshes overlap, each replaces the whole
  catalogue, the file is emptied and then written outside the lock.
- **Legacy manager.** No process is lost, no incomplete binary is run. Hard: a child
  is spawned before it is in the table, and without `kill_on_drop`; the binary is
  written in place; the runtime may be killed at any point.
- **Figures.** A percentile and a page are what their names say for every input.

The list of hazards, each at its line with the properties that cover it, is in
`PROJECT.json` under `hazards`.

## 2. Modules

| module | models |
|---|---|
| `AgentManager` | the supervisor: table, processes, calls in progress, the monitor task, the operating system |
| `ChildOwnership` | abstract: whose the child processes are; `AgentManager` implements it |
| `AgentHistory` | the same as `AgentManager` with four history variables (crashes in a row; answered stops; agents left half way by a failed or dropped call; agents at which a request has met the monitor), for properties one state does not show |
| `InstallService` | the installer; EXTENDS `AgentManager` and composes with it: a flow is the same task as the calls it awaits |
| `BlueGreen` | abstract: what a blue/green deployment promises; `InstallService` implements it |
| `ApiGate` | the middleware stack a request passes |
| `Registry` | the registry, its API, the heartbeat checker, the event bus and WebSocket connections |
| `LossyFeed` | abstract: what a bounded broadcast promises to its readers; `Registry` implements it |
| `StoreCatalogue` | the store catalogue, its source, its cache file, restarts |
| `AppManager` | the legacy manager; EXTENDS `StoreCatalogue`, whose manifests its requests look up and with which it restarts |
| `Figures` | sample ring, percentiles and pages as functions of their input |
| `MC...` | the instances for TLC: concrete versions, ports, patterns, deployed initial states, symmetry, assumptions on the sizes |
| `AgentManagerProofs`, `AgentHistoryProofs`, `InstallProofs`, `ApiGateProofs`, `RegistryProofs`, `StoreProofs`, `AppManagerProofs`, `FiguresProofs` | theorems |

### AgentManager

One action is one critical section of the RwLock, or one step between two.

| code | model |
|---|---|
| `AgentHandle` | `agents[id]`, a record or `None`; configurations are opaque |
| `tokio::process::Child` | the slot of `procs` it owns; a slot is `alive`, `killed` (SIGKILL sent) or `exited` (not reaped). Dropping a Child kills its process (`kill_on_drop`), so the step that drops an owner empties the slot (`Dropping`) |
| a call of start, stop, restart in progress | the frame `call[t]`: position, id, the configuration it copied, the Child it holds |
| `start` | `StartSection` (168-180), `Spawn` (182-209), `StartCommit` (211-222) |
| `stop` | `StopSection` (225-254, with `start_kill`), `StopReaped` / `StopTimeout` (257-264), `StopCommit` (268-276) |
| `restart` | `ApiRestart`, `RestartStop`, `RestartStart` (279-286) |
| `monitor_tick` | `MonTick` (collect ids), `MonCheck`, `MarkCrash`, `MonCount`, `MonRestart`, `MonRestarted` per id, `MonSelect`, `MonProbe`, `MonUpdate` per id, `MonNextPhase` |
| a dropped request | `DropRequest`: at an await, with the Child it holds. There is no await between section 1 of start and the end of the spawn |

Abstractions: time is not modelled (the 5 s before the first probe, the back-off
and the stop's timeout are nondeterministic); a probe may always fail and
succeeds only if some process of the id serves; `crash_count` saturates at 5,
which nothing reads beyond. `reset_crash_count` is never called and left out.

`ChildOwnership` knows nothing of statuses, requests and the monitor: a process is
carried by a call or kept in the table under an id.

| `ChildOwnership` | implemented by |
|---|---|
| `kept`, `carried`, `born` | `Table`, `Frames`, `Born`: the children of the handles, of the calls in progress, and the ids the processes were started for |
| `Spawn` | the spawn of start |
| `Keep`, `Take` | section 2 of start (`StartCommit`), section 1 of stop (`StopSection`) |
| `DropKept` | registrations, section 2 of stop, `MarkCrash` |
| `DropCarried` | `StopReaped`, `DropRequest`, a start whose agent is gone |

### InstallService

`flow[t]` is the position of an install, upgrade or uninstall, `call[t]` that of
the start or stop it awaits; a flow advances only while its call is idle. Every
await of the source is a position. A directory is the version that is completely
unpacked in it, or `None`; a disk operation that fails leaves the directory as it was
or incomplete (`FillPartly`). Unpacking (`spawn_blocking`, 490) and `remove_dir_all` run
in a thread that goes on when their request is dropped: `DropFlow` leaves the flow at
`clearing`, `unpacking` or `removing`, without a call and without anybody who waits for
it, and `OrphanWrites` is what the thread still does, at any later time, whatever
directory it then meets. The thread has opened its archive before another request can
put its own in the place, so it unpacks what it was asked to. `create_dir_all` of install
keeps what an earlier attempt left. `PortOf[v] = 0` asks `allocate_port` for a
port. An upgrade carries a copy of the record it began with, as the source does
(276), and clears the color that copy does not name. Only the installer registers
agents; the agent API starts, stops and restarts them concurrently. The data
directory, checksums and byte counts of the progress are left out.

`BlueGreen` knows slots, the active version and removals under way:

| `BlueGreen` | implemented by |
|---|---|
| `slots` | `dirs`, what is completely unpacked in each color |
| `active` | the color and version of `installed[id]` |
| `removing` | ids with an uninstall in progress |
| `Prepare` | every write to a directory by install and upgrade, failed ones included, and by the threads of dropped ones (`OrphanWrites`) |
| `Switch` | `InstallRecord`, `UpgradeRecord` |
| `BeginRemoval`, `Dismantle`, `Forget` | `UninstallBegin`; `UninstallRemove`, its failures and its thread; `UninstallForget` |

### ApiGate

From the outside in: `Acquire` (a refused `try_acquire` changes nothing),
`TakeToken` with the refill in the same section of the mutex, `Enter`/`Finish`
around the handler, `Timeout`, `Leave`, `Disconnect`. Tokens are integers in
units of which a request costs `One`; the `f64` arithmetic is exact here.
`spent`/`budget` record what passed in a window opened at any moment.

### Registry

A section of the registry's lock and the publication of its event are two steps,
because another thread may run between them. `last_heartbeat` is `fresh` or not.
The checker marks in one section and then publishes one by one. A connection has
a reader (subscriptions) and a forwarder (receiver position, event in hand); a
failed send, of an event or of a Pong, ends the forwarder and not the reader (`deaf`). A receiver that is
overrun continues at the oldest event retained. Patterns are names with the set of
kinds they match (`Matches`), which stands for the prefix comparison.

`LossyFeed` has a list of events and, per reader, the last one it is done with. A
connection reads from `Join` on; its position is one before the event in hand.
`Forward` is `Deliver`, `Lag` is `Skip`, and the death of the forwarder or the end of
the connection is `Leave`. Publications are `Send`, whoever makes them.

### StoreCatalogue

A manifest is the number of its publication, 0 stands for none.

| code | model |
|---|---|
| `refresh_source` (86-162) | the position `refresh[t]` with the index it got, the ids still to fetch, the fallback `previous` and what it found |
| `reqwest::get(url)` and the index | `IndexAnswers`, `IndexFails`; `previous` is copied at that moment (115), not at the begin. An index without `apps` is read as an empty list (111): everything is delisted |
| `fetch_app_manifest` per id | `FetchAnswers` with what the source has by then, `FetchFails` with the fallback (128-138). The order of the ids is left open |
| `*guard = apps.clone()` (144) | `Replace` |
| `save_cache`: `std::fs::write` | `CacheOpen` empties the file, `CacheWrite` fills it; another task may run in between on another thread, and a failure is only logged |
| `StoreService::new`, `load_cache` | `StoreRestart` at any moment; an unreadable file is an empty catalogue |
| the task at the start (`main.rs:109-123`) | the task `Boot`, refreshing from `StoreInit` and every `StoreRestart` on |
| the source | external: `Publish`, `Delist` |

`unsaved` is a history variable: the last save failed or overlapped with another.

### AppManager

| code | model |
|---|---|
| `install` (43-165) | `Mkdir` (with the test for the binary), `DownloadFails`, `CreateBinary` / `WriteBinary` (the two halves of `tokio::fs::write`), `Chmod` |
| `start` (168-219) | `SpawnFails`, `SpawnApp`, `Insert` under the lock |
| `stop` (222-230) | `Kill`, `Reap`; the lock is held from the one to the other (`Unlocked`) |
| look-ups of the API (`api/apps.rs:181-269`) | `AcceptInstall`, `AcceptStart` need a manifest, `AcceptStop` does not |
| a dropped request | `DropAppRequest`: a write handed to a blocking thread goes on without it (`gone`), and the Child it holds is dropped without being killed |
| the runtime is killed | `Restart`: tables and requests are lost, the processes run on, files stay as they are |

A file is `absent`, `partial` or `whole`, with an executable bit; the system does not
run what has none, and does not open the text of a running process for writing. The bit
is set under `cfg(unix)` only (`app_manager.rs:150`): the model, and with it
`OnlyWholeBinariesRun`, is about the builds for Linux and other Unix systems.
Checksum and archive are part of the download, which is complete in memory before
anything is written. `doubled` and `rewritten` are history variables that name the
exceptions of the two properties.

### Figures

Functions without state: `RecordSample` (`metrics.rs:41-54`), `Percentile`
(`metrics.rs:56-66`) for the four quantiles of `get_metrics`, `PageItems`
(`api/apps.rs:115-136`) with the product modulo `Word`. A `f64` product and the exact
one have the same ceiling for each of the four quantiles and every length up to
`SAMPLE_CAP`.

## 3. Runs

| run | instance | checks |
|---|---|---|
| `agent_races` | 1 agent, 2 requests, monitor, 4 processes; failed spawns, exits, drops | `TypeOK`, `OneOwner`, `ChildIffRunning`, `RefinesOwnership` |
| `agent_requests` | 1 agent, 1 request at a time, monitor; failed spawns, exits, drops; fairness | `StopHolds`, `TransientInFlight`, `HealthIsOfTheProcess`, `MonitorSparesUndisturbed`, `CrashNoticed`, `CallsReturn` |
| `agent_selfheal` | 2 deployed agents, the monitor alone, fairness | `CrashRestarted` |
| `install_serial` | 1 application, 2 versions, 1 request at a time; failures of spawn, disk, network; fairness | `InstallTypeOK`, `ServesRecorded`, `NothingLeftBehind`, `RecordedFilesKept`, `LiveDirUntouched`, `UpgradeRollsBack`, `FlowsEnd` |
| `install_refines` | the same with dropped requests | `Spec` of `AgentManager`, `RefinesBlueGreen` |
| `gate` | 3 requests, 2 permits, a bucket of 2.5 requests, half a request per tick | `GateTypeOK`, `WindowBounded`, `PermitsConserved`, `GaugeNotBelow`, `CapacityReturns`; and, evaluated as assumptions of `MCApiGate`, the statements about `Figures` (every ring length up to 4096, short lists under a word of 16) |
| `registry` | 1 component, 2 requests, 1 client, a channel of 2 events, 2 refreshes | `RegistryTypeOK`, `OfflineOncePerSilence`, `PresenceAgrees`, `SubscriberMissesNothing`, `SilenceNoticed`, `ChangesAnnounced`, `RefinesLossyFeed` |
| `runtime` | 1 application of the store, published twice, 2 requests and the refresh at the start, at most 2 of them at a time, 2 processes; failures of disk and network, drops, exits, restarts | `AppTypeOK`, `NoStrayProcess`, `OnlyWholeBinariesRun`, `RefreshKeepsListed`, `RestartKeepsCatalogue` |

Four runs show that a statement of the repository is not what the code does:

| run | statement | what happens |
|---|---|---|
| `agent_crash_loop` | "连续崩溃超过 5 次，标记为 Error" (`agent/mod.rs:334`) | the restart after a crash resets `crash_count` (216): the loop never ends, the back-off never grows (known to `docs/architecture/hardening.md` as F-12) |
| `install_stale_health` | "7. 健康检查", "等待健康检查通过" (`install/mod.rs:329,558`) | the monitor probes the old version, which answers; the upgrade stops and unregisters it and registers the new version; only then is the answer recorded (`agent/mod.rs:482`), on the new handle; start keeps the flag, the wait for health returns at once, and a version is recorded whose process has answered no probe |
| `install_rollback` | "新版本健康检查失败，回滚 … 已回滚" (`install/mod.rs:332,343`) | the new version crashes, the monitor marks it Stopped, `stop(&id).await?` (333) returns an error and the upgrade ends without rolling back |
| `install_orphan` | "确定目标颜色（非激活颜色）" (`install/mod.rs:283`) | requests one after the other: the unpack of an upgrade that was dropped goes on in its thread (490) and writes into the directory that the next upgrade has made active |

**Bounds and why they are enough.** Agents do not interact but through the
monitor, which walks them one by one; two agents are used where that matters
(`agent_selfheal`). Two requests and the monitor put three calls between their
sections at once, which is every pair of section 1 and section 2 of start and
stop on one agent. The number of process slots is at least one per agent and one
per task (asserted in `MCAgentManager` as `SlotsSuffice`), so no behaviour is
lost for want of a slot. Two versions are enough to install, upgrade and roll
back, again and again, as the flows do not count. In `gate`, `MaxBudget` bounds
the ticks of a window and `MaxInFlight` the arrivals once the gauge has leaked that
far; the window opens again at any moment, so the bucket is seen full, empty and in
between. In `registry`, `MaxRefreshes` bounds registrations and heartbeats per id;
with two a component falls silent, comes back, leaves or registers again, up to
six events are published and the channel of two is overrun. Three refreshes pass as
well, in some minutes. `CHECK_DEADLOCK FALSE` appears only there: once the
refreshes are used up and the client stays away, nothing is left to do.
In `runtime`, `MaxVersion` bounds what the source publishes: with two a manifest can be
fetched, replaced and brought back by an older refresh. `MaxBusy` bounds the tasks in
progress to two, which is every pair of refresh, install, start and stop, in every pair
of positions; the two slots for processes are what a double start needs
(asserted as `RoomForADouble`), and a start waits for a slot. One application is enough
for what happens to one; that two ids of a catalogue do not disturb each other is left
to the proofs, which hold for any set of them.
`install_orphan` allows one request at a time, besides the threads of dropped ones
(`OneByOne`), so that what it finds is a retry after a timeout. With two upgrades at once
(`DeployedSpec`) the second one, begun before the first has recorded its version, clears
the directory that is active by then, which takes no drop.
Symmetry is used only in runs without liveness properties.

**Fairness.** tokio polls every ready task, so a call in progress goes on
(`CallStep`, `FlowStep`, `PublishJob`); the interval of the monitor and of the
heartbeat checker fire again and again; a process that got SIGKILL exits; the
timer of the request timeout fires. Nothing is assumed of what the environment
decides: that a process exits or becomes ready, a request arrives or is dropped, a
handler returns, a client reads.

**Conditions.** A failed spawn, or a start dropped at its second section, leaves the
agent `Starting`, which start, stop and the monitor all refuse to touch.
`TransientInFlight` names exactly these agents (`stranded`) and holds of all others;
`CrashRestarted` needs that there are none, so its run has no failed spawns and drops.
`HealthIsOfTheProcess` and `MonitorSparesUndisturbed` speak of the agents that are not
`disturbed`: where a request has met the monitor, `mark_crash` (433) drops
whatever child it finds, and a probe's answer outlives its process. An agent is
disturbed by a request until it is calm again (no call on it, the monitor elsewhere,
not reported healthy), so both properties apply again and again. `StopHolds` speaks of
stops that were answered while no other call and no restart by the monitor was in
progress on the agent. `ServesRecorded`, `NothingLeftBehind`, `LiveDirUntouched` and
`UpgradeRollsBack` are checked for one request at a time, without crashes and without
dropped requests. `ServesRecorded` says what is registered and which configuration
runs, not that something runs: a failed rollback leaves nothing running, and a client
may have stopped the agent. Each of these three conditions is needed: with crashes, with drops,
or with two requests for the same application, TLC finds each of the four violated.
`install_rollback` and `install_orphan` show two of the ways, the hazards name others. `RefreshKeepsListed` speaks
of a refresh during which no other one has changed the catalogue, `RestartKeepsCatalogue`
of a kill outside of any save whose last one succeeded alone: overlapping refreshes can
put back a manifest that was replaced, overlapping saves leave the file of either or of
neither. `NoStrayProcess` excepts applications started over a running process, started
by a request dropped at its last await, or left by a killed runtime;
`OnlyWholeBinariesRun` excepts binaries that two installs wrote one over the other.
Each of these exceptions happens in the model.

## 4. Proofs

All theorems hold for every value of the constants that satisfies the named
assumptions (`ConstantsAssumption`, `NoneAssumption`, `InstallAssumption`,
`GateAssumption`, `RegistryAssumption`, `StoreAssumption`, `AppManagerAssumption`,
`NoProcessAssumption`, `FiguresAssumption`).

- `TypeCorrect`: `Spec => []TypeOK`. `TypeOK` contains `FrameOK` (which position of
  a call needs which field), without which it is not inductive. One lemma for
  each group of actions; the sections that start and stop share with the monitor
  and the installer have lemmas of their own.
- `ChildMatchesStatus` (`ChildIffRunning`) is inductive by itself: every section that
  writes a handle writes status and child together.
- `EveryProcessOwned` (`OneOwner`): each step is shown to be one of a few moves
  of children between the table, the frames and the processes (`StepMoves`), and
  each kind of move keeps the ownership one to one.
- `SupervisorRefinesOwnership` (`RefinesOwnership`): every step of the supervisor is one
  of `ChildOwnership` or none. Its invariant, `OwnershipInv`, adds to `OneOwner` that a
  frame holds a process of the agent its call is about (`FramesBranded`).
- `TransientsBelongToCalls` (`TransientInFlight`), of `HistorySpec`: the call that put an
  agent in a transient status is still between its sections, or ended there with
  an error and the agent is `stranded`. It holds with failed spawns and drops.
- `AnsweredStopHolds` (`StopHolds`), for a stop that was answered while no other call and
  no restart by the monitor was in progress on the agent: `HaltedInv` says of a halted agent that it is Stopped
  or gone, that no call is about it and the monitor is not restarting it; that it has
  no process then follows from the ownership. The monitor may well come to it, from
  its list of ids or with a probe: neither brings an agent back. A restart it has begun
  does, which is why such a stop is excepted.
- `HealthIsCurrent` (`HealthIsOfTheProcess`) and `CrashHandlingSparesLive`
  (`MonitorSparesUndisturbed`) rest on `Guarded`, for every agent that is not disturbed:
  the flag is of the process it runs now, the probe the monitor has sent and the
  crash it has seen are of this process too, and the only call on it is the
  monitor's own start. The property alone is not inductive because the answer is
  written, and the child dropped, in a later section than the one that looked.
- `InstallerRefinesSupervisor`: `InstallSpec => Spec`. Every step of the installer
  is a step or a stutter of the supervisor. The invariant `FlowInv`
  says that a flow that registers carries a configuration to register. With it
  `InstallerKeepsOwners` and every other safety theorem of the supervisor hold of
  the composed system, dropped flows included: the thread of one has no call and no
  Child.
- `InstallTypeCorrect` (`InstallTypeOK`), `InstallerIsBlueGreen` (`RefinesBlueGreen`) and
  `FilesAreKept` (`RecordedFilesKept`). The first holds without conditions; the
  two others under `[]FlowsApart`: no two flows work on the same application, the thread
  that a dropped one has left at work on the disk counted as the flow it was. Without it
  they are false (`install_orphan`, and two upgrades at once). The code does not guarantee
  it: it is what a client has to wait for, and after a timeout cannot see. Drops, crashes
  and failures, flows of other applications, and any start, stop or restart of the same
  one are allowed. They rest on `Matched`: an upgrade's copy of the record is still the
  record, its target is the color that copy does not name, an install has no record to
  disturb, and what a flow has unpacked is there.
- `RecordedVersionServed` (`ServesRecorded`: whatever agent is registered has the recorded
  version and directory, its processes run that configuration, nothing runs
  unregistered), `FailedInstallLeavesNothing`
  (`NothingLeftBehind`), `LiveDirectoriesUntouched` (`LiveDirUntouched`) and
  `FailedUpgradeRollsBack` (`UpgradeRollsBack`), for any number of applications and
  callers, under `Uneventful` (no process exits by itself, no request is dropped) and
  `[]Exclusive` (while a flow works on an application, no other request does; starts and
  stops may overlap each other). `Served` is the invariant, put together from
  - `NoOrphans`: as no request is dropped, no thread is left behind by one;
  - `Staged`: at each position of a flow what the handle and the record are, and
    that a call it awaits is the start or the stop this position made;
  - `Resting`: an application without a flow has a handle as recorded, or none;
  - `Starting`: a start in progress carries the configuration its handle has;
  - `RunsItsConfig`: a process has the configuration of the handle it is the child of,
    which needs `Starting` at section 2 of start;
  - `Undying`: every child is alive and the monitor marks no crash, so that nothing but
    the flow moves the handle it works on, and a stop awaited by a flow succeeds.

  A process that is not reaped is the child of its handle or in the frame of a caller
  (`ServedProcess`, from `OwnershipInv`), which is how what is known of the table
  becomes knowledge about everything that runs.
- `GateInvariant`: the inductive invariant of the gate. `WindowBounded` alone is
  not inductive: it needs that `spent` and what the bucket could give right now
  together stay within `budget` (`WindowInv`). From it `RateIsLimited`,
  `PermitsAreConserved`, `GaugeIsUpperBound`; `GateTypeCorrect` is its first part.
- `RegistryTypeCorrect`, `NothingMissed` (`SubscriberMissesNothing`) and
  `BusImplementsFeed` (`RefinesLossyFeed`) rest on `Connected`: a receiver is never
  ahead of the bus, the event in hand is the one before its position, and `upto` has
  reached all that was taken while `whole`. `SilenceAnnouncedOnce`
  (`OfflineOncePerSilence`) and `EventsTellPresence` (`PresenceAgrees`) need `Announced`
  and `Agreed`, which count the events still to be published with those on the log:
  neither property is inductive while a publication is on its way.
- `StoreTypeCorrect`, `RefreshLosesNothing` (`RefreshKeepsListed`, for refreshes that none
  has overtaken): by `Covered`, each
  id listed is still to be fetched or was found no older than `previous`, which
  needs that `previous` and the catalogue never run ahead of the source.
  `CatalogueSurvives` (`RestartKeepsCatalogue`): by `SaveInv`, when nobody saves and the
  last save was good, the file holds the catalogue. It follows who is `alone`
  through the overlap of two saves.
- `RuntimeImplementsStore`: the composition of both takes steps of the store or
  stutters, so `RuntimeKeepsCatalogue` follows. `AppTypeCorrect`, `ProcessesAreManaged`
  (`NoStrayProcess`) and `WholeBinariesRun` (`OnlyWholeBinariesRun`) come from one
  invariant, `RuntimeInv`: a child is held once, a binary that is not complete is not
  executable unless it was rewritten, and a request about to set the permission has
  completed the binary it sets it on.
- `RingHoldsLatest`, `PercentileCovers`, `PercentilesOrdered`, `PagesPartition`: about
  `Figures`, for every ring, list and parameter.

Only model-checked: all liveness properties (`CrashNoticed`, `CallsReturn`,
`CrashRestarted`, `FlowsEnd`, `CapacityReturns`, `SilenceNoticed`, `ChangesAnnounced`):
fairness and ENABLED are beyond the prover. Every safety property of a passing run is a
theorem. What the code does not keep, `CrashLoopReachesError` and `RecordsOnlyHealthy`,
occurs only in the runs that show it; `HealthIsOfTheProcess` is the form of the latter
that holds.

## 5. Not modelled, and why

- **The queue of Pong answers** between a connection's reader and its forwarder: 32
  entries; a reader that waits for room waits for a client that does not read. That a
  Pong may fail to be sent, which ends the forwarder (`ws.rs:116-121`), is in `SendFails`.
- **Restart of the installer and the supervisor.** Nothing of theirs is persisted, so a
  restart is their initial state over the directories that are there; no text
  promises more. `StoreCatalogue` and `AppManager` model the restart.
- **Shutdown** (`shutdown.rs`). One flag that main sets before it waits 300 ms and exits;
  only Ctrl+C sets it, not SIGTERM, in spite of the comment at `main.rs:188`. Loops
  leave at their boundary. A receiver handed out before `init` fires at once,
  because its sender is gone, where the comment at `shutdown.rs:18` says never; main
  calls `init` first, so only tests could see it.
- **System monitor.** One task overwrites one snapshot. Its interval, unlike those of
  `config.rs`, may be configured as 0, which `tokio::time::interval` refuses by a panic.
- **Metrics** but the ring, the percentiles and the gauge: counters, ages, output. An
  unmatched path is a key of its own in the map of endpoints, which nothing bounds.
- **Real time**: timeouts, intervals and back-offs are choices. `reqwest::get` of the
  store has no timeout; that a refresh may never end is a behaviour of the model.
- **The pipes of the legacy manager** (`app_manager.rs:185`): nobody reads them, so an
  application that writes much waits for ever. No state of the runtime shows it.
- Configuration, routing, proxy, download mirror and working directories keep
  no state: a check of them would be a check of string handling.

## 6. Plan

Done, in this order: the supervisor with its history and theorems; the installer as a
composition, with both refinements; the gate; registry and bus with their
abstract feed; store catalogue and legacy manager with restarts; the figures.

Left, in the order of what it would add:

1. An abstract specification of a managed application (absent, installed, running which
   version) that the composition implements where `Served` holds.
2. The ownership of the legacy manager's processes as an instance of the same abstract
   specification as the supervisor's.
3. The Pong queue of a connection.
