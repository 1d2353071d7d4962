# ClawSQL in TLA+

ClawSQL operates MySQL clusters. It reads topologies from Orchestrator, keeps ProxySQL's routing in line with
them, runs switchovers and failovers, recovers old primaries, provisions clusters from templates, answers questions
with a language model that may call its tools, and deploys its own platform of containers. This directory
holds TLA+ models of its control logic, the TLC configurations that check them on small instances, and proofs
checked by TLAPS that hold for every instance. Paths are relative to the repository root: `src/` is the
implementation (`src/core/...` below; `PROJECT.json` spells it `src/src/...`), `docs/` the documentation.

## The system and its parts

Two programs share the code: the API server (`src/app.ts`, one long-lived process) and the CLI
(`src/cli/...`, one command after the other). Both are single-threaded: between two `await`s nothing interleaves,
at an `await` everything else may run. They talk to Orchestrator (HTTP), ProxySQL's admin interface (SQL), the MySQL
servers and a metadata database (SQL), all of which survive a restart of either program.

| Component | State | Operations | Interacts with |
|---|---|---|---|
| SyncCoordinator (`core/sync/sync-coordinator.ts`) | per cluster: debounce timer, lock, time and hash of the last sync; statistics | `sync`, timer, `executeSync`/`doSync` with retries, `clearCache`, `resetCooldown` | called by watcher, webhook, routes; calls `syncCluster` |
| ProxySQLManager (`core/routing/proxysql-manager.ts`) | connection, cache of servers; ProxySQL's tables in memory, at runtime, on disk | `syncCluster`, add/remove server and cluster, ports, rules, mirror | called by coordinator, failover, provisioner, CLI |
| Failover (`core/failover/*.ts`) | current operation, history, pending recoveries | switchover, manual failover, cancel, recover | Orchestrator, MySQL servers, `syncCluster` |
| TopologyWatcher (`core/sync/topology-watcher.ts`) | its own hash per cluster, interval, recoveries under way | `start`, `poll`, `attemptReplicaRecovery` | Orchestrator, coordinator, ReplicaRecovery |
| Webhook (`api/routes/webhooks.ts`) | none | `handleFailoverWebhook`: look-up of the new primary, scan of the clusters, up to ten tries, recoveries, second fetch | Orchestrator, ReplicaRecovery, coordinator |
| ReplicaRecovery (`core/sync/replica-recovery.ts`) | none | `recoverReplica` | MySQL servers, Orchestrator |
| Provisioning (`core/provisioning/*.ts`) | rows of `cluster_metadata`, templates | `provision`, `deprovision`, template CRUD | database, Orchestrator, MySQL, ProxySQL |
| Discovery (`core/discovery/*.ts`) | none | HTTP client, `convertTopology`, scanner, cluster view | Orchestrator |
| Instances (`cli/commands/instances.ts`, `api/routes/instances.ts`) | rows of `instance_metadata` | register, remove, discover, maintenance, relocate, set up replication | Orchestrator, database |
| Line editor (`cli/raw-input.ts`, `cli/completer.ts`) | buffer, cursor, dropdown, paste, place in the history | one handler per key or chunk, the paste's timer | the terminal |
| Loop and agent (`cli/repl.ts`, `cli/agent/*.ts`) | phase of the loop, conversation, abort signals | read, dispatch, wait; rounds of tools; abort | line editor, model, OpenClaw, tools |
| Deployment (`cli/commands/{install,start,stop,cleanup}.ts`, `cli/utils/*.ts`, `app.ts`) | files in `~/.clawsql/docker` and their stamp; containers; tables | extract, Compose up and down, wait, create tables, remove; `startServer()` | Docker or Podman, Compose, MySQL |
| Monitoring, configuration, settings, display | none | see `PROJECT.json` | the above |

The hard behaviours, per component, and what makes it correct:

* **SyncCoordinator.** Requests for one cluster arrive while a timer is armed, a sync runs or a cooldown lasts. A
  later request clears the timer of an earlier one; a request during a sync is handed its promise. Correct means: one
  writer per cluster, no unforced sync that is not due, every caller answered unless its timer was cleared, statistics
  that balance, and a record of exactly the syncs that completed.
* **syncCluster.** Some thirty statements, most of which ignore their errors, over tables other callers write at the
  same time. Correct means: a sync that ran alone repairs whatever an earlier, faulty or overlapping one left, and
  traffic never meets a half-written table.
* **Failover.** An operation works on a topology fetched before it began, awaits Orchestrator, which may fail, choose
  another replica or act on its own, and shares `currentOperation` with overlapping operations. Correct means: history,
  current operation, pending recoveries and outcome tell what happened.
* **Watcher and webhook.** Overlapping polls with out-of-date answers, errors, a crash between write and record; a
  handler that asks again and again while Orchestrator's view, the servers and the operators' marks change. Correct
  means: ProxySQL converges to the reported topology, a handler that nobody disturbed hands over the current one, no
  downtime outlives a recovery that worked, and every webhook is answered whose sync is not superseded by a later one.
* **Instances.** CLI and API act on the same servers, with an `await` between reading a row and writing it.
* **Line editor.** Every key changes several of buffer, cursor, list, selection and rows on the screen; a paste comes
  in pieces, and its markers may be lost. Correct means: the screen shows the list that Enter would take from, and
  pasted text does not run as long as the editor knows that it is pasted (it loses track of a paste whose start marker is
  lost, or whose end comes after the time-out).
* **Loop and agent.** A stopped question goes on in the background and shares the conversation with the next one.
  Correct means: results stand behind their call, a stopped question starts and prints nothing, and the prompt comes back.
* **Deployment.** Any program may fail and any command may be interrupted; `/start` and the API server it has just
  started create the same tables in different orders. Correct means: `/install` and `/start` never run Compose on
  half-copied files (nor does `/stop`, unless its own extraction has just failed), a platform called ready has its tables,
  a cleanup called complete leaves nothing.
* **Provisioning.** A long sequence of statements against four systems, any of which may fail; nothing is undone.
  Correct means: what a cluster holds is neither handed out again nor forgotten.

`PROJECT.json` lists every hazard of this code at its line, with the property that watches it or the reason why none
does.

## Modules

| Module | Models | Composes |
|---|---|---|
| `SerialSync` | abstract: one writer per cluster, records exactly the completed writes; `ServerSpec` adds crashes | |
| `SyncCoordinator` | `sync-coordinator.ts` | implements `SerialSync` |
| `TopologyWatcher` | `topology-watcher.ts`, the webhook as a caller, crash and restart | extends `SyncCoordinator`, implements `SerialSync` with crashes |
| `WatcherProofs` | theorems about the coordinator, alone and inside the server | extends `TopologyWatcher` |
| `Routing` | the rows a topology asks for and those `syncCluster` leaves | |
| `ProxySQLSync` | `syncCluster`, one statement per step | extends `Routing` |
| `ProxySQLProofs` | theorems about it | |
| `FailoverExecutor` | `executor.ts`, `operation-runner.ts`, `promoter.ts`, `candidate-selector.ts`, `recovery-manager.ts` | extends `Routing` |
| `FailoverProofs` | theorems about it | |
| `Allocation` | abstract: a port and a hostgroup are given once, to one cluster, and kept while it is in ProxySQL | |
| `ClusterProvisioner` | `provision`, `deprovision` and what they call in the manager | implements `Allocation` |
| `ClusterProvisionerProofs` | theorems about it | |
| `LineEditor` | `raw-input.ts` and the completer's suggestions | |
| `Repl` | `repl.ts`, `agent/handler.ts`, OpenClaw's process | extends `LineEditor` |
| `ReplProofs` | theorems about the editor and the loop | extends `Repl`, `DataLemmas` |
| `Orchestrator` | `topology.ts`, the servers and Orchestrator's view of them | |
| `Instances` | `commands/instances.ts`, `routes/instances.ts`, `scanner.ts` | extends `Orchestrator` |
| `FailoverWebhook` | `webhooks.ts`, `replica-recovery.ts`, the watcher's recoveries | extends `Instances` |
| `FailoverWebhookProofs` | theorems about it | extends `FailoverWebhook`, `DataLemmas` |
| `Platform` | `install.ts`, `start.ts`, `stop.ts`, `cleanup.ts`, `docker-files.ts`, `startServer()` of `app.ts` with `database.ts` | |
| `PlatformProofs` | theorems about it | |
| `DataLemmas` | induction, and recursive functions on the numbers, for the proofs | |
| `MC...` | the finite instance of the module named after it | |

How state and actions correspond to the code:

* `SyncCoordinator`. `pendingDebounces`, `locks`, `lastTopologyHash` are the maps of the class; `cooling[c]` is
  "less than cooldownMs since lastSyncTime". A `Call` is an outstanding promise of `sync()`; `phase` is the point
  it has reached. `Sync` is the body of `sync()` (reject, join or arm a timer, after clearing the previous timer);
  `ExecuteDisabled`, `ExecuteSkipped`, `ExecuteStarts` are the timer's callback up to its first `await`;
  `AttemptSucceeds`, `AttemptFails`, `RetriesExhausted` are answers of ProxySQL; `Release` is the `finally` that deletes
  the lock, and the resolution of every promise chained to it. `openSyncs` stands for
  `totalSyncs - successfulSyncs - failedSyncs`, which is bounded while the counters are not.
* `TopologyWatcher`. `polls`, `todo`, `fetched` are the local state of `poll()`; `lastTopologyHashes` is the
  watcher's own map. `Settling` gives the microtasks that follow ProxySQL's answer priority over new events, as the event
  loop does. `Abandoned` is a caller whose promise never resolves: its frame disappears, and if it was the first poll of
  `start()`, `watcher` becomes `"stuck"`. `Restart` empties every map and keeps what ProxySQL holds.
* `ProxySQLSync`. `pc[p]` is the statement call `p` executes next; a statement succeeds or is rejected (`Fault`),
  and what follows a rejection is what its `catch` does. `memory`, `runtime`, `disk` are ProxySQL's layers.
* `FailoverExecutor`. `step[o]` is where the code of operation `o` stands, `state[o]` its record's state; they differ
  after a cancellation. `process` says whether the executor lives in the API server (requests overlap, cancellation)
  or in the CLI (sequential, switchover and recovery). Orchestrator and servers are external actions.
* `ClusterProvisioner`. `metadata` is the table `cluster_metadata`; `pc` the statement of the command under way.
  `StatementFails` is a rejection inside a `try`; a rejection of a statement whose error is ignored is in the action
  of that statement (`Listen`, `Load`, `Save`). `Crash` ends the CLI.
* `LineEditor`. The variables are the fields of `RawInput`; each action is a branch of `handleInput` with everything it
  calls. Text is a sequence over a few characters of which `/`, `-` and blank mean what they mean in the code. `rows`
  (what is on the screen) and `terminal` (whether it is pasting) are external: what the editor does not see but must match.
* `Repl`. `phase` is where the loop stands; `request[i]` is what `AIAgent.process` does for question `i`, which
  `aborted` may contain while it goes on. `conversation` is `history` of the agent, `speaker` the question whose answer was
  printed last. The loop's steps are those of the event loop; model, tools, OpenClaw and user are external.
* `Orchestrator`. `source`, `started`, `up` are the servers'; `seen` is what Orchestrator last read. A `Call` may do what it
  is asked, refuse, or go wrong (do it and lose the answer; answer an error with status 200, which only
  `discoverInstance` and `forgetInstance` look behind).
* `Instances`. `command` is the command under way with its step; `request[q]` what an API request has read and means to
  write. `Hosts` is `expandNetwork()` on numbers.
* `FailoverWebhook`. `hook` is where the handler stands, the counters are its locals; `Weigh` is one turn of the loop,
  `Refetch` the second fetch, `outcome` what `sync()` is called with. `Syncs` only calls it: the handler then waits for its
  timer (`debouncing`, which a later call may clear, `TimerIsCleared`) or its answer (`syncing`). What the coordinator
  does meanwhile is `SyncCoordinator`'s, and that a cleared timer loses its caller is `Abandoned` of `TopologyWatcher`.
  `recovery[a][s]` is `recoverReplica(s)` called by
  the handler or the watcher. `quiet` says that nothing but the handler and its recoveries has done anything.
* `Platform`. `command` has the step of the command under way (`at`), the part or statement it is at (`n`), whether
  a program has failed during it (`clean`) and whether its script met a server that was creating tables (`raced`). `files`
  and `stamp` are `~/.clawsql/docker` and its `.version`. `api.at` is where `startServer()` stands. `Kill` is the user or
  a signal at any step.

## Runs

| Run | Instance | What it shows |
|---|---|---|
| `sync` | 1 cluster, 3 topologies (one empty), 3 calls, 2 attempts; both settings of `sync.enabled` | `TypeOK`, `UnforcedSyncIsDue`, `StatsBalance`, `LiveCallsAnswered`, `ImplementsSerialSync` |
| `proxysql` | 2 servers, 3 topologies, 2 overlapping calls, 1 rejected statement | `TypeOK`, `CleanSyncIsExact`, `NoHalfRouting`, `SomeCallSucceeds` |
| `failover` | 3 servers, 2 operations, 2 events of the environment | `TypeOK`, `RecordedOnce`, `CurrentIsRunning`, `PendingIsOldPrimary`, `OutcomeIsTrue`, `RequestsFinish` |
| `watcher` | 1 cluster, 2 topologies, 2 polls, 1 webhook, 2 events | `WatcherTypeOK`, `ServerImplementsSerialSync`, `PollsConverge`, `StartCompletes` |
| `provisioning` | 3 clusters of 2 hosts, 2 ports, 3 hostgroup blocks, 2 faults or crashes | `TypeOK`, `ImplementsAllocation`, `NoOrphanRows`, `UndisturbedProvisionSucceeds`, `ReadyClustersListen` |
| `editor` | 2 letters and an unprintable one, 3 pieces of paste, 3 commands of which one has 2 flags, 2 rows | `EditorTypeOK`, `DropdownIsCurrent`, `PasteRunsNothing` |
| `repl` | 1 command, 2 questions, 1 round of tools each, 2 lines of history | `ResultsFollowTheirCall`, `StragglersWereAborted`, `AbortedStartsNothing`, `OnlyTheCurrentSpeaks`, `AbortGivesPromptBack` |
| `webhook` | 3 servers, 3 tries, 1 API request, 2 events, addresses of 3 bits | `ScanCoversNetwork`, `DowntimeEndsWithRecovery`, `QuietSyncIsCurrent`, `OnlyReplicasAreFreed`, `WebhookIsAnsweredOrSuperseded` |
| `platform` | 3 kinds of machine, 2 releases, 4 commands, 1 failure | `ComposeUsesWholeFiles`, `ReadyHasItsTables`, `CleanupIsComplete` |

Where a row lists no type invariant, the first invariant contains it (`ResultsFollowTheirCall`: `ReplTypeOK`,
`DowntimeEndsWithRecovery`: `WebhookTypeOK`, `ComposeUsesWholeFiles`: `PlatformTypeOK`).

Runs that refute what the repository says (each checks one property, and a finding quotes the text):

| Run | Text | What the code does |
|---|---|---|
| `routing` | docs/failover.md:610 "New primary → writer hostgroup (10)" | the new primary is still listed as a replica and is deleted from the writers; ProxySQL's own `read_only` monitor is outside this model |
| `watcher_caught` | docs/failover.md:984 "This catches any missed webhook events" | the hash is recorded although the sync failed; no later poll retries |
| `isolation` | CHANGELOG.md:68 "Clear isolation between clusters" | the reader hostgroup of a cluster is the writer hostgroup of the next; deprovisioning the first removes the primary of the second |

Smaller disagreements of the same kind have a configuration and a property of their own, but no regular run
(`tlc -config <configuration> <module>` shows the violation in seconds):

| Configuration, module | Property | Text | What the code does |
|---|---|---|---|
| `MCProxySQLClusters`, `MCProxySQLSync` | `AllClustersRouted` | docs/failover.md:1036 "Sync all clusters" | every cluster is synced into hostgroups 10 and 20; the second sync removes the first cluster |
| `MCFailoverCancel`, `MCFailoverExecutor` | `CancelledStaysFailed` | executor.ts:235 "Cancel an in-progress operation" | the operation goes on and is recorded as completed |
| `MCFailoverTarget`, `MCFailoverExecutor` | `SelectedReplicaIsPromoted` | executor.ts:127 "user selects replica" | `forceMasterFailover` lets Orchestrator choose; the record names the user's choice |
| `MCTopologyScheduled`, `MCTopologyWatcher` | `PollsAreScheduled` | topology-watcher.ts:55 "Schedule periodic polls" | a webhook clears the timer the first poll waits for; `start()` never returns |
| `MCPasteTimeout`, `MCLineEditor` | `PasteModeEnds` | raw-input.ts:221 "Set timeout to prevent getting stuck if end sequence never arrives" | when the timer fires with nothing collected yet (line 224), paste mode stays and no timer is armed again |
| `MCRecovered`, `MCFailoverWebhook` | `RecoveredFollowsNewPrimary` | replica-recovery.ts:131 "replication running, following" the new primary | a recovery verifies that replication runs, not from whom: a replica of another server counts as recovered |

### Bounds, and why they are enough

The maps of the coordinator are per cluster and its actions touch one cluster, so one cluster shows every
interleaving; three calls are the smallest number for which one holds the lock, one has joined it and one is
superseded. Two attempts distinguish "retry" from "give up". Two calls of `syncCluster` give every
overlap of two; a third adds no statement between two others that the second cannot be. Its one rejected statement
may be any statement. Three servers give Orchestrator a choice among two replicas, two operations overlap, cancel or follow
each other. Two polls overlap; `MaxEvents = 2` allows a topology change and back, a change and a restart, a webhook and
a change. Three clusters and two ports make the ports run out, three blocks give a block neighbours on both sides.
`MaxFaults` and `MaxEvents` bound failures and environment only; within them every step is free.

* `editor`. `MaxChange` bounds the length of text from which a key may edit, `MaxLen` that of a text that is typed into;
  a pasted piece may be longer than both. Three commands of which one is a prefix of another make the list shrink, grow
  and exceed the two rows, and the flags switch it from one list to the other.
* `repl`. Two questions are enough for one that goes on while the other is asked; one round of tools has a message, its
  results and an end. The keys and pieces that `editor` tries are reduced to one each.
* `webhook`. The first try can find no stable topology, the second may, the third is the last: three tries stand for
  ten. Two events let a server stop and return, or an operator mark a server and Orchestrator see it, between any
  two awaits. When the handler has handed its topology over, nothing but its wait for the answer is left, for no property
  is about what servers and operators do then. Three-bit addresses have
  prefixes 0 to 3, and the limit of four hosts cuts the largest network.
* `platform`. Two releases have files of two versions to mix. Four commands allow a start that fails, a stop that does
  half of its work, and a start and a cleanup after it. One failure at any program: with none, the properties speak of what
  an undisturbed command promises. The three machines differ in all that the code asks of a machine: the runtime,
  whether Compose finds containers by project or by name, and whether the metadata database is the platform's own.
  Four of the tables stand for all: two that server and script create in opposite orders, one in the same order,
  one that only the server creates.

`CHECK_DEADLOCK FALSE` is set where the program may stop: a failover whose operations are over and whose events are
spent, a server with syncing disabled, a CLI all of whose cluster names are lost (see below), an editor whose line is
finished or a loop that has ended, a webhook that has been answered or is never going to be, and a machine on which no further command is run. The
coordinator's and `syncCluster`'s runs check deadlock.

### Fairness

* `SyncCoordinator`: weak fairness of `SyncStep(k)` for every call. The event loop runs expired timers and
  continuations, and the driver answers or fails. Nothing obliges a caller to call or a sync to succeed.
* `FailoverExecutor`: weak fairness of an operation's next step. Orchestrator answers or the HTTP client times out
  (topology.ts:38). The MySQL driver has a time-out for connecting only (mysql-client.ts:39): that a query on an open
  connection is answered, or ends with the connection, is an assumption about server and network.
* `TopologyWatcher`: weak fairness of every call's own steps, of start and interval, of the end of a cooldown. Strong
  fairness of a successful `Fetch`, of a timer that fires before the next request clears it (polls are 30 s apart, the
  debounce is 1 s) and of a successful sync: each is attempted again and again and is not refused for ever. These are
  assumptions about Orchestrator and ProxySQL, and `PollsConverge` needs them.
* `Repl`: weak fairness of the loop's own steps, which the event loop runs when they are due. Nothing is assumed of the
  user, the model, OpenClaw or the tools: none of them need ever answer, and `AbortGivesPromptBack` holds all the same.
* `FailoverWebhook`: weak fairness of the handler's steps and of its recoveries': every call is answered or fails
  (the HTTP client has a time-out; for the recoveries' queries see the executor), every timer that is not cleared fires, and
  the coordinator answers a call whose timer was not cleared, which is `LiveCallsAnswered`. Nothing is assumed of servers,
  operators, Orchestrator's view, or of other callers of `sync()`: a timer may or may not be cleared.
* The editor's and the platform's properties are safety properties and need none.

## Proofs

`WatcherProofs` begins with the coordinator alone. It proves, for every set of clusters, topologies and calls, every
positive number of retries and both settings of `enabled`, under `SyncAssumption` alone (the sentinels differ from the
values they stand beside):

* `LockInvariant`: `LockInv`, the inductive invariant. `TypeOK` alone is not inductive (a running call's arguments might
  be missing), nor is `MutualExclusion`: a timer fires without looking at the lock. The strengthening
  `TimersAndLocks` says why that is safe: a timer and a lock exclude each other (`TimerXorLock`, since `sync()` clears
  the timer before it joins a lock and arms one only without a lock), an armed timer belongs to a debouncing call,
  whoever executes holds the lock and the holder executes, and only joined calls wait.
* `TypeCorrect`, `MutuallyExclusive`: consequences of it. (`MutualExclusion` is no property of a run: two calls that
  sync one cluster also violate `ImplementsSerialSync`, in which a write begins only when none is under way.)
* `UnforcedSyncStaysDue`: by its own induction on top of `LockInv`; only the lock holder can set cooldown and hash.
* `CoordinatorIsSerial`: the refinement. Each step maps to `Begin`, `Commit`, `Abort`, `Forget` or a stutter of
  `SerialSync`; `LockInv` identifies the writer with the call that holds the lock.
* `StatsStayBalanced`: for a finite set of calls, by the cardinality of the set of running calls.

`WatcherProofs` goes on to the coordinator inside the server, where calls are lost and the process restarts:
`WatcherTypes`, `ServerHasOneWriter`, `ServerSyncsWhenDue`, and `ServerIsSerial`, the refinement again, now of
`SerialSync`'s `ServerSpec`. Every step is a step of the coordinator on behalf of a poll or a webhook, the loss of a
caller, a restart, or leaves the coordinator alone; the lemmas of its first part cover the first. `CallersHaveFetched`
is the strengthening: whoever stands before `sync()` has a topology to call it with. It assumes that the marker for
"no topology" is no topology. In the refinement the loss of a caller is a stutter, for only a call that is still
debouncing is ever lost, and a restart is `Crash`.

`ClusterProvisionerProofs` proves, for any clusters, servers, ranges and any number of faults, under
`ProvisionerAssumption` (no server is in two clusters, and a primary is not its own replica: both are what an operator
who names the hosts means; the rest says that numbers are numbers and `None` is none of them), all safety properties the
`provisioning` run checks. They are consequences of one inductive invariant, `Inv`. None of them is inductive alone:

* `AllocationIsImplemented`: the refinement of `Allocation`, whose state is read off the rows of the metadata and of
  ProxySQL's tables. A statement that writes a row is `Take`, `Release` or a stutter, one that writes the tables is `Enter` or
  `Leave`. It needs `AtStatement`: while a command runs, its port and hostgroup are those its cluster's row records
  (`Recorded`), or, after the UPDATE has failed, those no other row holds (`Fresh`), for the catch block writes them then;
  and `Emptied`, for `Release` asks that no row is left. `AllocationsAreDedicated` draws the conclusion from the abstract
  module: no port and no hostgroup is shared, and whoever is in the tables can be deprovisioned.
* `RowsAreNeverOrphaned` needs `Emptied`: when deprovisioning deletes a row of the metadata, ProxySQL has nothing left
  in its hostgroups. `Owned` is stronger than the property, since the reader hostgroup of a cluster is the writer
  hostgroup of the next: a row belongs to the cluster whose server it names. `KeptUp` adds what is loaded and saved.
* `LeftoversDoNoHarm` needs `Owned` and `NothingLeft`: the rows found belong to clusters with an allocation, the new
  cluster has none, and no server is in two clusters.
* `ReadyIsListenedOn`, `ProvisionerTypes`: conjuncts of `Inv`.

`PlatformProofs` proves, for any set of machines and any number of releases, commands and failures:

* `FilesAreWhole`: `ComposeUsesWholeFiles` with the types. Not inductive by itself: that `up`, `pull` and the `down` of a
  `/stop` during which nothing has failed find whole files needs `StampVouches` (a stamp equal to the installed version vouches for every part, it is never that of a release to
  come, and while parts are copied it is not the version, so that an interruption leaves a stamp that vouches for nothing).
* `CleanupCompletes`: `CleanupIsComplete`, an action property. Its invariant, `CleanEmpties`, says that a clean
  `/cleanup` that has come to the volumes has removed every container, and no step of a container creates one. The proof of
  the step shows for every other action that it cannot be the one that answers "cleaned".
* The server is within its list of statements (`ApiCounts`), which the types need.
* `ReadyIsComplete`: `ReadyHasItsTables`. `TablesInv` follows the script of `/start` and the start of the server statement by
  statement: `ScriptMade` says which tables are there when the script is at its n-th statement, `ApiMade` which the server has
  made, `Unfailing` that nothing of a clean start has been given up. Without failures the two meet only where `raced`
  says so, and there the property makes no promise.

`ProxySQLProofs` proves, for any set of servers and topologies over them, any number of overlapping calls (at least one)
and of rejected statements, assuming that `None` is no server and that servers differ from the labels of statements:

* `SyncTypes`, `UpsertIsExact`, `RoutingIsNeverHalf`: from one invariant. `CallInv` is what any call has at hand,
  whatever others do to the tables. `CleanInv` follows a call that nobody has disturbed statement by statement: which rows
  of an earlier topology are gone, which of its own are there, which servers are still to be inserted, and what has been
  loaded and saved. `NoHalfRouting` is then the one step, LOAD, at which such a call changes the runtime.
* `NotAllFail`: `SomeCallSucceeds` is not about undisturbed calls, so it has an invariant of its own, `HopeInv`: either
  the hostgroup pair is there and some call that has not failed is not about to insert it, or it is absent and some call
  has yet to insert it. Every deletion of the pair is by a call that has its insertion ahead.

`FailoverProofs` proves, for any servers and operations and any number of events of the environment, in the API server
and in the CLI, every safety property the `failover` run checks. `OpInv` ties the three records of an operation that
may drift apart after a cancellation or an overlap: where its code stands (`step`), what its record says (`state`) and
which server it has promoted (`promoted`); `Untouched` says that the routing is the initial one until there is a
promotion. It needs that `None` is no operation, for `currentOperation` is compared with it.

`ReplProofs` proves, for any commands and text and any number of questions, rounds of tools and lines, every safety
property of the `editor` and `repl` runs:

* `EditorIsTyped`, `DropdownStaysCurrent`, from one invariant of the editor, `EditorInv`. Neither is inductive.
  `Screen` says that the list with its selection is what the text before the cursor asks for and the rows on the
  screen are its window; `Modes`, what the editor waits for and collects: a paste only while a line is read, and
  nothing outside of one; `Memory`, that the history holds printable lines and the place in it lies within. While no
  line is read there are no rows. The theorems are about an editor that starts with a history of printable lines (the
  lines entered before) and, by `EditorAssumption`, with printable commands and flags. What a filter leaves of a line
  or a list is `Keep`, its members at the positions that pass a test: that it is a sequence of these is proved from
  the rank of each position, and from it that `Printable`, `OneBlank` and `Suggest` return what the types say.
* `ResultsFollowCalls`, `StragglersAreAborted`, `OthersAreSilent`, `AbortedIsEnding`, from one invariant, `AgentInv`. What
  carries it is `QuestionInv`: a question that was not stopped is over or the loop waits for it, so that there is one of
  them at most, the last one asked; of a stopped one only a probe, a killed process and the tools go on, which know no signal.
  `ResultsFollowCalls` adds the types of the loop, and with them those of the editor inside it.
* `PastesEndNoLine`: `PasteRunsNothing` of the editor inside the loop. A terminal in the middle of a paste that has not
  been lost is one whose paste the editor collects (`PasteIsKnown`), and there no key is looked at.

`FailoverWebhookProofs` proves, for any servers, requests, numbers of tries and networks, from any state of the world, every
safety property the `webhook` run checks:

* `RunningReplicasAreFreed`, the property `OnlyReplicasAreFreed`. `QuietInv` says what quiet means: no command, request or
  recovery of the watcher is under way (so that every step of theirs would be an event that ends the quiet), and whoever's
  mark the handler is about to remove replicates.
* `DowntimesEnd`, `QuietSyncsAreCurrent`, from `HandlerInv`. It follows what the handler has at hand: the topology it
  holds is the one Orchestrator would report again, as long as nobody disturbs it, and after recoveries have begun
  still has the same primary and replicas (`StillFound`); where each recovery stands says whether its server has its
  mark (`RecoveryOf`); and a replica that the topology calls marked is marked or does not replicate
  (`MarksAccountedFor`). That a cluster asked for by name is the one that was found needs a fact about names: a
  cluster is named by the end of its chain of masters or, where the chain runs into a ring, by some server of the
  ring. The proof walks the chain: by the pigeonhole principle it ends or repeats itself within as many steps as there
  are servers, all servers of a ring walk around the same ring, and so the name of the name is the name.
* `ScansCoverTheirNetwork`: `ScanCoversNetwork`, for addresses of any number of bits. `PowerOfTwo` is a recursive function, of
  which induction gives what the arithmetic needs: it is positive, and 2^(m+n) is the product of 2^m and 2^n.

`DataLemmas` has what these need of induction. The library's theorems take a predicate, which cannot be instantiated here;
those of this module take a set (`Induct`: a set that has 0 and with n also n+1 has all of Nat) and derive from
it the least element, the iteration of a function and the equation of a recursive one. No recursion of the models is left
whose results are taken for granted.

Only model-checked are the liveness properties (`LiveCallsAnswered`, `RequestsFinish`, `PollsConverge`, `StartCompletes`,
`AbortGivesPromptBack`, `WebhookIsAnsweredOrSuperseded`), which depend on fairness and ENABLED and are outside what TLAPS
proves, and the documented properties that the code violates. Every safety property
of a passing run is a listed theorem.

## Not modelled, and why

Text formats, logging, colours and tables, the bytes of escape sequences, and the protocols of Docker, Compose, OpenClaw and
the language models hold no decision of the core. Orchestrator, ProxySQL, MySQL, the container runtime and the terminal
appear only as the code uses them. Left out inside the modelled components: time (a cooldown is a flag that
is cleared some time), lag except as a change of the watcher's hash, the mirror tables and the audit log (written, and
read only by functions nothing calls), query rules and users, ProxySQL's connection, `/doctor` and `/openclaw`, registry
mirrors, the demo cluster and the all-in-one mode. Functions without a caller are not modelled: `executeAutomaticFailover` and
the execution hooks, `addServer`, `registerInstance`, `removeServer`, `setupReadWriteSplit`, `removeCluster`,
`restoreFromDatabase`, `relocateReplica`. Several hazards have no property: their notes in `PROJECT.json` say why.

What the code does and no text of the repository contradicts is no property; the models contain it nevertheless, or say
that they do not:

* A cluster whose provisioning failed before its hostgroups were recorded can be neither deprovisioned nor provisioned
  again; the `provisioning` model comes to a stop when that has happened to every name.
* No command of the CLI connects the metadata database (`utils/database.ts:233` throws "Database not connected"; only
  `app.ts` calls `connect()`), although README.md:105-106 lists provisioning commands. `ClusterProvisioner` models the class
  with a connected database, as the tests use it.
* `/start` drops and creates eight tables that the server has created, with other columns than `database.ts`, and the rows
  of `instance_metadata` are lost with them (`Platform` has the tables, not their columns or rows). It does so only
  through Podman, whatever the runtime, and its waits ask Podman too.
* If that script meets a server that is just creating its tables, its `CREATE` of a table the server
  has just created fails and the script ends: the platform is called ready with tables missing (`raced` in `Platform`; `ReadyHasItsTables` is about the other starts).
* A server that does not reach its database at its start goes on "without persistence" (app.ts:193), yet keeps the pool that
  `connect()` has set before its test: later queries reach the database once it is there, but the server creates its
  tables and templates only when it is started again. `api.persistent` means that the start went through.
* A webhook is not answered when a poll or another webhook of its cluster calls `sync()` within the second that its own
  sync is debounced: the timer is cleared, the promise stays pending (`TimerIsCleared` in `FailoverWebhook`, `Abandoned` in
  `TopologyWatcher`), and so does the HTTP request. The later call takes its place.
* `/stop` whose extraction has failed runs `docker compose down` in the half-copied directory (`ExtractFails`, then
  `ComposeDown`); its comment (stop.ts:47) speaks of stopping containers directly.
* Ctrl+T changes the text and leaves the list of suggestions as it was (`Transpose`); Enter then takes from the old list.
* OpenClaw's process is started, and then the signal is looked at: if it is aborted, the promise is rejected before a
  listener for `error` is registered (openclaw-integration.ts:221-225), so that a spawn that fails is an unhandled event.
  `Repl` has processes that start, and not this one.
* `/stop` names no project: with Docker it stops nothing that `/start` has started, and elsewhere never `metadata-mysql`
  (`ComposeDown`; README.md:115 says "Stop all services").
* `/cleanup` finds containers and volumes by parts of their names, those of other programs included.
* Every `GET /monitoring/system` makes a new connection to ProxySQL.

## Plan

Order of work, the most important behaviour first. Done in this version: 1 to 9.

1. Coordinator, abstract specification, refinement, proofs.
2. `syncCluster` and its hazards, with proofs.
3. Failover, with proofs.
4. Watcher, webhook and coordinator together, with proofs.
5. Provisioning, with proofs.
6. The webhook's handler and `ReplicaRecovery` against servers and operators that change the cluster meanwhile, with a proof.
7. The instance routes and commands, with the scanner's ranges.
8. The line editor, and the loop and agent composed with it, with proofs.
9. Deployment and the start of the server, with proofs.

Next:

* Composition of coordinator, executor and CLI as concurrent callers of `syncCluster`; a second CLI process in
  provisioning; a second process of the executor, so that recoveries queued in the server and read in the CLI appear.
* Abstract specifications: failover (an operation has exactly one outcome), routing (the tables follow the last completed
  write).
