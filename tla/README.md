# TLA+ models of the container runtime of RustOrchestration

This directory holds TLC-checked TLA+ models of the container-execution layer in
`src/ai_native_orchestrator`. The core of that layer is `YoukiCliRuntime` in
`container_runtime/src/youki_cli.rs`. The workload API handlers and the `orch`
command-line client that drive it from above are modelled as well. The plan at
the end lists what later work adds.

## 1. Inventory

### Components, their state and operations

| Component | Source | State | Operations |
|---|---|---|---|
| Command executor | `youki_cli.rs` 240-358 | none of its own; drives the youki binary, whose per-container status (created, running, stopped, or absent) is the ground truth | `exec_youki` (under `command_timeout`), `youki_create`, `youki_start`, `youki_kill`, `youki_delete`, `youki_state` |
| Container registry | `youki_cli.rs` 167-174 | `containers: RwLock<HashMap<id, ContainerState>>` and `containers_by_node: RwLock<HashMap<node, Vec<id>>>` | map inserts, updates and removals made by the lifecycle engine |
| Lifecycle engine | `youki_cli.rs` 434-643 | none beyond the registry; the bundle directories on disk | `init_node`, `create_container`, `stop_container`, `remove_container`, `get_container_status`, `list_containers` |
| Runtime construction | `youki_cli.rs` 176-229 | configuration, empty maps | `with_config`, `verify_binary` |
| Log subsystem | `youki_cli.rs` 362-381 | the log file (read only); `log_streams` map, never used | `get_logs(id, tail)`; follow mode is not implemented in the source |
| Stats collector | `youki_cli.rs` 383-432 | none (reads cgroup files); not modelled, see section 3 | `get_stats`, `parse_cpu_usage` |
| Workload API handlers | `orchestrator_core/src/api/handlers.rs`, `state.rs` | a state store (external trait) and the bounded `workload_tx` channel to the orchestrator | create, list, get, update and delete workload; list instances; list and get node; cluster status |
| `orch` client commands | `ui_cli/src/commands/deploy.rs`, `logs.rs`, `status.rs` | none of its own; reads and writes the API server's workloads | `deploy` (argument parsing, one POST), `logs` (workload lookup by id or name, instances), `status` (cluster, nodes, workloads, per-workload instances) |
| Other front ends, API binary, crate roots, observability | `ui_cli` main and remaining commands, `orchestrator_cli`, `orchestrator_api`, `lib.rs` files | none | printing, placeholders (`orchestrator_cli/src/main.rs` only prints a TODO; `container_runtime/src/lib.rs` only declares modules) |

### How they interact

Callers (tokio tasks of the orchestrator) call the lifecycle operations
concurrently. Each operation calls the youki binary through `exec_youki` and
reads or writes the two registry maps. Every `.await` is a point where other
tasks run: a youki call, a lock acquisition, a filesystem call. The registry
locks are taken separately for the two maps. There is one exception: in
`remove_container` the `containers` write guard is a temporary of an `if let`
scrutinee. It therefore stays held across `cleanup_bundle().await` and across
taking the `containers_by_node` lock.

### What is hard

- **Timeouts.** `tokio::time::timeout` drops the `output()` future. The youki
  child is spawned without `kill_on_drop`, so it is not killed. A command
  reported as `Timeout` may still take effect later.
- **Partial failure.** In `create_container`, youki create can succeed and
  youki start can then fail. The error is returned and nothing is recorded.
- **Interleaving.** A stop and a remove of the same id can run at the same
  time. So can a list and a remove, or two removes. Each registry update is a
  separate critical section.
- **Termination.** The stop loop ends only when the container is stopped, is
  not found, a youki call fails, or the deadline passes.
- **Wall-clock bounds.** The stop deadline is taken after SIGTERM returns. Each
  youki call may take up to `command_timeout`.

### What makes each component correct

- Registry and lifecycle:
  - An entry exists exactly from the successful return of `create_container`
    to the successful return of `remove_container` (spec 3).
  - The node index agrees with the map (spec 3).
  - A removed container is gone from youki (spec 8).
  - Every call returns (spec 4.2 and 5).
  - A failed create leaves nothing that cannot be removed (spec 4.2).
- Stop: it returns within stop_timeout + 100 ms + epsilon (spec 8), and it is
  idempotent.
- Log fetch: exact results on the boundary inputs, and a missing file is an
  empty result, not an error (spec 4.4 and 8).
- Workload API: a deleted workload stays deleted, and the orchestrator ends
  up with the stored definition.

The hazards behind these properties are listed, each at its source line, under
`hazards` in `PROJECT.json`.

## 2. Modules

### `YoukiCli.tla` (with `MC_YoukiCli.tla`)

This module models the command executor, the registry and the lifecycle
engine.

- **State.**
  - `runtime` is youki's own record of each id.
  - `abandoned` holds the youki children whose `exec_youki` timed out.
  - `containers` and `byNode` are the two maps, as partial functions.
  - `bundles` holds the bundle directories on disk.
  - `writer` is the task holding the `containers` write guard across an await.
  - History variables: `used` (the ids generated), `returned` (ids create
    returned Ok for), `removed` (ids remove returned Ok for), `deletes`
    (ids a remove has run `youki delete` on, whatever its outcome) and
    `failed` (ids a stop or remove returned Err for).
  - Per task: `pc` (the await it is parked at), `cid`, `nid`, `polls` and
    `todo`.
- **Actions.** There is one action per await-to-await segment of each
  operation:
  - `init_node`: `InitNode`.
  - `create_container`: `CreatePrepare`, `CreateYouki`, `StartYouki`,
    `CreateInsert`, `CreateIndex`.
  - `stop_container`: `StopTerm`, `StopPoll`, `StopKill`, `StopUpdate`.
  - `remove_container`: `RemoveDelete`, `RemoveEntry`, `CleanupBundle`,
    `RemoveIndex`.
  - `get_container_status`: `GetStatus`, `GetStatusCache`.
  - `list_containers`: `ListSnapshot`, `ListNext`, `ListCache`.
  - Environment actions: `FinishAbandoned` (a timed-out child completes) and
    `ContainerExits` (a container's process exits by itself).
- **youki's behaviour.** `Moves` is a table of what each command does to each
  status. `ExecYouki` ends in one of three ways: `ok` (youki ran to
  completion), `fail` (a spawn error, or a non-zero exit for a cause
  unrelated to the container), or `timeout` (the effect is deferred).
  `YoukiExit` is how a completed command exits: 0 when it makes a move, and
  otherwise non-zero, with a stderr saying the container does not exist
  when youki holds no such id. `YoukiDelete` and `YoukiState` are the
  helpers' reading of that exit and stderr (`youki_cli.rs:314-358`).
- **Abstractions.**
  - Ids are model values, and a fresh one is taken by `CHOOSE`. The ids are
    interchangeable, so this loses no behaviour.
  - Container names, images, paths and pids are dropped. No decision reads
    them.
  - Vec order in `containers_by_node` is dropped: an id is pushed once, and
    `retain` removes it.
  - Time in `stop_container` becomes a count of poll iterations. Each iteration
    sleeps 100 ms, so after `MaxPolls` polls the deadline has certainly passed.
    It may pass earlier, because youki calls take time.
  - The image pull, rootfs link and bundle build are external collaborators
    that succeed or fail.
- **Callers.** A caller passes an id create returned, or the model value
  `Unknown`, an id no create returns.
- **Refinement.** The end of the module maps the implementation onto
  `ContainerRegistry` (below):
  - the abstract map is `containers`, plus the entry a `remove_container`
    holds between taking it out of `containers` and pruning the index. That
    entry is shown as stopped, its node the one the remove read;
  - the abstract `gone` is `removed`.
  - Under this mapping `CreateInsert` is the abstract `Create`, `StopUpdate`
    and `RemoveEntry` are abstract `Stop`s, and `RemoveIndex` (or a
    `RemoveEntry` finding no entry) is the abstract `Remove`. Every other step
    leaves the abstract state unchanged.
- **The lock held across I/O.** `remove_container` takes the `containers`
  write guard at line 572, after its youki delete has returned. The guard is
  a temporary of the `if let` scrutinee, so it stays held across
  `cleanup_bundle().await` (a `remove_dir_all`) and across taking the
  `containers_by_node` lock (`RemoveEntry` sets `writer`, and `RemoveIndex`
  clears it). Spec 4.3 says no I/O happens under a registry lock. The model
  keeps the code's behaviour, and `EveryCallReturns` shows that the calls
  waiting for the lock get it. The disagreement with spec 4.3 is listed
  under the observations below.
- **Idempotent teardown.** Spec 5 makes idempotence of stop, kill and
  delete a hard requirement, because concurrent stop and remove calls on one
  id must each tolerate "already gone". Spec 8 asks the same of a second
  stop. `TeardownIdempotent` checks that no stop or remove returns Err when
  every youki command runs to completion. This covers a second remove, a
  stop or remove whose container a racing remove deleted, and a call on an
  id youki never held. youki refuses each of these with a non-zero exit. The
  calls succeed only because `youki_delete` reads "not exist"/"not found" in
  the stderr as success (`youki_cli.rs:326`), and `youki_state` reads it as
  ContainerNotFound, which ends the stop loop (`:344`, `:550`). The mutant
  `YoukiDeleteStrict` drops the first exemption, and a second remove then
  fails.
- **When the fallback answers.** Spec 4.2 says the fallback is for
  "containers the runtime has already forgotten but whose teardown
  bookkeeping is incomplete". The action property `FallbackOnlyInTeardown`
  checks this: a status answered from the registry belongs to a container
  youki holds no record of. Also, a `remove_container` of it has run
  `youki delete` and has not returned Ok. The delete may have timed out
  and its child finished later. That case is the stale answer of the
  `youki_cli.rs:594` hazard, which the property confines to an unfinished
  teardown. The mutant `QueryStateAnyError` falls back on every
  `youki state` error, not only not-found. It then answers a cached status
  for a running container.

### `ContainerRegistry.tla`

This module is the abstract specification of the registry: what spec 3 and
4.2-4.3 promise a caller. It has a map `reg` from id to node and status, and the
set `gone` of removed ids. Create, stop and remove are single atomic steps:

- `Create(c, n)` adds a running entry under an id never used before.
- `Stop(c)` marks an existing entry stopped.
- `Remove(c)` takes the entry out for good, and is a no-op on an id without one.

An entry's node never changes, a stopped entry never runs again, and a removed
id never comes back. `YoukiCli` is checked to implement it with
`ImplementsRegistry == Registry!Spec`, where `Registry` is the
`INSTANCE ContainerRegistry WITH ...` of the mapping above.

### `StopDeadline.tla`

This module models one `stop_container` call against a wall clock, for the
question `YoukiCli` abstracts away: how long the call can take.

- **State.**
  - `now` counts ticks of the loop's 100 ms sleep since the call began.
  - `deadline` is `Instant::now() + stop_timeout`, taken after SIGTERM.
  - `status` is youki's status of the container.
  - `pc` is where the call is: `term`, `poll`, `kill`, `update`, or one of the
    two returns `ok` and `err`.
- **Actions.**
  - `Term`: SIGTERM, with its error ignored, then the deadline.
  - `Poll`: one loop iteration. It breaks on stopped or not-found, returns Err
    on any error (a timeout included), and sends SIGKILL at or past the
    deadline. Otherwise it sleeps one tick.
  - `Kill`: SIGKILL, with its result ignored.
  - `Update`: the registry write.
  - `Exit`: the process exits by itself.
- **Durations.** Each youki call takes `0 .. CmdTimeout` ticks. A call that
  takes `CmdTimeout` ticks is cut off by `tokio::time::timeout`.
- **Scale.** The cfgs keep the default ratio of 10 s to 30 s as
  `StopTimeout = 3` and `CmdTimeout = 9` ticks. The deadline test compares tick
  counts, so only the ratios and the one-tick sleep matter.

### `WorkloadApi.tla` (with `MC_WorkloadApi.tla`)

This module models the HTTP handlers of `handlers.rs`, run by concurrent
requests. The state store and the orchestrator that reads `workload_tx` are not
in this repository. They appear only through their interfaces.

- **State.**
  - `wl` is the store's workloads: id to definition, or `NoDef`.
  - `inst` holds the ids whose workload has instances.
  - `chan` is the channel, `rxOpen` says whether its receiver still exists, and
    `senders` is the queue of requests waiting for a slot.
  - `view` is the definition the orchestrator last received per id.
  - History variables: `used`, `sent` and `deleted`.
  - Per request: `pc`, `wid`, `def` and `reply`.
- **Actions.** Each handler is split at its awaits:
  - `create_workload`: `CallCreate` (validation and conversion), `CreatePut`,
    `CreateSend`.
  - `update_workload`: `CallOther`, `UpdateGet` (existence, then validation),
    `UpdatePut`, `UpdateSend`.
  - `delete_workload`: `DeleteGet`, `DeleteInstances`, `DeleteWorkload`.
  - Reads: `GetWorkload`, `ListWorkloads`, `ListNodes`, `GetNode`,
    `InstancesGet`, `InstancesList`, and `StatusNodes`, `StatusWorkloads`,
    `StatusInstances` for `get_cluster_status`.
  - Every store call may fail, which returns an error.
  - Environment actions: `Receive` (the orchestrator takes the oldest
    definition), `Schedule` (it creates instances of a received workload) and
    `CloseRx` (it stops and drops its receiver).
- **The channel.** `send()` on tokio's bounded channel takes a slot through a
  fair semaphore.
  - A sender takes a free slot at once only when nobody is waiting.
  - Otherwise it queues (`Enqueue`), and the oldest waiter goes first.
  - Dropping the receiver fails every waiting send.
- **Abstractions.**
  - A request body is what validation reads: a name is empty or not, the
    container list is empty or not, and there are 0 or 1 replicas.
  - A definition is its id, its replica count and the request that wrote it.
    The writer tells two versions apart.
  - Response contents (counts, sums, conversions to response types) are left
    out. No decision reads them.
  - `update_workload`'s body is chosen at the step that first reads it.

### `Logs.tla`

This module models `get_logs`, the point-in-time log fetch, in its two
steps. `GetLogs` checks that `{state_root}/{id}/container.log` exists and
answers `Ok("")` if not. `GetLogsRead` awaits `read_to_string`, whose error
the `?` returns, and takes the tail. Two other actors act between those
steps:

- the container appends to its log (`WriteLog`);
- `remove_container`'s `youki delete --force` removes the container's state
  directory under the state root, log file included (`YoukiDelete`).

- **State.** The file (`log`, `logExists`), `deleted`, and the fetch: `lpc`,
  its `ltail`, and how it ended (`lres`, with its content in `lval`).
- **Operators.**
  - `Lines` is `str::lines()`: the final line ending is optional, and a CR
    right before an LF belongs to the line ending.
  - `SatSub` is `saturating_sub`, and `JoinLF` is `join("\n")`.
  - The reference `RefTail` is defined independently, from the positions of
    the line feeds.

### `UiCli.tla` (with `MC_UiCli.tla`)

This module models three `orch` subcommands, each a short sequence of HTTP
calls, run while other clients delete workloads and the orchestrator starts
instances. The HTTP client (`client.rs`) is not in the repository, so each call
is one atomic step that may fail. A path naming a workload that is gone answers
404.

- **State.**
  - Server side: `wls` (the workloads, as id and name), `ever` (ids ever
    handed out) and `sched` (ids with instances).
  - Per invocation: `pc`, then what each command carries between its calls.
    For logs that is `ref` and `target`. For status it is `listing`, the
    listed workloads the `--detailed` loop has still to visit. For deploy
    it is `arg` and `sent`. Every invocation also has
    a `reply`.
- **Actions.**
  - `deploy`: `Deploy`. An `--env`/`--label` value that `parse_env_var`
    refuses is a usage error. Otherwise there is one POST, which either fails
    or creates the workload under a fresh id.
  - `logs`: `LogsCall` (a UUID argument is used as it is), `LogsFind` (the
    list and the name/id-prefix match of `find_workload_id`), `LogsInstances`.
  - `status`: `StatusCall` (the two mode flags; with both given, nothing
    is shown), `StatusHeader` (cluster and node calls), `StatusWorkloads`
    (the list and the `--workload` filter), `StatusInstances` (one
    iteration of the `--detailed` loop). Each `print_data(..)?` (`Printed`)
    may end the command with its error. `output.rs` is not in the
    repository, so it is treated as an interface that may fail.
  - Environment: `ServerDelete` and `ServerSchedule`.
- **Abstractions.**
  - Ids and names are strings over a two-letter alphabet, because matching
    compares them character by character. An id has `IdLen` letters, and a
    name is shorter, so `Uuid::parse_str` rejects it.
  - `--env` values are strings over `{k, =, v}` up to `MaxArg` characters.
  - Printing and table layout are left out.
- **No termination property.** Each HTTP call is assumed to end, but
  `client.rs` is not in the repository, and reqwest sets no timeout by
  default. So nothing in this code shows that an `orch` command returns,
  and no run claims it.

### Runs

| Run | cfg | Expect | Checks | Shows |
|---|---|---|---|---|
| youki_safety | `YoukiCli_safety.cfg` | pass | TypeOK, RegisteredUntilRemoved, RemovedStaysGone, IndexAgrees, ImplementsRegistry, FallbackOnlyInTeardown | With two concurrent tasks and youki calls that fail or time out, registry entries live exactly from create's return to a successful remove. A stop racing a remove never brings an entry back. A removed id is absent from youki. The index agrees with the map except in the two-lock windows. Every step is a step of `ContainerRegistry` or leaves its state unchanged. The registry fallback answers only during an unfinished teardown. About 1.9M distinct states, 100 s. |
| youki_liveness | `YoukiCli_liveness.cfg` | pass | EveryCallReturns, TeardownIdempotent | Every call returns. This includes a stop on a container that ignores SIGTERM, and calls waiting for the lock that `remove_container` holds across an await. When youki always runs to completion, no stop or remove returns Err: not a second remove, not a stop or remove racing a remove, and not a call on an unknown id. About 356k distinct states. |
| stop_code_bound | `StopDeadline_bound.cfg` | pass | StopWithinCodeBound | `stop_container` returns within `3 x command_timeout + stop_timeout - 1 tick` whatever youki answers. The bound is reached: 29 ticks in the cfg. Writing the deadline test as `>` instead of `>=` exceeds it. |
| stop_spec_bound | `StopDeadline_spec.cfg` | violation | StopWithinSpecBound | See finding 3. |
| wl_safety | `WorkloadApi_safety.cfg` | pass | TypeOK | The handlers with two concurrent requests of every kind, failing store calls and an orchestrator that may stop. This run fires every action that the two violation runs rely on. About 745k distinct states, 20 s. |
| wl_resurrect | `WorkloadApi_resurrect.cfg` | violation | DeletedStaysDeleted | See finding 4. |
| wl_stale | `WorkloadApi_stale.cfg` | violation | OrchestratorSeesLatest | See finding 5. |
| logs | `Logs.cfg` | pass | TailIsLastLines | Every `get_logs` with a tail up to 4 that returns Ok returns exactly the last lines of the log at its read. This holds for every log of up to 5 characters over {a, CR, LF}, with writes and a delete racing the fetch. That covers CRLF, a bare CR, blank and unterminated lines, and reads that end mid-line. About 12k distinct states. |
| logs_race | `Logs_race.cfg` | violation | MissingLogIsEmpty | See finding 6. |
| youki_orphan | `YoukiCli_orphan.cfg` | violation | NoOrphanContainers | See finding 1. |
| youki_bundle | `YoukiCli_bundle.cfg` | violation | BundleGoneAfterRemove | See finding 2. |
| ui_cli | `UiCli.cfg` | pass | EnvArgParsed | The env entry every deploy sends is its argument split at the first `=`, and an argument without `=` sends nothing. The run fires every step of deploy, logs and status, with deletes by other clients between the calls. About 23k distinct states. |

**Bounds.**

- Two tasks are enough for every pairwise race: stop with remove, remove with
  remove, list with remove, and status with remove.
- Two ids let one container be created while another is being torn down.
  `Unknown` covers calls on an id nobody created.
- One node in the safety run keeps the run under a minute. Nodes play no role
  in any race beyond the per-node index entry, which `InitNode` and
  `CreateIndex` exercise.
- `MaxPolls = 2` lets the stop loop sleep, then reach the deadline.
- `MaxAbandoned = 1` (a named bound) allows one timed-out youki child at a
  time. That is enough for a timed-out delete or kill to complete after its
  caller has moved on.
- `IdleView` (in `MC_YoukiCli`) leaves out the stale per-task arguments of idle
  tasks. The model never reads them.
- Task symmetry is used in the safety run only.

- UiCli:
  - One invocation at a time. Other clients act through `ServerDelete`. Two
    invocations do not finish within five minutes.
  - Ids of two letters and names of one, over `{a, b}`. A name is then the
    prefix of some id, which is the case the name/id matching must get right.
  - `MaxArg = 3` gives the arguments `=`, `k=`, `=v`, `k=v`, `k==` and `==`.
  - `IdleView` (in `MC_UiCli`) leaves out the arguments of a finished
    invocation. For `arg`/`sent` it keeps only the truth of the property
    that reads them.

- Logs: five characters over three symbols give every arrangement of
  endings a three-line tail can distinguish. One write and one delete may
  fall between the two steps of a fetch. `Logs_race.cfg` needs only a
  one-character log.
- WorkloadApi:
  - One workload id suffices, because every race in the handlers is between
    requests on the same workload. Two ids would only multiply states.
  - Two requests give every pairwise race: update with delete, create with
    update, and update with update.
  - `ChanCap = 1` makes the channel fill up, so sends queue.
  - `IdleView` leaves out the stale data of idle requests.

**Fairness.** Tokio polls every ready task, and its RwLock queues waiters in
FIFO order. So a call already under way keeps taking steps: `WF_vars(Step(t))`.

There is no fairness on starting calls, on containers exiting, or on abandoned
children finishing. Nothing in the code forces any of them.

WorkloadApi and UiCli assume no fairness. The store, the orchestrator loop
and the HTTP client are not in this repository, and reqwest sets no default
timeout. So nothing in this code makes a request or a command return.

The liveness run uses a youki that always answers `ok`. A failure or a timeout
only ends a call sooner. With failures enabled, fairness on a task's step would
also force youki to fail eventually. That is a property of scheduling, not of
youki.

### Findings

1. **A failed create leaks a youki container (code bug,
   `youki_cli.rs:508`).**
   - Suppose youki create succeeds and youki start then fails or times out.
     `create_container` returns Err.
   - The created container stays in youki, with its init process waiting.
     Its id is never given to any caller, so `remove_container` can never be
     called on it.
   - Spec 4.2 says a failed create leaves only on-disk artifacts, which removal
     cleans up.
   - TLC trace: `CreatePrepare`, then `CreateYouki` (`ok`), then `StartYouki`
     (`fail`).
2. **A successful remove can leave the bundle directory behind (spec/code
   divergence, `youki_cli.rs:573`).**
   - `remove_container` discards `cleanup_bundle`'s error with `.ok()` and
     returns Ok when `remove_dir_all` fails.
   - Spec 4.2 says a successful removal removes the bundle directory. Spec 8
     says create followed by remove leaves it absent.
   - TLC trace: a create, then a remove whose `CleanupBundle` keeps the
     directory.

3. **`stop_container` can take far longer than spec 8 allows (spec/code
   divergence, `youki_cli.rs:540`).**
   - Spec 8 bounds the call by stop_timeout + polling interval + epsilon.
   - The deadline is taken only after SIGTERM returns. It is checked only after
     each `youki state` returns. SIGKILL follows it.
   - Each of these youki calls is bounded only by `command_timeout`. In the
     shortest TLC trace, one `youki state` call takes 6 of the 9 ticks and
     then returns an error, which ends the loop with Err after the bound.
     `StopWithinCodeBound` shows the worst case the code allows.
   - The worst case is `3 x command_timeout + stop_timeout`, about 100 s with
     the defaults.

4. **An update can bring back a deleted workload (code bug,
   `handlers.rs:388`).**
   - `update_workload` checks that the workload exists (line 362) and puts the
     new definition several awaits later.
   - A `delete_workload` that completes in between, answering 204, is undone
     by the put. The workload is also resubmitted to the orchestrator.
5. **The orchestrator can be left on an overwritten definition (code bug,
   `handlers.rs:395`).**
   - Two writers of one workload each put to the store and then send, as two
     separate awaits.
   - The puts and the sends can happen in opposite orders. Once both requests
     return and the channel is drained, the orchestrator's last definition is
     not the stored one.
   - TLC trace: create puts, update puts and sends, then create sends.
6. **Fetching the logs of a container being removed can fail (spec/code
   divergence, `youki_cli.rs:372`).**
   - `get_logs` checks that the log file exists, and only then awaits
     `read_to_string`.
   - A concurrent `remove_container` runs `youki delete --force`, which
     removes the state directory and the log file in between. The read's
     error is returned by the `?`.
   - Spec 4.4 says a missing log file yields an empty result, not an error.
   - TLC trace: `WriteLog`, `GetLogs` (the file exists), `YoukiDelete`, then
     `GetLogsRead` returns Err.

More disagreements were met while modelling. The first five are not kept as
runs, because a unit test reaches each of them directly. The last is kept by
the model, but no run states it, because the checker's limit on runs was
spent on the findings above:

- The two registry maps are updated under separately taken locks
  (`youki_cli.rs:521`). Spec 3 calls them always consistent. `IndexAgrees`
  states what does hold.
- `update_workload` stores and submits zero replicas (`handlers.rs:369`),
  which `create_workload` rejects.
- `orch logs a` reports an ambiguous reference for the one workload named `a`
  once another workload's id begins with `a` (`logs.rs:202`).
- `orch deploy` sends `env` and `resources {cpu_millicores, memory_mb}`
  (`deploy.rs:69-76`, `114-137`). The server's request type expects
  `env_vars` and `resource_requests {cpu_cores, memory_mb, disk_mb}`, all
  `#[serde(default)]` (`handlers.rs:40-54`). The env vars and resource
  requests a user gives are dropped without an error. `EnvArgParsed` checks
  what the client sends; the field names are wire format and are not modelled.
- `orch status` reads `/api/v1/cluster/status` into a type with required
  fields `node_id`, `cluster_size` and `is_leader` (`status.rs:32-39`).
  `get_cluster_status` answers `total_nodes`, `ready_nodes` and so on
  (`handlers.rs:143-157`, `501-568`), none of which are those fields. The
  cluster section can only print its error branch. The list endpoints answer
  a `ListResponse {items, count}`, and the client asks for a bare `Vec`.
  Whether `ApiClient::get` unwraps `items` depends on `client.rs`, which is
  not in the repository. `UiCli` keeps both branches of every call.
- `remove_container` holds the `containers` write guard, taken at
  `youki_cli.rs:572`, across `cleanup_bundle().await` (`:573`). Spec 4.3
  says no I/O happens under a registry lock. A slow `remove_dir_all` stalls
  every list, status and create on the runtime. `StopDeadline` does not
  count this wait: its bounds are for a stop that finds the lock free.

## 3. Not modelled (yet) and why

- **The stats collector.** `get_stats` reads two cgroup files that only the
  kernel writes, and turns every missing file or parse failure into 0, which
  spec 4.5 allows. It keeps no state and nothing in it interleaves. The one
  conversion, the `* 1000` of `parse_cpu_usage`, is what
  `test_parse_cpu_usage` checks. So a model would have no property to check.
- **`InitNode`'s failure path.** A failed `create_dir_all` in
  `ensure_node_dir` returns Err before any state changes, so the model
  leaves it out.

- **Log follow mode.** Spec 4 and 7 describe a watcher task and a broadcast to
  subscribers. In the source, `log_streams` is declared and initialised but
  never used. There is no watcher or broadcast to model, so the log
  subsystem's code, `get_logs`, is modelled whole.
- **A restart of the runtime.** A new `YoukiCliRuntime` starts with empty
  maps, while youki's state root and the bundle directories persist. A
  remove of a container created before the restart finds no entry and leaves
  its bundle. That is the outcome `BundleGoneAfterRemove` already shows
  (finding 2). Spec 3 ties the registry's lifetime to the engine's, so it
  states nothing across a restart that a run could check. The registry
  invariants and the refinement hold per engine instance.
- **`delete_workload` and the orchestrator.** `delete_workload` removes the
  instances and then the workload. It sends nothing on `workload_tx`, so
  the orchestrator's view keeps the deleted workload. Whether an instance it
  writes between or after the two store calls outlives its workload depends
  on the orchestrator, which is not in this repository. A failed second call
  leaves the workload stored and instance-free, and a retried delete
  completes it.
- **`with_config` and `verify_binary`.** These are setup I/O. The model starts
  from the runtime they return.
- **The other `orch` commands, the `orchestrator_api` and `orchestrator_cli`
  mains, crate roots, observability.** These are presentation and
  placeholders, with no state changes. `orchestrator_cli/src/main.rs` only
  prints a TODO, and `container_runtime/src/lib.rs` only declares modules.
- **The `orch` HTTP client.** `ui_cli/src/client.rs` is not in the
  repository. UiCli treats each of its calls as one atomic, possibly failing
  step.
- **`ApiState`.** It is a holder of shared handles. Its store and channel are
  WorkloadApi's variables.
- **The state store and the orchestrator loop.** They are not in this
  repository. WorkloadApi models them as atomic, possibly failing store calls
  and a channel receiver.

## 4. Plan

Each item is ordered by importance to the behaviour of the system.

1. **Done.** `YoukiCli`: the registry and lifecycle under concurrency and youki
   timeouts, with safety, liveness and two findings.
2. **Done.** `StopDeadline`: the spec-8 bound (finding 3) and the bound the
   code meets. Stop and remove idempotence is checked in `YoukiCli`
   (`TeardownIdempotent`).
3. **Done.** `ContainerRegistry`, the registry's contract, with `YoukiCli`
   checked to implement it. Cached-status staleness is confined to an
   unfinished teardown (`FallbackOnlyInTeardown`). Still to do: reply
   recording in `YoukiCli` for `get_container_status` (the spec-8 contract).
4. **Done.** `Logs`: `get_logs` checked against reference definitions, with
   writes and a delete racing it (finding 6).
5. **Done.** `WorkloadApi`: findings 4 and 5. Still to do: a property on `delete_workload`'s
   partial failure, if the orchestrator's contract becomes known.
6. **Done.** `UiCli`: deploy, logs and status. Still to
   do: two concurrent invocations, if a smaller view makes them fit.
7. **Done.** A registry fallback taken only during teardown. Still to do: a
   run on the lock `remove_container` holds across I/O (spec 4.3). A restart is not modelled;
   section 3 says why.
