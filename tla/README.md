# Verification of swarm-mcp

This directory holds TLA+ models of swarm-mcp, the coordination server in this
repository: one process that lets many coding agents share tasks, context and a
git repository over MCP (HTTP) and MQTT. The models are written from the code
under `src/src/` and `src/include/mcp_collab/`; `PROJECT.json` maps every
definition to the lines it stands for.

Paths below are relative to `src/src/` unless they start with `include/`.

## 1. Inventory

### 1.1 Parts of the system

| Component | Code | State | Operations | Modelled by |
|---|---|---|---|---|
| Task store | `workspace/task_manager.cpp` | `tasks_` behind a `shared_mutex` | create, delete, assign, set status, add/remove dependency, ready tasks, restore | `TaskManager`, `TaskManagerProofs` |
| Cycle search | `would_create_cycle` in the same file | stack and visited set of one call | one depth-first search | `CycleSearch`, `CycleSearchProofs` |
| Task tools | `mcp/tools.cpp` | none; handlers on HTTP workers | `task_create`, `task_assign`, `task_update_status`, `task_ready` | `TaskTools`, `TaskManagerProofs` |
| Git wrapper | `git/operations.cpp` | the repository; `exec_mutex_` | checkout, add, commit, merge, squash, rebase, each a child process with a 30 s limit | `GitRepo` |
| Branch manager | `git/branch_manager.cpp` | `branches_` behind a `shared_mutex` | create_branch, commit_changes, lock/unlock/merged/abandoned | `BranchManager`, `MergeCoordinatorProofs` |
| Merge coordinator | `git/merge_coordinator.cpp` | `requests_` behind a `shared_mutex` | request, approve, reject, execute, auto-merge | `MergeCoordinator`, `MergeCoordinatorProofs` |
| Persistence | `util/persistence.cpp` | the snapshot file, `path.tmp` | save, load, save_if_changed, auto-save thread | `SnapshotFile` (abstract), `Persistence`, `ServerProofs` |
| Server life cycle | `mcp/server.cpp`, end of `main.cpp` | `running_`, three threads, the stores' contents | start, load, stop, destruction; heartbeat, prune and auto-save loops | `Server`, `ServerProofs` |
| HTTP transport: admission | `http/handler.cpp` | a deque of times per address | `RateLimiter::allow`, `authenticate` | `RateLimiter`, `HttpAccess`, `HttpProofs` |
| HTTP transport: POST | `http/handler.cpp` | one body per worker | authenticate, inject the token's identity, handle the batch, reply | `McpPost`, `ProtocolProofs` |
| HTTP transport: event streams | `http/handler.cpp` | `clients_`, a queue per stream | GET, DELETE, broadcast, provider and releaser of a stream | `SseStream`, `HttpProofs` |
| Tokens | `util/auth.cpp`, `--enroll` in `main.cpp` | `active_tokens_`, `revoked_token_ids_` | issue, validate, revoke, refresh | `AuthProvider`, `HttpAccess`, `HttpProofs` |
| Agent registry | `workspace/agent_registry.cpp` | `agents_` behind a `shared_mutex` | register, update, deregister, heartbeat, prune, set role | `AgentRegistry`, `Workspace`, `WorkspaceProofs` |
| Event bus | `workspace/event_bus.cpp` | `handlers_`, bounded `event_log_` | subscribe, unsubscribe, emit, query | `EventBus`, `Workspace`, `WorkspaceProofs` |
| Context store | `workspace/context_store.cpp` | entries with versions | set, merge (delete and partial update are not called) | `ContextStore`, `Workspace`, `WorkspaceProofs` |
| MQTT connection | `mqtt/client.cpp`, `mqtt/channel.cpp` | connection, subscriptions, handlers | connect, subscribe, unsubscribe, publish, dispatch | `Mqtt`, `MqttProofs` |
| MQTT envelopes | `mqtt/secure_mqtt.cpp`, the bridges of `mcp/server.cpp` | none | sign, verify, freshness, hand over to the registry | `Presence`, `MqttProofs` |
| MCP protocol | `mcp/protocol.cpp`, roles in `include/mcp_collab/auth.hpp` and `mcp/tools.cpp` | `initialized_`; method, tool, resource and prompt tables | dispatch with its checks, call, list page by page | `Roles`, `McpProtocol`, `McpPost`, `McpList`, `ProtocolProofs` |
| Resources, prompts | `mcp/resources.cpp`, `mcp/prompts.cpp` | none | read-only views and texts | which there are and who may read them: `McpProtocol` |
| Configuration, entry | `util/config.cpp`, `main.cpp` | the settings, fixed after start | read arguments, environment and file, choose | `Config`; `Server` and `HttpAccess` for what `main` then does |
| Keychain, UUIDs, platform | `util/keychain.cpp`, headers | none | wrappers of OS services | not modelled |

### 1.2 How they interact

* HTTP workers call the tool handlers, which call the stores directly. Every
  store has its own lock, taken by each operation alone: a handler that makes
  several calls is not atomic.
* A store calls its listener *after* it released its lock, with a copy of what
  changed. The server's listeners put an event on the event bus.
* Branch manager and merge coordinator share one working tree. `exec` runs one
  git process at a time; nothing serialises a call of several commands.
* A POST is handled by one HTTP worker, its requests in turn. The transport puts
  the token's agent and role into each request; the protocol decides by them and
  hands them on to the tool. All clients share one flag `initialized_`.
* The registry dates reports by its own clock, whether they come from a tool or
  over MQTT; whether an envelope is new is decided by the sender's clock.
* The auto-save thread reads the stores one after the other while requests
  change them; load runs before any other thread of the server.
* Agents edit the working tree from outside the process; a person may repair
  the repository at any time.

### 1.3 What is hard

The behaviours that tests of this code hardly reach, each listed with its line
under `hazards` in `PROJECT.json`:

* interleavings of multi-call handlers (task_create, create_branch,
  commit_changes, execute_merge, refresh_token);
* git commands that fail, stop in a conflict, or are killed after they did
  their work;
* a process killed, or a power failure, between any two steps of a save;
* a transport that fails to start; stop() racing a save;
* a batch that fails in the middle, a flag that all clients share, paging over
  a table of which a role sees a part;
* envelopes that the broker delivers late and again, under clocks that differ;
* settings from four sources, of which each is read into a struct with values;
* queues at their bound while they are drained; a sliding window at its edge;
* searches over graphs that are shared, broken or cyclic.

What makes each component correct is stated as its properties in section 3.

## 2. Modules

```
Functions                          SnapshotFile (abstract cell)
   |                                    ^ refined by
TaskManager <--INSTANCE-- CycleSearch   |
   ^                               Persistence
TaskTools                               ^
                                   Server
GitRepo
   ^                               Clock <- RateLimiter  <-+
BranchManager                        ^                     +- HttpAccess
   ^                                 +---- AuthProvider  <-+
MergeCoordinator
                                   Roles <- McpProtocol <-+- McpPost
AgentRegistry (on Clock) <-+                              +- McpList
ContextStore             <-+
EventBus                 <-+- Workspace    SseStream   Mqtt   Config
AgentRegistry <-- Presence
```

`XProofs` extends `X` and TLAPS, `TaskManagerProofs` the tools and with them the
store, `MergeCoordinatorProofs` the coordinator with the scenarios of its run, since
it proves what the run checks of calls in turn; `HttpProofs` extends
`HttpAccess` and `SseStream`, `MqttProofs` extends `Mqtt` and `Presence`, and
`ProtocolProofs` extends `McpPost` and `McpList`. `MCX` extends
`X` with a symmetry set, the values TLC needs or, where one run asks about two
scenarios of a component, a variable that says which and never changes.

**TaskManager.** `tasks` is `tasks_`: a function whose domain is the stored
ids, each task its status and its set of dependencies. An operation is the
locked change, which leaves the listener's copy in `note[t]`, and a separate
step `Notify(t)`; in between other threads run. The cycle check is one step
here, because it runs under the caller's exclusive lock. Titles, tags,
priorities, assignees and time stamps guard nothing and are left out; blocked,
failed and cancelled are one status, since no code of the component tells them
apart.

**CycleSearch.** The `while` loop of `would_create_cycle`, one turn per step,
with the vector used as a stack and the visited set, started on *every* store
over the ids, cyclic ones included. Its result is compared with
`WouldCreateCycle` of `TaskManager`, which is what entitles `TaskManager` to
take the answer in one step.

**TaskTools.** Handlers on top of the store: `task_create` creates, then
adds the named dependencies one call at a time, ignoring the results. It may
throw half-way, at an element of `dependencies` that is no string.

**GitRepo.** The repository as the wrappers see it: HEAD, the changes each
branch holds, working tree, index, a merge or rebase that waits to be
concluded. A command's outcomes are success, failure without effect, a stop in
a conflict, and failure although it took effect (killed after 30 s). The wrappers
hand git any name their callers give. A name is a branch's or `Elsewhere`, which
stands for all others; `Checkout` of it is whatever git may make of such a name at
that moment: HEAD on a commit and off every branch (`loose` is what it then
contains), a branch made from a remote's, files checked out while HEAD stays, the
branch that `HEAD` or `@{-1}` names, or a failure. What git itself does is marked
external in the map; the wrappers' lines are mapped.

**BranchManager, MergeCoordinator.** Each call is a record in `call[t]` or
`exec[t]` that says which git command comes next; any thread's command can run
between two of them. The three merge strategies follow `perform_merge` command
by command; `Settle` sets the status without looking at what it has become, as
the code does. `commit_changes`, the base of `create_branch` and both sides of
`request_merge` are any names; only a created branch has the name of one, which
`make_branch_name` makes. `TurnSpec` is the specification of calls in turn,
`NamedSpec` that of calls in turn of which `commit_changes` is told branches.

**SnapshotFile, Persistence.** The abstract file is one cell. `Persistence`
writes `path.tmp`, syncs it and renames it, over a file system that writes data
and directory back to disk separately; a crash goes back to the disk.

**Server.** The main thread's steps through `start()`, `stop()` and the
destructor; three threads; stores whose content is the number of the change
that made it, so that greater is later; the auto-save thread collecting a
snapshot store by store. `Killed` and `PowerCut` can happen at any time.

**Clock, RateLimiter, AuthProvider, HttpAccess.** The limiter's deque per
address and `allow`, whose eviction compares *whole seconds*; tokens with
issue, validate, revoke and the three separately locked steps of
`refresh_token`; a request passes the limiter and then authenticates, and
requests interleave between the two. `Restart` loses what is in memory only.
`admitted` and `withdrawn` are histories.

**Roles, McpProtocol.** The permissions of the three roles and of every tool,
and one request: the order of the checks in `handle_request`, which of them look
at the role in `params._auth`, and what is answered. Arguments, results and the
text of errors are left out; methods that only read and check the same are alike.

**McpPost.** Workers with a POST each. `Handle` injects the token's role into the
request whose turn it is and does what `McpProtocol` says, reading and setting
the shared flag; a request of a type the code does not expect ends the POST with
500; the reply is 202 without a body if nothing has an id. The state of a POST is
what it was answered so far and which tools ran, and with which role.

**McpList.** `handle_tools_list`: the loop skips what the role may not use before
it counts, and compares with the size of the whole table at the end. The client
asks for pages of any limit, in any order of the `unordered_map`, and is careful
(stops at an empty page) or not.

**Config.** Arguments, secret file, configuration file, environment, keychain, in
the order of `main`. Each source is read into a struct made with the built-in
values; the pickers then choose among structs, not among sources.

**SseStream.** A GET adds a client and occupies a worker that takes from the
stream's queue and writes; a broadcast holds the mutex of `SseStream` and calls
each client's sink in turn, so workers run between two sink calls; DELETE
removes a client and does not end its stream.

**AgentRegistry, ContextStore, EventBus, Workspace.** The first three are the
state and the operations of one class each, every operation one step, since it
holds the class's lock throughout. `Workspace` composes them the way the tools,
`prune_loop` and the listeners of `SwarmServer::start` do: a thread makes its
change under the store's lock and then emits events outside of it, handler by
handler, while other threads do the same. `emit` copies the handlers when it
begins and logs the event when all returned. `reported`, `heard` and `joined`
are histories. An agent is the time of its last report; a context value is named
by the change that made it.

**Presence.** Heartbeats over MQTT into the same registry. An envelope is whom it
is about, the time stamp of its sender, and where it is from: only those signed
with the swarm's secret and naming the swarm pass `verify`. The broker delivers
what it holds in any order and any number of times, and the sender's clock is off
by up to `Drift`. `spoke` is a history: when somebody last reported for an agent.

**Mqtt.** `MqttClient` under `SecureMqttClient`, subscribed to by
`ChannelManager`. A caller's subscribe or unsubscribe is three steps, as it takes
`cb_mutex_`, `topics_mutex_` and the library one after the other; the library's
thread delivers notices of the connection and messages, and holds these mutexes
shared while it is in `handle_message` and in a handler, so that the caller waits
there. Paho and the broker are external and modelled by what the code relies on:
a clean session, commands sent in order and dropped with the connection, every
subscription granted. The library reconnects by itself and, as `onSuccess` of a
connect is for its first attempt and the code sets no `MQTTAsync_setConnected`,
calls `on_connect_success` only for the connection that answers `connect()`:
`attempt` says which one it is, `ConnectFails` and `LinkLost` end the first.

## 3. Runs

All passing runs end with no error; their bounds are in the `.cfg` files.

| Run | What is asked | Bounds, and why they are enough |
|---|---|---|
| `Tasks` | `TypeOK`, `NoCircularWait`, `ReadyUnlessHeld`, `AnsweredAsNamed` | 3 tasks: every digraph on three nodes, so cycles of length 1 to 3 and shared dependencies; 2 threads, so that one changes the store while the other has a listener call outstanding. Two scenarios: any caller of the store, or the tool handlers, where a creation names two tasks, one of them just being created by the other handler |
| `CycleSearch` | `AnswersRight`, `Terminates` | every store of up to 3 ids (with deleted ones), every order of each dependency list |
| `Merge` | `CompletedIsHeldInTurn`, `NothingDamagedInTurn`, `OutcomeStaysInTurn`, `CommitsLandInTurn`, `OnlyApprovedRuns`, `ReviewedOnce`, `RegistryMatchesGit`, `RegisteredOnce` | 2 threads on one request, Main, one task branch and any other name. Three scenarios, two of calls in turn (`InTurn`: at most one thread is in a call at a time, whichever it is). "named": requests are given any two names, `commit_changes` branches; 2 changes, which is what it takes for branches to conflict. "in turn": `commit_changes` is given any name, requests branches; one change. "any": calls overlap and are given branches; one change. `CompletedIsHeldInTurn` and `NothingDamagedInTurn` are asked of the first, the other two named `InTurn` of the first two, the rest of all. Where no more than a state "active" matters, a branch of the registry is active or merged (`TwoStates`). That the names are restricted only to keep the instance small shows in the theorems: `TurnSpec` and `MergeSpec` give every call any name |
| `Server` | `ServerTypeOK`, `NothingSavedIsLost`, `NoSaveAfterStop`, `IsSnapshotFile`, `SnapshotIsRecent` | 3 stores, one of which is not restored; 2 changes over all runs, one ahead of a save and one behind it |
| `SseStream` | `SseTypeOK`, `NewestKept`, `InOrder`, `EndedIsForgotten`, `NewestArrives` | 2 streams; queues of 2 and 3 notices, one more than a queue holds |
| `HttpAccess` | `NeverOverLimit`, `RefusedOnlyAtLimit`, `RevokedForever` | a window of two ticks, of two ticks to the second, in four; limit 2; 2 addresses; 2 tokens |
| `Protocol` | `OnlyPermittedRuns`, `ToldIsTrue`, `ListedIsCallable`, `PagingAdvances` | 2 workers, so that one initializes the server, or the process restarts, between two requests of the other; bodies of up to 2 requests: of every kind alone, and every pair of a call, a listing or a malformed request after a call or an initialization, with and without ids and with an `_auth` of the client's own. A table of 4 tools of which the roles may use two, three and all, in every order, pages of 1 and 2 |
| `Workspace` | `WorkspaceTypeOK`, `InTimeStays`, `LoggedIsHeard`, `VersionsOrderWrites`, `GhostsGoStale`, `StaleLeaves` | Two scenarios. Threads: 2 workers and the prune thread; 2 agents, so that one is pruned and one is not; a timeout of one second of two ticks, so that a report's age can be a fraction of a second; 2 changes of one key; a log of 2 events; 3 ticks. Mail: one agent, 2 envelopes, so that an old and a new one are delivered in either order; clocks a tick off; 6 ticks, the last at which an envelope of a dead agent could still have kept it |
| `Mqtt` | `SettledAgree`, `QuietAfterUnsubscribe`, `HeardOnceUp` | 3 filters, so that the subscriptions made at a connection mix with a subscribe and an unsubscribe; any number of connections, the first attempt of which can fail; 2 changes of the connection the code has not been told of; 2 commands the caller leaves to be sent |

Runs that show a disagreement of the code with what it says of itself; each is
a finding in `PROJECT.json`:

| Run | Property violated | What happens |
|---|---|---|
| `BranchBase` | `ForksFromBase` | `create_branch` runs `git checkout -b` without the base: the branch starts at HEAD while the requested base is recorded and logged |
| `Config` | `FirstNonEmptySource` | the pickers compare structs that were made with the built-in values: for the MQTT and HTTP host, the server's name, the endpoint and the branch prefix the built-in value counts as the option's, and for ports and the rate as the environment's, so what a later source gives is ignored |
| `HttpEnroll` | `EnrolledIsAccepted` | the token that `--enroll` prints is in the memory of that process only, and the server answers 401 to it |

### 3.1 What the properties are about

* `NoCircularWait`, `ReadyUnlessHeld`: the dependency graph stays acyclic
  whatever threads add, remove and delete, so pending work can be started or
  waits for something that is not pending.
* `AnsweredAsNamed`: although dependencies are added one call
  at a time and results are ignored, an answered task has exactly the named
  dependencies that exist. *Before* the answer the task is visible without them,
  `task_ready` lists it, and another agent can be assigned it.
* `CommitsLandInTurn`: as long as calls do not overlap, a commit lands on the
  branch its call was told, and a branch that no call under way was told to change
  moves only if one was told a name that git takes and that is no branch.
* `CompletedIsHeldInTurn`, `NothingDamagedInTurn`: of calls in turn of which
  `commit_changes` is told branches, a completed request whose target is a branch
  has a target that holds the source, whatever the source is named, and no markers
  are committed. A request whose target is no branch is not spoken of: its merge
  lands elsewhere (section 5). With the name of a file, `commit_changes` breaks
  both: git then checks nothing out and minds no conflict.
* `OutcomeStaysInTurn`: a request is run once, if runs do not overlap.
  None of these four holds of calls that overlap.
* `OnlyApprovedRuns`, `ReviewedOnce`, `RegistryMatchesGit`, `RegisteredOnce`: what
  survives overlapping calls without a lock across them.
* `IsSnapshotFile`: a save is atomic in face of crashes.
* `NothingSavedIsLost`, `SnapshotIsRecent`: a running server knows all that the
  file knows (of the restored stores), so a save never takes the file back.
* `NoSaveAfterStop`: `stop()` waits for a save under way before the stores go.
* `NewestKept`, `InOrder`: what the queue's bound drops is the oldest, and a
  client sees the order of the broadcasts.
* `NewestArrives`: a notice that no later one pushes out arrives.
* `NeverOverLimit`, `RefusedOnlyAtLimit`: the window bounds both sides.
* `RevokedForever`: neither a restart, which forgets the revoked ids, nor a
  refresh under way brings a revoked token back.
* `OnlyPermittedRuns`: two checks of the protocol and the transport's injection
  together let a tool run with the token's role or not at all, whatever `_auth`
  the client wrote into its request and whatever else is in the batch.
* `ToldIsTrue`: answers stand for what ran, in place and under their ids, and a
  reply without a body hides no run the client asked an answer for. A reply of 500
  is excepted: requests before the malformed one have run (section 5).
* `ListedIsCallable`: what a client can find by paging is what its calls are not
  refused for, although listing and calling decide in code of their own.
* `PagingAdvances`: paging ends though the comparison with the whole table gives a
  restricted role a cursor for ever: every page but the last moves the cursor, and
  only a careless client asks for the same empty page again.
* `GhostsGoStale`: late and repeated envelopes keep no agent for which nobody
  reports any more, beyond the timeout, the age of an envelope and the error of
  clocks added up.
* `InTimeStays`, `StaleLeaves`: the prune thread takes no agent that reported in
  time, however its sweep falls between two heartbeats, and takes the others.
* `LoggedIsHeard`: a subscriber need not read the log: it was called with
  everything in it that was emitted after it subscribed.
* `VersionsOrderWrites`: events of concurrent writers can be emitted and logged in
  another order than they wrote; the version in the event tells which is newer.
* `QuietAfterUnsubscribe`: no handler runs once its unsubscribe is through with
  the first lock.
* `SettledAgree`: sessions end, commands are refused or lost, and a call is three
  steps; still, when nothing is under way, the client's two maps and the broker
  hold the same filters, in the connection that answered `connect()` the broker
  holds them too and `connected_` is set, and in one the library made by itself
  the flag is not set and the broker has at most these filters.
* `HeardOnceUp`: once the connection that answered `connect()` stays up, the broker
  comes to have all that stays registered, whenever it was asked for. In any
  connection it comes to have what is asked for in it and nothing else.

### 3.2 Fairness

* `CycleSearch!FairSpec`: `WF(Next)`; the loop is sequential code on a running thread.
* `SseStream!FairSseSpec`: `WF(Worker(s))`, a worker thread in a loop that polls
  every 100 ms, and `WF(Call(s))`, the loop of a broadcast. `Unlocked`, the guard
  of `Release`, is false only while a broadcast is under way, and the broadcasts of
  the model are bounded by `MaxNotices`. Clients need not stay, and nothing is
  assumed of broadcasts, GETs or DELETEs being made.

* `MCWorkspace!FairMCSpec`: `WF(Prune)` and `WF(Emits(Pruner))`, the prune
  thread, which loops until the server stops and whose handlers' exceptions are
  caught; in the scenario of MQTT heartbeats `WF(PruneRound)`, the same thread.
  Nothing is assumed of workers, of the broker, or of the clock.
* `Mqtt!FairMqttSpec`: `WF(Send)`, the library's sending; `WF(CallLibrary)`, the
  last, lock-free step of a caller; `WF(Callback)` and `WF(Handle)`, the library's
  thread and the handlers it runs, which return. The caller need not get a lock
  nor make calls, and the connection need not come up nor stay.

`CHECK_DEADLOCK FALSE` is in the configurations where the modelled system may
stop: a search has ended, ids, notices or ticks of the bounded instance are used
up.

## 4. Proofs

TLAPS proves these theorems for every value of the constants (any number of
tasks, threads, requests, streams, addresses, ...) under the named assumptions
of the modules, which only say that the markers for "none" are not values, that
the bounds are natural numbers and, for `WorkKeepsMoving`, `CycleSearch` and
`Workspace`, that the set of ids is finite, as `Mqtt` does of the filters.

| Module | Theorems | Argument |
|---|---|---|
| `TaskManagerProofs` | `TypeCorrect`, `CircularWaitFree`, `WorkKeepsMoving`, `AnswersAreKept`, `ToolsImplementStore` | `NoCircularWait` is inductive once `WouldCreateCycle` is: a set that a new edge would make circular contains all the dependency depends on. Deleting or removing only shrinks `Depends`. `ReadyUnlessHeld` follows by applying it to the set of pending tasks. `AnsweredAsNamed` needs that no dependency of a creation is refused, and for it `Apart`: around what a creation has left to add there is a set of tasks closed under dependencies that misses the new task. That is an invariant because handlers name only tasks issued before they began. With it every step of a handler is an operation of the store or none, so the tools implement the store and inherit its theorems |
| `CycleSearchProofs` | `SearchCorrect`, `SearchAnswersRight`, `SearchAdvances` | the loop invariant of a depth-first search, stated with closed sets in place of paths. `TurnsLeft`, quadratic in the number of tasks, falls with every turn: an id is visited once, and then pushes at most all ids. That is the part of `Terminates` the prover can state |
| `MergeCoordinatorProofs` | `RegistryAgrees`, `ApprovedRunsOnly`, `MergesKeepRegistry`, `ReviewsAreFinal`, `MergedIsHeld`, `MarkersAreNotCommitted`, `OutcomesAreFinal`, `CommitsLandWhereTold`, `OneWorkerIsInTurn` | `RegistryInv`: types, registry within git, and at most one call about to register a branch, since git creates a branch once. `MergeInv` adds that what a running call read of a request can only have moved on to an outcome. Of calls in turn, with any names, `TurnInv`: HEAD is on the branch the next command of the one call under way is meant for, if the call was told the name of a branch, since the checkout put it there and nobody else moves HEAD off a branch; its request is still approved. It gives `CommitsLandWhereTold` and `OutcomesAreFinal`. `NamedInv` adds, for `NamedSpec`, that markers or a stopped merge come with conflicting entries in the index (`Calm`), so that no call past its checkout can commit them, and that what a run squashed is staged or on the target. A branch never loses a change, so what a completed request left is still held. It gives `MergedIsHeld` and `MarkersAreNotCommitted`. Each is stated of `TurnSpec` or `NamedSpec` and of the instances TLC runs; with one worker calls are in turn without a condition, and only `[]CommitsAreNamed` is left as one |
| `ServerProofs` | `FileImplementsCell`, `ServerImplementsCell`, `ServerKeepsWhatIsSaved`, `ServerStopsSaving`, `ServerTypes`, `SnapshotsAreRecent` | step simulation of the cell by the file, from `FileInv` (only whole files are renamed); `LifeInv` ties each thread's state to the main thread's; `KnownInv` orders file, collected snapshot and stores. `CollectInv`: what was collected so far is as recent as the store was when the thread woke, which is at most what the stores yet to be collected have |
| `HttpProofs` (streams) | `ClientsMissOnlyTheOldest`, `ClientsSeeBroadcastOrder`, `EndedStreamsAreForgotten`, `SseTypes` | `SseInv`, per stream: what its stage says of queue and message, received < writing < queued, all at most the newest pushed, and consecutive numbers in the queue |
| `HttpProofs` (admission) | `NeverOverTheLimit`, `RefusalsAreEarned`, `RevokedStaysRevoked`, `AccessTypes` | the deque is a suffix of the admissions and everything no longer in it is a period old; `WholeSeconds` shows that the truncated comparison of the code is the exact one. A withdrawn token is signed and not active, and only unsigned ones are issued |
| `ProtocolProofs` | `PostTypes`, `RunsArePermitted`, `RepliesTell`, `ListedTools`, `PagesAdvance` | per worker, by induction over the requests handled: what ran and what was answered are `McpProtocol`'s for the injected request; `initialized` only falls when all POSTs do. For listing: `seen` is the first part of the order up to the cursor, so a client that stopped has seen all of it once |
| `WorkspaceProofs` | `ReportersStay`, `VersionsTellTheOrder`, `SubscribersHear`, `LogFollowsContext`, `WorkspaceTypes` | `ReportInv`: a registered agent's entry is its last accepted report, and a report younger than the timeout, cut to whole seconds, is not stale. `VersionInv`: all entries of a key in events due, under way and logged are ordered and not above the stored one, so the next write is above all of them; emitting only moves events. `HeardInv`: of an event under way, every subscriber that joined before its number was given was called or is among the calls left. `NewestTold`: the stored entry of a key is in an event due, under way or logged, as long as the log has dropped nothing. So when all is emitted, the newest versions in the log are the context (`LogCatchesUp`). The types need that a version is at most the number of changes |
| `MqttProofs` | `MqttTypes`, `AgreeWhenSettled`, `NoHandlerAfterUnsubscribe`, `GhostsLeave` | What the broker *will have* is what the last command about a filter in the outbox says: sending changes nothing of it. `SessionInv`: while the link is up, that is at most what is registered, but for the call about to reach the library; in the connection that answered `connect()` it is all of it once the code has been told, as it then asks for everything registered. What the flag will be when all notices are taken is whether that connection is up. `PresenceInv`: an envelope's stamp is at most `Drift` after its agent last spoke, so an entry is less than the age of an envelope and the drift after |

Every invariant and every action property of a passing run is proved. Only
model-checked is liveness under fairness (`Terminates`, `NewestArrives`,
`StaleLeaves`, `HeardOnceUp`), which needs `ENABLED` and induction over a measure,
neither of which the prover does.

`LogCatchesUp`, `ToolsImplementStore`, `SearchAdvances` and `OneWorkerIsInTurn` have
no run of their own: they say more than the runs' properties, of the same
specifications.

## 5. What the models say about the code beyond the runs

Consequences that are plain from the modelled code; nobody should be surprised
by them:

* A git command killed after it created a branch leaves the branch without a
  registry entry, and every retry of `create_branch` fails because it exists.
* A failed merge or rebase is not aborted; until somebody repairs the
  repository every later checkout fails.
* The squash strategy runs `git add .`: what agents left in the working tree is
  committed with the merge.
* A snapshot that cannot be opened or parsed counts as none: the server starts
  empty and auto-save replaces the file within 30 s.
* The snapshot holds the time it was taken, so `save_if_changed` always saves.
* Tasks are restored before the server's listener is registered, so a restart
  announces none of them.
* Two threads' changes of one task can be announced in the other order: a listener
  runs outside the lock.
* A clean stop makes no last save. Branches and merge requests are saved and
  never restored.
* A DELETE does not end the event stream; an idle stream keeps its HTTP worker
  until its client goes away, and `stop()` waits for it.
* No code of the program calls `issue_token` in the server's own process.
* `refresh_token` validates, revokes and issues under three locks: two refreshes of
  one token at the same time both succeed, and one token becomes two.
* Calls that use git at the same time disturb each other: a commit lands on the
  branch that another call checked out in between, and is reported as one on the
  branch that was named; a merge that stops in a conflict between another call's
  checkout and its `add -A` has its markers committed. `CommitsLand` and
  `NothingDamaged` hold of calls in turn only: the mutex that is there "to prevent
  working tree corruption" (`include/mcp_collab/git_operations.hpp:62`) is held for
  one command and not for a call.
* Two executions of one approved request at the same time run it twice, and the
  later one sets the status: completed can become failed.
* Names are handed to `git checkout` unexamined, and it succeeds for many that are
  no branch. `commit_changes` told of `HEAD`, of a commit, of `origin/x` or of a file
  commits on no branch or on the one HEAD happens to be on, and says "Committed on"
  the name; a merge into such a target is "merged successfully" and no branch of
  that name holds the source. Told of a file while a conflict waits,
  `commit_changes` commits its markers. With HEAD on no branch, `create_branch`
  without a base records the base `HEAD`.
* If the HTTP transport throws while it starts, `running_` is false, `stop()`
  returns at once, and destroying the threads that still run ends the process in
  `std::terminate`.
* Events of one agent or key can be logged in another order than the changes were
  made. Context events carry a version, agent events nothing to order them by.
* `unsubscribe` of the event bus does not wait: an emission under way still calls
  the handler. The MQTT client's does wait.
* An event published with the type `*` calls the wildcard handlers twice.
* `set_agent_role` changes the role the registry shows and not the token's, by
  which calls are authorised; registering again sets it back.
* A subscription made before the connection that answers `connect()` is answered with
  `false` and made when that comes. `ChannelManager::remove` leaves the broker's
  subscription. A subscription the broker refuses is logged and nothing else.
* After an automatic reconnection, or when the first attempt to connect failed, the
  code does not learn that it is connected: `mqtt/client.cpp:47` sets `onSuccess`,
  which Paho calls for the first connection only, and nothing sets
  `MQTTAsync_setConnected`. `connected_` stays false, so `publish` returns false and
  `disconnect()` does nothing; the session is clean and no topic is asked for
  again, so nothing that was subscribed before is heard.
* Context versions begin at 1 again for keys written after a restart that lost them.
* A batch with a request whose `method` or `_auth` is of a wrong type ends in 500
  after the requests before it have run; a client that repeats it runs them twice.
* A tool whose result cannot be written as JSON (bytes that are no UTF-8) is answered
  with `isError`, after its effect: the result is written inside the `try` of
  `mcp/protocol.cpp:334`.
* A notification in a batch that is answered gets `{}`, though JSON-RPC has no answer
  to it; so does `notifications/initialized` with an id.
* After a restart clients get -32002 until anyone sends `initialize` again.
* A role that may not use every tool is always given a `_nextCursor`; a client that
  follows cursors until there is none never stops.
* An observer is "read-only" (`include/mcp_collab/auth.hpp:26`) but can call
  `heartbeat` for any agent and so keep it from being pruned.
* `agent_describe` shows as effective permissions those of the registry's role,
  while calls are decided by the token's.
* A `task_create` that throws at a garbled dependency leaves the task, with the
  dependencies before it.
* The agent in a heartbeat's payload need not be the envelope's sender. `verify`
  catches parse errors only, so an envelope with a member of a wrong type throws
  into the library's callback.
* `start` connects MQTT before it sets the bridges, and `stop` does not wait for
  the disconnect; a bridge can run while members declared after the client
  (`include/mcp_collab/server.hpp:47`) are gone.
* `main` never copies the MQTT user, password and TLS, the CORS origin, the allowed
  agents, open enrolment and the default branch into what it starts the server
  with. TLS that the file switches on cannot be switched off by the environment.
  The README names the variables `MQTT_HOST` and `HTTP_HOST` (`src/README.md:254`),
  the code reads `SWARM_MQTT_HOST` and `SWARM_HTTP_HOST`.
* No tool calls `deregister_agent`; an agent goes by being pruned.

## 6. Not modelled

`update_task`, `clear`, `exists` and the context store's `del` and
`update_partial`, which only tests call; the stores' listings and the bus's
queries, which only read; names for git that begin with a dash or stand for several things at
once, and what a commit off every branch really contains (any part of what the
branches hold, `Commits`); how topics and filters match, and so the topic rules of
`SecureMqtt`, and MQTT without a secret; git commands that no coordinator runs;
argument and output formats; HMAC (an ideal signature); what JSON-RPC results
hold; what resources and prompts say; CORS and TLS; the HTTP library's own
threads, of which only what the handlers meet is modelled; a configuration without
authentication or without a rate limit; the messages the server publishes over
MQTT about itself; the keychain, UUIDs and platform headers, which wrap services
of the operating system.

## 7. What could follow

1. Abstract specifications of more components, to be implemented step by step: a
   session of subscriptions for `Mqtt`, a lossy queue for `SseStream`.
2. The start and the end of `SwarmServer` with MQTT: which callbacks can still run
   while members are destroyed.
