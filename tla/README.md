# A TLA+ verification of snarkops

snarkops runs networks of snarkOS nodes. A *control plane* serves an HTTP API;
*agents* on other machines keep a websocket RPC connection to it and run the
nodes. A user applies an *environment* (a document of storage, nodes and
cannons); the control plane reserves agents for its nodes and tells them the
state they must reach, and each agent reconciles its machine with it. A
*cannon* executes authorizations on compute agents and broadcasts the
transactions to the nodes.

Paths below are relative to `src/crates/`; `cp/` is `controlplane/src/`, `ag/`
is `agent/src/`.

## 1. Inventory

| Component | State it keeps | Operations | Talks to | What makes it correct | Modules |
|---|---|---|---|---|---|
| Agent claims (`cp/env/set.rs`, `cp/state/agent.rs`, `cp/cannon/source.rs`) | two `Arc<Busy>` per agent, strong counts | list mappings, `claim`, `pair_with_nodes`, `find_compute_agent` | pool of agents (shared), applies, cannons | one agent never serves two claimants; no claim leaks | AgentClaims, ClaimRegistry |
| Environment lifecycle (`cp/env/mod.rs`, `cp/server/actions`, `cp/state/global.rs`) | env map and its rows, the agents' states and their rows | apply, cleanup, config, online/offline, peer updates, load | agents (RPC), storage, cannons | env map, rows and agent states agree; a cleanup frees its agents | EnvLifecycle |
| Node documents (`cp/schema/nodes.rs`, `common/src/node_targets.rs`, `key_source.rs`, `cp/persist`) | the nodes of an environment and their saved form | parse, match, expand replicas, look up keys, write, read | apply, restart, addresses | what is read back selects the same peers and keys | NodeDocuments |
| Peer addresses (`cp/env/mod.rs:660-760`, `ag/reconcile/address.rs`, `ag/rpc/control.rs`, `cp/server/rpc.rs`) | addresses and ports in the pool, the agent's cache and its saved form | report, resolve, push, fetch, clear, start the node | agents, environment | a node runs with the addresses its peers have | PeerAddresses |
| Cannons (`cp/cannon`, `cp/state/transactions.rs`) | trackers, two channels, rows, counter, running executions and broadcasts | submit, execute, broadcast, track, confirm, forget, restore | compute agents, nodes, block cache, database | nothing accepted is lost, indexes are unique, results in any order | CannonTracker |
| Agent reconciler (`ag/reconcile`, `ag/state.rs`) | requested state, option channel, context, process, ledger and storage directories | loop, inventory pass, node pass, storage, ledger, process | control plane (environment info), node process, database | reaches what was asked for last; never wipes under a running node | AgentReconciler |
| Link of agent and control plane (`cp/server/agent_ws.rs`, `ag/client.rs`, `ag/rpc`) | socket, handshake, nonce, pending pushes | handshake, reconnect, push of states | both sides | the agent keeps its identity and ends with the newest state | AgentSync |
| Storage preparation (`cp/schema/storage`) | a directory, the loaded storage, its row | prepare, generate, write the version, insert, load, serve | apply, restart, agents | a version is over files of one generation; keys are those of the block | Storages, StorageFiles |
| File transfers (`ag/reconcile/files.rs`, `storage.rs`, `ag/transfers.rs`, `ag/api.rs`) | the file, the reconciler's transaction, transfer table, spawned downloads | look, request, judge, expire, monitor, clean up | reconciler, content server | no pass waits for nobody; the file that is accepted is the one that is served | FileTransfers, StorageFiles |
| Block caches, peers (`cp/env/cache.rs`, `cp/state/external_peers.rs`, `cp/state/global.rs`, `cp/server/rpc.rs`) | LRU of blocks, reverse maps, peer statistics | report, fetch, add, look up, cull, score, query | cannons, agents, external nodes | maps agree with blocks; the latest block is there or comes | NetworkCache |
| Checkpoints and retention (`checkpoint/src`, `aot/src/ledger`) | files by height, the manager's map, the stores of a ledger | poll, write, cull, load, apply, clean, create | ledger on disk, node, agent | what the policy promises is kept; what is applied is exactly its ledger | Retention, Checkpoints |
| Events (`cp/events`, `common/src/events`, `cp/server/event_ws.rs`, `actions/power.rs`, `cli/src/events.rs`) | broadcast channel, filters, sockets, waiting requests and clients | subscribe, combine, display, parse, forward, wait | agents, clients | filters mean what was meant; who waits hears, or knows that it lost events | EventFilters, EventStream |
| API routes, cannon and outcome documents, packed formats, aot, metrics, build tools | none of their own, or encodings | parse, look up, encode, print | the above | | not modelled (section 6) |

The behaviours that make the system hard: reference counts used as locks from
several threads; environment data read before an await and written after it;
requests of several users for one environment; agents that leave, come back or
are taken over; executions and broadcasts whose results come late, twice or
never; row-by-row persistence and restarts; a reconciler whose every step is an
await during which the request, the process and the disk change; files written
by one process while another reads or replaces them; caches filled by answers
that belong to what was there before. Where each of them bites in the code is
listed in `PROJECT.json` under `hazards`.

## 2. Modules

**ClaimRegistry** is the abstract promise of a claim: a claimant owns at most
one agent and claimants of one kind never own the same one.

**AgentClaims** opens `claim` (`set.rs:76-97`) into its atomic steps: `Look`
(the strong count is more than one: skip), `Upgrade` (the weak pointer makes a
second strong reference), `Verify` (the count is exactly two: keep, else
`Drop`). `StartById`, `StartLabels`, `StartByLabel`, `Exhausted`, `Collect`,
`EndDocument`, `Unclaim` are the stages of `pair_with_nodes`, in which rayon
threads work on all nodes of a stage at once; `FindComputeAgent` is
`find_compute_agent`, which claims while it iterates the pool's map (`Locked`:
no writer of that entry runs). `SetState`, `Connection` and `Replace` change the
pool's entry at any unlocked moment. An `Arc` is an agent and a generation, as
`Replace` gives an agent id new `Arc`s while old ones are still held.

**EnvLifecycle** has one task per HTTP request being served. `Apply` is
everything up to the first await (documents, pairing), `ApplyFails`,
`ApplySave`, `ApplyInsert`, `ApplyEmit` what follows; `Write` writes one agent's
state at a time, as `update_agent_states` does. `Cleanup`, `CleanupDelete`,
`Config`, `ConfigAnswer`, `Rewrite` (online, offline, `update_peer_addr`),
`Disconnect`, `Reconnect`, `Takeover`, and `Restart` (load what is persisted).
Pairing is one step here: AgentClaims is its detail, and ExclusiveAgent there is
what allows the injection in `Apply` here.

**CannonTracker** models a cannon across instances: each apply makes an instance with
trackers, channels and a task of its own; the rows are shared.
`ProxyAuth`/`ProxyBroadcast`/`ProxyResult`/`ProxyKnown` are the requests, of which the
first two take an index (`Take`, the fetch_add) and save the count in a step of its own
(`SaveCount`), so that other requests run between; `StoreHead`, `StoreBody`, `Insert`
are their writes; `RecvAuth`, `StartExec`, `NoCompute`, `ExecDone`, `ExecFails` an
execution; `RecvTx`, `NodeTakes`, `Acked`, `ShotEnds` a broadcast, where a node taking a
transaction and the control plane hearing of it are two steps: the answer may come when
the transaction is in a block, forgotten, or submitted again, and its status is written
all the same; `Sweep`, `Confirm`, `Forget`, `DeleteRows`, `SweepEnds` the tracking task;
`NewInstance`, `InsertEnv`, `Spawn`, `Drop`, `Restart` the instances; `Block` and
`Report` the network. Executions and broadcasts under way are bags, since copies of one
transaction run at once. A sweep queues by index, those of the same index (there may be
some after a restart, section 4) in any order, as they come from a map.

**AgentReconciler** models one agent: what the control plane asks for (`Apply`,
`Cleanup`, `Configure`, `Reboot`, `Handshake`), the loop (`Receive`, `Begin`),
and a pass as a chain of steps that may end at any of them with "requeue":
`ReconcileInventory`; `GetEnvInfo`; `ShutdownPending` with `EndProcess` and
`Offline`; `ProcessEnded`/`ProcessExited`/`CheckCommand`; `PrepareStorage`; the
ledger (`LedgerFresh`, `LedgerReady`, `LedgerReset`, `LedgerModify`,
`LedgerWait`, `LedgerModified`); `StartNode`. Around it `ModifyEnds`,
`StrayEnds`, `NodeExits`, `NodeWrites` and `Restart` happen at any time.

**AgentSync** is the link of one agent and the control plane. `Connect` opens a
socket with the token the agent's database has; `handle_socket` is `Reconnect`
(claims are good: attach the client, capture the state for the handshake) or
`NotRecognized`, `CheckOffline` or `Refuse`, and `Insert` (a new agent, a new
nonce), each of which looks at the pool anew, as the code takes and drops the
entry's lock; `Notice` is the end of its loop, `Disconnect` the end of the
agent's. A request (`Apply`, `Cleanup`, `CopyState` for `update_peer_addr`,
`Poke`) goes on with `SetState` and `Queue`, which are `update_agent_states` and
`queue_many_reconciles`. `calls` are the handshakes and pushes in flight, each a
task on either side, without order: `Greet` saves the token, `Save` the state,
`Store` takes it into memory, `Lose` ends a call. `AgentRestart` and
`ControlRestart` keep what the databases have. `op` has one entry per request,
`socket` one per connection.

**NodeDocuments** has the pure part of environment documents: `TargetMatches`,
`LookupPk`, the expansion of replicas (`NodeKeys`, `Flattened`), and the codecs of what
is saved: a node state's peers and validators, a node (`WriteNode`: its key's source, its
validators, its peers), an external node, a persisted node with its tag and its
agent, and the nodes of an environment (`WriteEnv`). A writer gives the whole
sequence of tags and values in the order of the code; a reader takes it from the front and
leaves the rest to the next (`Got`, `Past`), so that parts, options or tags
read in another order come back as something else. A pattern is given by the ids it
matches. The key of a node that is saved has its index filled in, so that the two
tags of sources without one are in the codec and not in a run.

**PeerAddresses** EXTENDS it. The control plane knows a location per agent (`known`),
which agents report (`Connect`, `FetchAddrs`); `ResolveNodeState` turns targets into
agents and ports; `env` has the nodes of the environment, the agent of each and its
external nodes; `Apply`, `Cleanup`, `ControlRestart` (what the environment and the
agents' states are afterwards is what is read from their written form) and
`UpdateOf`/`ClearPeerAddr`/`FinishUpdate` (`update_peer_addr`, call by call) change the
states; `Handshake` carries what was captured at connect time. The agent is
`ReconcileInventory`, `ReconcileNode` with its cache and its saved copy, `RunNode` with
the arguments of `NodeCommand`; `Cut`, `Lose`, `Move` are troubles. `world` says where
agents start and may move and how much may happen.

**Storages** is `Document::prepare` with one step per await: `Prepare` (version
check, wipe, directory), `ResolveBinary`, `Generate`, `WriteVersion`, `Insert`;
`TornWipe`, `Kill` and a failure of every step. Generations are numbered, so that
files of two of them are told apart. **FileTransfers** is the agent's side: a pass is
`SyncVersion`, `Look`, `Judge` (what an answer to HEAD, the file's length and the
sum say), a download is `Answered`, `Broke`, `Finished`, `Refused`, and `Monitor`
handles the channel of updates of which the table is made. **StorageFiles** composes
them through INSTANCE: what the storage holds is what is served, the agent's
environment info is the storage's version when it last asked (`Tell`).

**NetworkCache** has the cache as one record with the maps of the code (`AddBlock`,
`RemoveBlocks`, `IsRecent`, `IsNewer`, `Attempted`); `PostBlock` and `Fetched` are the
two halves of `post_block_status`, between which environments come and go, agents lose
their node (`Release`, of a cleanup or of an apply that drops it), their socket
(`Disconnect`, after which a report has nobody to fetch from: `PostUnheard`) or their
identity (`Takeover`), and the control plane restarts (`Restart`: what agents reported
is gone, the cache of a loaded environment is new); `Round` is the invalidation task,
`AskExternals`/`Answered` the external peer task; `Score` and `Outcomes` are
`snarkos_get`.

**Retention** is `is_ready` and `reject`: `WalkStep` is the loop's body (a chain of IFs,
since the code's tests overlap and their order decides), `Turn` the loop over the times
from newest to oldest, `Walk` a recursive function of the number of turns; `KeptBy` is
the reference definition of what one rule promises, a chain of times inside its
duration, `KeptWithLast` of what the walk leaves of it (section 4). **Checkpoints** is
the ledger of one agent: the node's loop (`Start`, `Purge`, `Delete`, `Tick`,
`ReadHeader`, `ReadContent`, `OpenFile`, `WriteHeader`, `WriteAndInsert`, `Culled`),
into any of whose steps `Advance` (a block) may fall, and the commands on a ledger whose
node is off: `Apply`, then `Remove` block by block and store by store, `DropMappings`,
`WriteMappings`, `SetRound`; `Clean`; `Create`; `Wipe`, `KillNode`, `KillTool`. A block
is its time, its hash the chain up to it.

**EventFilters** has filters as records, `Matches`, the operators (`And`, `Or`, `Xor`,
`Not`, which merge lists), `Display` and `Parse` over tokens; it is RECURSIVE and
thus outside the proofs. **EventStream** EXTENDS it: a log of which a
reader at `pos` has lost what is older than `Capacity`; a power action
(`Subscribe`, `Update`, `Updated`, `Hear`, `Reply`); the command line client
(`Combine`, `Send`, `Open`, `Post`, `Ping`, `Next1`) and the websocket (`Forward`).

**AgentClaimsProofs**, **AgentSyncProofs**, **NetworkCacheProofs**,
**CheckpointsProofs**, **AgentReconcilerProofs**, **EnvLifecycleProofs**,
**CannonTrackerProofs** and **StorageFilesProofs** hold the theorems about a component
(section 5). The `MC*` modules give small sets to the constants. `MCClaimScenarios`,
`MCEnvScenarios`, `MCCannonScenarios`, `MCReconcileScenarios` and `MCStorageFiles` check
a component under several sets of constants in one run: a variable `scenario` is chosen
at the start and never changes, each scenario is the component with the constants of the
cfg and fewer steps (one request at a time, no restart, less at once), or with those of
an INSTANCE. The restrictions are on steps, so that what is proved of the component's
steps holds of them. Each property is asked of the scenario it is about, and fairness is
asked of the steps of the one whose progress is checked (`On`). A definition under a
comment that begins with "Mutant:" is a plausible bug, never part of the specification;
put in place of the definition beside it, it shows that the properties notice.

How they compose. AgentClaims justifies the pairing step of EnvLifecycle: that
an apply gets different agents for its nodes is ExclusiveAgent there.
EnvLifecycle's writes of agent states are the requests (`Update`) AgentReconciler
receives; AgentSync is the channel between them, PeerAddresses what the states
say of the peers. AgentReconciler's storage and ledger are "there", "not there
yet" or "failed"; how they get there is StorageFiles and Checkpoints.
EnvLifecycle's apply makes the instances of CannonTracker, whose blocks and
heights come from a NetworkCache.

## 3. Runs

| Run | Config | Bounds | Shows |
|---|---|---|---|
| claims | MCClaimScenarios | delegating: 2 agents, 2 applies of 2 + 1 nodes, an agent of a removed node; computing: 1 contested agent (also the removed node's), 2 applies of a node, 2 executions, 2 takeovers | ExclusiveAgent, ClaimRegistry refined, ClaimsReturn under fairness; ExclusiveArc across takeovers, ComputeOnIdleAgent |
| environments | MCEnvScenarios | in turn: 2 agents, 2 environments, 0 to 2 nodes each, disconnects; restarting: the same two keys with different heights, takeovers, restarts at any step | Agreement, ExclusiveDelegation, CleanupFreesAgents; in both scenarios NodesHaveEnvironments |
| cannons | MCCannonScenarios | racing: 2 transactions, 2 requests at once; overlapping: 1 transaction submitted twice, 2 executions and 2 broadcasts at once, 2 blocks, no limits; restarting: 2 instances, crashes at any step; draining: as racing with no target, limits 1 and 0 | IndexesUnique; SentHasTransaction; RowsFollowTrackers, TrackedIsPersisted, AcceptedIsKept; SinkDrains under fairness; TypeOK |
| reconcile | MCReconcileScenarios | calm: 2 environments, 2 heights, 3 requests, channel of 1, reboots, restarts; failing: 3 storages of two kinds, 3 heights, channel of 2, errors, crashes | RequestedNodeRuns, UnwantedNodeStops; in both scenarios ReconcilerSound (types, NodeOwnsLedger) and NothingWipedUnderNode |
| sync_converges | MCSyncConverges | 1 agent, 3 connections, 2 requests, restarts of both sides | Synced, TokenKnown, ServedIsOnline, NewestOnly; Converges under fairness |
| checkpoints | MCCheckpoints | 6 policies of 0 to 3 rules, 4 blocks, times 1 to 4, 2 kills, 1 wipe, 1 command | ManagedOnChain, RestorePoint, PromisedIsKept, RewindExact |
| storage_files | MCStorageFiles | failing: 4 documents, 4 applies, 2 faults of 5 kinds; serving: 2 documents, 2 applies, a genesis block or a binary, 1 trouble or race | StorageSound (types, VersionedIsWhole), KeysOfGenesis, TransfersSound (types, PendingIsRunning, CheckedIsWhole); FilesArrive under fairness |
| peers | MCPeers | 2 blocks of one height that share a transaction, 2 agents, 1 external node, range 1, reports of one age, any takeovers and restarts | IndexesAgree, LatestIsFetched; BlocksAreCulled under fairness |
| events | MCEventStream | 2 agents, 2 targets, channel of 2, filters of up to 1 operator on any of the leaves and lists | FilterMeansIt, NoCompletionMissed; CliReturns under fairness |
| addresses | MCAddresses | 2 agents in one or two networks that move twice, a client of 2 replicas or a validator and a prover with each source of keys, up to 2 external nodes, 2 applies | AddressesCurrent, PortsCurrent, RestartKeepsNodes; PeersAreReached under fairness |
| env_overlap | MCEnvOverlap | 2 environments of 1 node, 2 requests at once | ExclusiveDelegation fails: the claims end too early (a code bug, quoted under `findings`) |
| retention_promise | MCRetentionPromise | as checkpoints | KeptAsPromised fails: a checkpoint older than the rule's duration is kept (a code bug, quoted under `findings`) |

Why the bounds are enough. A claim race needs two claimants of one reference count; the
third node and the removed agent let a node fail and give back the others' claims.
Generations 0, 1 and 2 are the reference counts an id had before and after each of two
takeovers; a further one behaves as the last. Environments interact in pairs, through an
agent that leaves one for the other. A cannon's transactions only interact through
indexes, so two suffice for these and one elsewhere; two executions of one transaction
at once give every order of results. `MaxQueue` bounds copies that a sweep adds (the
code has no bound), `MaxHeight` the chain: two blocks distinguish "before", "at" and
"after" the broadcast. `MaxAttempts` saturates the count above every limit compared with
it. Three requests to the reconciler are what a counterexample to convergence takes (a
state, another, and back); a channel of one or two is smaller than the real five, which
makes lost requests more frequent, not less. Three connections are one that is replaced
while the control plane still holds it, one that replaces it, and one that lasts
(`MaxConns` does not break, so that something can converge); two requests are what it
takes to write a state between another's writing and its push. Four blocks at four times
give a policy's walk a gap, a boundary and a time on either side of it; one wipe is
enough for a file of another chain at a height the new one reaches, two kills for the
end of a node and of a command. Four applies are a storage, its regeneration, its
replacement and the way back. One trouble of a transfer is any one of a lost connection,
a refusal, a broken stream, a restart or a second download; FilesArrive with two is the
same cycle again. Two blocks at one height are the fork that makes the reverse maps
disagree when they can; culling and forks at greater heights are the proof's
(IndexesAreSound has no bound). A channel of two makes a reader lose events after three.
Filters of one operator are composed of any two leaves or lists, which is every case of
the operators' flattening; parsing nests one deeper. Two agents are one that needs an
address and one that has it; the replicas make each of them both. A validator and a
prover take in turn every source of keys that a saved node may have, and two external
nodes are what an order error needs to show.

What the runs assume beyond the modules. `MCEventStream` explores filters where
nothing has happened yet and leaves the request's wait alone while the websocket is open:
the three share nothing but the log, so the product would add interleavings and
no behaviour of any of them. Worlds of PeerAddresses whose ports differ are
`Calm`: nothing new begins while an `update_peer_addr` is under way; where
agents are not `hasty`, the answer of `get_addrs` comes before the handshake's; both
exclude races that section 4 lists. `races` and `sound` are ghosts that mark a
pass beside a download it cannot see and the two faults that a version does not
survive; the properties say where they exclude them. An agent is served by at most
two applies: with three it may miss a version (section 4).

Config and property names correspond to the cfg files.

**Fairness.** AgentClaims: weak fairness of every thread step; rayon threads and tokio
tasks run to completion and nothing in `pair_with_nodes` waits. EnvLifecycle: weak
fairness of `Continue`, the next step of a request being served; starting a request is
never fair. CannonTracker: weak fairness of the tasks' own steps; strong fairness where
the outside may fail some of the time but is retried for ever: `Sweep(Txs)` (a timer,
times expire), `StartExec` (a compute agent appears again and again), `RecvTx` with
nodes, `NodeTakes`, and `Acked` of a transaction that is in no block yet (a node takes
it, and is heard); the run's draining cannon, which broadcasts nothing, is asked to be
fair in its own steps only. AgentReconciler: weak fairness of a pass; strong fairness of
the steps that may give up and requeue (the environment info, files, the ledger, the
start), as the loop retries them for ever; a signalled process exits; a modification
ends, and ends well if it is retried for ever. AgentSync: weak fairness of tasks that
have begun, of noticing a socket whose other side is gone, and of the agent's connecting
again; no fairness of requests, breaks and restarts. Three constants of AgentSync say
what its run assumes: no state is written while a call that carries the one before is
under way (`Overtakes`), calls are answered within their deadline (`Timeouts`), and the
agent's five seconds between connections are longer than `handle_socket`, which waits
for nothing before the agent is in the pool (`SlowAccept`). Section 4 has what fails
without each. FileTransfers: weak fairness of passes (the loop requeues itself), of the
monitor and its timers, of answers to requests and of connecting again; not of breaking.
Storages: weak fairness of the steps of an apply that was begun. NetworkCache: weak
fairness of `Round`, a timer. EventStream: weak fairness of the tasks and the client's
timer; strong fairness of `Complete`, as an agent that requeues reconciles again.
PeerAddresses: weak fairness of delivery, of an agent's connecting, answering and
passes; never of moves, cuts, applies and restarts.

## 4. Deviations of the code from its comments

Two are runs of their own (env_overlap and retention_promise, quoted in
`PROJECT.json` under `findings`). The modules state others, which no run checks; TLC refutes each
with the constants given here (one of everything not named, Spec).

| Statement | Comment | Constants that refute it | What the code does |
|---|---|---|---|
| AgentClaims!ExclusiveAgent | `cp/env/mod.rs:261-263` | 2 agents, 3 nodes, `MaxReplace = 1` | a taken-over id gets new `Arc`s; two applies hold it, one by the old, one by the new |
| EnvLifecycle!RestartInventoriesStrangers | `cp/state/global.rs:135` | AnyNodes, `Crashes` | the load looks only whether the agent's environment exists; an agent of a removed node stays a node (NodesHaveEnvironments fails too with AnyNodes once that environment is cleaned up) |
| EnvLifecycle!HeightCounterGrows | `common/src/state/node_state.rs:12` | one node with two heights, `MaxCounter = 1` | an apply with another height starts the counter at 0 |
| EnvLifecycle!ConfigStatesAreNodes | `cp/state/reconcile.rs:19` | OneNode, `Takeovers` | the answer of a config action meets an agent in inventory and panics |
| EnvLifecycle!ApplyNeedsUnsetEnv | `cp/env/mod.rs:115-116` | OneNode | an existing environment is applied again |
| CannonTracker!IndexesUnique | `cp/cannon/mod.rs:120`, `tracker.rs:13` | 2 transactions, `Crashes` | the count is saved as it was before the increment; after a restart an index is given twice |
| CannonTracker!PayloadPresent | `cp/cannon/tracker.rs:15-16` | `Crashes` | index and status are written before the payload, and restored without it |
| CannonTracker!AuthorizedHasAuthorization | `cp/cannon/context.rs:109` | limits 0, `MaxSubmissions = 2` | a late failure sets a transaction that was broadcast directly to Authorized |
| CannonTracker!SentHasTransaction | the same | limits 0, `MaxWork = 2`, `MaxSubmissions = 2`, `MaxHeight = 1` | what was given up is submitted again as an authorization, and the late answer of a node to its first broadcast marks it as broadcast |
| CannonTracker!NoAdditionalTries | `cp/cannon/sink.rs:20` | limits 0, `MaxWork = 2`, `MaxAttempts = 2` | two queued copies are both sent |
| CannonTracker!ExpiredExecutionsAreQueued | `cp/state/transactions.rs:150` | `MaxInstances = 2`, FairSpec | it is queued, and aborted because it is not Authorized |
| CannonTracker!LedgerIsConfirmed | `cp/cannon/context.rs:347-348` | `MaxHeight = 1`, FairSpec | the branch returns without a status; the transaction stays unsent |
| CannonTracker!ReplacedCannonStops | `cp/cannon/mod.rs:541` | `MaxInstances = 2`, FairSpec | the task holds the environment that would drop it |
| AgentReconciler!FreshLedger | `common/src/state/reconcile.rs:14` | 2 environments, `MaxQueue = 5`, `MaxUpdates = 2` | drained requests lose their options |
| AgentReconciler!ChainSurvives | `ag/main.rs:156` | "restart" | the default last height is not persisted |
| AgentReconciler!NoStrayModification | `ag/reconcile/agent.rs:414` | 2 environments, TopOrCheckpoint, "cleanup" | a dropped context does not end its ledger modification |
| AgentReconciler!OneNodeProcess | `ag/db.rs:28` | "crash" | the persisted process id is never used |
| AgentSync!Synced, NewestOnly | `ag/rpc/control.rs:94` | `Overtakes` | a handshake or push that was sent earlier is handled later and overwrites the newer state, in memory and database; nothing sends it again |
| AgentSync!OfflineIsGone, ServedIsOnline, Converges | `cp/state/agent.rs:228` | `SlowAccept` | of two sockets accepted at once both insert the agent; the end of one marks the other's client disconnected |
| AgentSync!KnownIsKept | `cp/server/agent_ws.rs:182` | those of the run | the old socket ends between the refusal of good claims and the second look: the agent is made anew, in inventory |
| AgentSync!CopyIsCurrent | `cp/env/mod.rs:664` | `MaxOps = 3` | `update_peer_addr` writes a copy it made before it awaited: an apply's newer config, or a cleanup, is undone |
| AgentReconciler!EnvStateMatches | `ag/reconcile/agent.rs:460-462` | 2 storages in turn, 3 requests | the storage moves to a directory whose version matches already: the version is never taken over, and no pass converges |
| NetworkCache!FreshestAnswers | `common/src/state/agent_status.rs:65` | those of the run with `MaxUpdateAge = 2`, `Indifference = 1` | `snarkos_get` (`cp/state/global.rs:318`, also `cp/cannon/context.rs:303`) sorts ascending: the stalest report answers |

Others were met while the modules were written; each is in the modules as the
code has it, and the properties are stated around it.

*Checkpoints and retention.* A policy of one rule keeps, beside what its duration
covers, the oldest checkpoint of all (`retention.rs:84` says of it "bugged atm - it's keeping
the last checkpoint"; `retention_promise`). `PromisedIsKept` is what remains of the promise:
all that is promised is there, and at most the oldest beside it. A policy of
several rules ends as its shortest
rule plus the oldest checkpoint (`retention.rs:5-20` promises each rule's; the test
whose comment says "4 + 1 total" asserts 6). A file cut off after its header is
accepted as a restore point. The content may be newer than the header, as it is
read after an await. A kill between deleting and writing the mappings leaves
wrong ones, and the retry is refused because the height no longer exceeds the
checkpoint's; a kill among the blocks leaves holes, and the node exits with code 76. The round
is set to the first of the block (`checkpoint.rs:147-165`). Checkpoints of a wiped ledger stay
until they are found incompatible.

*Storages and files.* A second download that begins before the first one's
start is in the table truncates a file that was accepted; so does one that a pass
does not see when it finds the file of an earlier download good (the proof
found this one: the ghost `races` used to count starts only). A storage whose version
goes from 2 to 1 and back to 2 between two messages to an agent has the
same version and another genesis block: the agent keeps its file, and accepts
a download of the old block that ended after the new one was published, as
its size and its time are right (`FilesArrive` fails with three applies). A pass that
is offline accepts a part of a genesis block; a response of length 0 is complete
at once. A storage regenerated at the same version while a download runs stays
with the old block. A killed apply leaves half a block under the old version. A
native storage that is applied again is no longer known to be native
(`storage/mod.rs:160,231-234`), and its agents ask for a block that is not served.
A genesis command that fails only warns, although `storage/mod.rs:364` says "ensure the
genesis block was generated". `--bonded-balance` gets the commissions (309). Uppercase
sums never match, and a sum is checked for 32 characters (`binaries.rs:52-57`).
A failure to save the row is only logged. The loaded storage whose directory a
failed apply has wiped goes on being used.

*Block caches.* `get_block_hash_for_peer` asks for the hash twice, so that nothing
is ever known of an external peer. The penalty is computed in an order that is
never positive (`cache.rs:222-241`). A late report makes a cache for an environment
that was removed, or puts a block of the old network into the new cache;
`block_info` survives a redelegation; only the first report of a block fetches it, and
blocks more than ten below the latest are never cached.

*Events.* `^` is not exclusive with an operand that is itself a list, or the
unfiltered filter (`filter.rs:20` says "Logical XOR of filters"). After the last
subscription of a socket with a filter is removed it hears nothing
(`event_ws.rs:54-67`); after it has lagged, its events wait for a message of
the client. `post_and_wait` waits for ever if no node was changed or an agent
leaves, and takes an older reconcile's completion for the one it waits for. Executions
and deployments that are waited for subscribe after the transaction was accepted,
unlike `power.rs:26`. The parser indexes characters as bytes and refuses
`not(any-of(a) )`; the lexer does not trim the text of `transaction-is`.

*Addresses and documents.* Overlapping `update_peer_addr` calls write states they
resolved before their awaits. A crash between saving ports and pushing them leaves them
stale; so does a handshake that overtakes a push. An agent that moves and changes only
its rest or metrics port is not announced, though `cp/env/mod.rs:675` says that all
agents that reference it are told. A peer that leaves the states and comes back keeps a
stale address. `clear_peer_addr` clears memory only; the refetch flag is lost when
requests are drained. A peer without addresses fails the answer for all; an unresolved
peer is dropped from the command. A key that changes from external to internal in one
apply ends with a node state and no agent. A replica beyond the committee has no key.
`PersistEnv::read` reads node keys with the header of the targets, which works while the
two are equal.


## 5. Proofs

AgentClaimsProofs, for any agents, nodes, applies and executions, from
`ClaimsAssumption` (finite sets of claimants and the types of the constants):

- `TypeCorrect`: `Spec => []TypeOK`.
- `ArcsAreExclusive`: `Spec => []ExclusiveArc`. The inductive invariant is
  `ClaimsInv`: types; `NoFutureArc` (nobody knows an `Arc` of a later generation
  than the pool's entry, so that a new `Arc` starts unheld); `HasCandidate`
  (whoever is past its first look has a candidate); and `ExclusiveArc`. The
  heart is `SoleHolder`: a strong count of two, on an `Arc` its agent still
  owns, leaves room for one holder. One lemma per conjunct says that every action
  preserves it.
- `AgentsAreExclusive`: while no agent is taken over (`NoTakeover`),
  `[]ExclusiveAgent`. There is one generation of `Arc`s then (`OneGeneration`), so an
  `Arc` is its agent (`ArcOfItsAgent`). With takeovers it is false (section 4).
- `ClaimsImplementRegistry`: under the same condition, every behaviour of AgentClaims
  is one of ClaimRegistry under the mapping that gives an agent to whoever has
  verified its claim (`Owned`, `ClaimsAreExclusive`).
- `AgentsTakeTurns` and `RegistryTakesTurns`: the delegating scenario of the run is a
  restriction of the component's steps that satisfies the condition
  (`DelegatingInv`), so both hold of it for every value of the constants.

AgentSyncProofs, for any number of connections and requests, from
`SyncAssumption` (the types of the constants):

- `SyncTypeCorrect`: types, with `BegunConfigs` (configs are of requests that have
  begun), without which a copied state might be of no known kind.
- `OneSocketServed`: with `~SlowAccept`, `[]ServedIsOnline`. Inductive with
  `OneAccepted`: one socket is being accepted at a time, and once it has looked,
  nobody comes online before it is in.
- `GreetedHasToken`: with `~Timeouts`, `[]TokenKnown`. `TokenInv` says where the
  token is: with the agent, or in a handshake on the client's socket that
  cannot be lost while that socket is served.
- `CalmIsSynced` and `OnlyNewestArrives`: with `~Overtakes` and `~Timeouts`,
  `[]Synced` and `NewestOnly`. On top of `TokenInv`, `CarriesNewest` (calls on the
  client's socket carry the pool's state) and `StateComes` (the agent's database
  and memory have it, or a call brings it, or a request is about to push it).

NetworkCacheProofs, for any blocks, transactions, agents and limits, from
`NetworkCacheAssumption`:

- `CacheTypeCorrect`: the maps of the cache have the shape the code gives them.
  The run does not ask for it.
- `IndexesAreSound`: `[]IndexesAgree`, for every set of blocks and forks. Inductive
  with `YoungestCache`: of the blocks that share a height or a transaction the
  indexes lead to the one that was added last; since blocks are removed by age
  and ages grow together, an index leads to a removed block only if all that share it are
  removed. Without it, culling could remove the block an index leads to and keep another.
- `LatestComes`: where the block range and all heights are positive,
  `[]LatestIsFetched`; a genesis block is never recent, and then it is false.

CheckpointsProofs, for ledgers, policies and budgets of any size, from
`BoundsAssumption` and `PolicyAssumption` (a span that is not unlimited counts from
one to 255, `NonZeroU8` in `RetentionSpan`):

- `RewindIsExact`: `RewindExact`. The invariant `RewindInv` says that the stores hold
  heights of the chain (`HeightsOfChain`), that a file is named by its header
  (`FilesNamed`), and what the step the tool is at has done (`Rewinding`): while it
  removes, the blocks are among the transactions and these among the
  committees, and all three have everything up to the checkpoint; afterwards the
  committees, hence all of them, end there. Nothing else runs on the ledger meanwhile. `TallestExists`
  (every set of heights has a tallest, by well-foundedness) is what a kill
  and the final height need.
- `ManagerIsSound`: `[]Managed`, the types with `ManagedOnChain`. `RewindInv` is joined
  by `ManagedInv`: every file is named by its height and its header's time is that
  of the block its hash ends with (`FilesSound`); a ledger that no command works on ends where its tallest store does
  (`StoresAgree`), so what opens is what the manager is culled against; each
  entry of the manager is that of its file, which is not cut off unless it is the one
  being written, and is on the chain, save the doomed ones while the loop starts (`ManagerSound`); and the
  header being written is the ledger's (`HeaderSound`). The last is why a block that
  arrives between reading the header and writing the file does no harm.
- `RestorePointsExist`: `[]RestorePoint`, for policies of any number of rules. `PollInv`
  joins the two: times on a chain increase (`Increasing`); the header being written is the
  newest that is known (`HeaderIsNewest`); what a poll deletes does not include it, nor
  a second file of a time that stays (`CullSpares`); so a poll at the top leaves a checkpoint that
  is recent (`PollLeavesOne`), whether it wrote one or found that none was due. It rests on
  `NewestStays`: whatever the rules, the walk of the code never rejects the newest time.
  The walk begins with it as the time it keeps; its age is zero, so no duration has
  passed (here spans count from one), and what the walk rejects later is older.
- `PromiseIsKept`: `[]PromisedIsKept`. It follows from `LeavesExactly`, that what the
  walk of the code leaves and a definition without a walk (`KeptWithLast`) agree, which in turn is
  the promise (`KeptBy`) and, where the chain leaves the duration, the oldest time
  (`KeptIsWithLast`). `Keeps` says by its members alone what a rule leaves; at
  most one set meets it (`KeepsOnlyOne`); what the walk leaves meets it
  (`RejectKeeps`, by an invariant of the walk's turns), and so does the definition
  (`WithLastKeeps`). Deleting a rejected file leaves it true of the rest
  (`KeepsWhileDeleted`). The recursive functions are reasoned about by `CountUp` over their
  bounded domains, which needs no induction theorem.

AgentReconcilerProofs, for any storages, heights, requests and every failure,
restart and crash, from `ReconcilerAssumption` and `NoneAssumption`:

- `ReconcilerIsSound`: `[]ReconcilerSound`, the types with `NodeOwnsLedger`.
  Inductive with `OneWorker`: a pass that has come to the storage has no process,
  one that is about to start it has no modification of the ledger either, and
  neither has a process. It has to speak of where the pass is, since each of
  these was looked at steps (awaits) before it is relied on.
- `NodeKeepsFiles`: `NothingWipedUnderNode`, from the same invariant.

EnvLifecycleProofs, for any agents, environments, documents and (first two) any
number of requests at once, from `LifecycleAssumption`:

- `LifecycleTypeCorrect`: `[]TypeOK`, with lemmas about partial functions (`Put`,
  `Restrict`), which the maps of the code are.
- `NodesShareNoAgent`: `[]PeersInjective`; what an apply has made but not yet
  inserted is injective too (`MadeInjective`).
- `NodesKeepEnvironments`: `[]NodesHaveEnvironments`, where one request is served at
  a time (`OneTask`), and, if there are restarts, reapplies keep the keys
  (`SameKeys`). Inductive with `NodesAccounted` (a node is a peer of its environment,
  or a request is about to inventory it), `TasksAccount` (an apply covers every
  agent its environment has) and `CopyHasPeers` (what a restart would load has the
  peers of every environment and every node). Both hypotheses are needed: `env_overlap`
  and section 4 have what happens without. Takeovers need none.
- `RestartsLeaveNoStranger`: with `SameKeys` for all reapplies,
  `RestartInventoriesStrangers`, which without it is false (section 4).
- `EnvironmentsAgree`: `[](Agreement /\ ExclusiveDelegation)`, where one request is served at a
  time, without takeovers and restarts: agents' states, the env map and its rows
  tell the same story. `Agreement` is about the moments between requests;
  `AgreementInv` says at every step of a request what it still owes (`PoolAgrees`,
  `PendingAgrees`), that what it has made takes no agent of another
  environment and covers its own (`MadeFits`), and by what the rows differ from the map
  (`CopyAgrees`).
- `ScenariosAgree`: `[]AgreementInTurn`, the same and the types for the run, which is
  why the module extends `MCEnvScenarios`.

CannonTrackerProofs, for any transactions, requests, instances, heights and
limits, from `CannonAssumption` and `NoneAssumption`. `StepEffect` sorts the many
steps by what they do to trackers, rows and requests (`Effect`: nothing, a status
marked, a result taken over, a transaction taken, forgotten, ...), so that each invariant is
argued for a dozen effects; `Typed` and `WorkTyped` are the types as the proof
needs them.

- `CannonTypeCorrect`: `[]TypeOK`.
- `IndexesStayUnique`: while steps are `Alone` (no second instance, no restart), `[]IndexesUnique`.
  `IndexesHeld` says it of trackers and requests together, as an index is taken
  long before the tracker is inserted, and bounds them by the count.
- `TrackedStaysPersisted` and `AcceptedStays`: with `TriedForEver` (a target, no limits
  of tries), `[]TrackedIsPersisted`, through applies and restarts, and
  `AcceptedIsKept`, which is about a first instance and its restarts.
  `Persisted` adds the requests, whose rows are written field by field before the tracker is
  inserted, and that what the sweep forgets is in a block (`Confirmed`). With a limit,
  what exceeds it is deleted from the rows while another instance may track it.
- `RowsStayTrackers`: with `TriedForEver`, while steps are `Once` (nothing is submitted twice),
  `[]RowsFollowTrackers`. `FollowInv` joins `Persisted` with what being submitted once means
  (`SubmittedOnce`) and the equality of rows and trackers of the first instance
  (`FirstFollows`). A second submission writes the row before it inserts the tracker,
  while a result of the first writes it too; then the two differ.
- `SentKeepsTransaction`: with `TriedForEver`, while steps are `Alone` and `Serial` (one request at a time),
  `[]SentHasTransaction`, whatever results come late or twice: also a broadcast under way is of
  a transaction that is there, or the transaction is in a block, where a late answer may mark
  a tracker that has been submitted anew (`SentInv`). Without the exception of
  transactions in a block it would be false; with limits it is false (section 4).
- `CannonsAreSound` (`[]TrackersAreSound`), `RestartsKeepRows` (`[]RowsFollow`) and
  `RestartsKeepAccepted` (`AcceptedIsKeptAgain`): the scenarios of the run are
  restrictions of the component's steps that satisfy these hypotheses, so
  that for every value of the constants with `TriedForEver` the run's properties
  hold (`ScenarioInv`). The draining cannon, an INSTANCE with other constants, is
  in `SinkDrainsOnce` only.

StorageFilesProofs, for any documents, faults, troubles and bounds, from
`StoragesAssumption`, `TransfersAssumption` and `NoneAssumption`:

- `DirectoriesAreWhole`: `[]StorageSound`, the types with `VersionedIsWhole`. The
  invariant says at each step of an apply what it has already made: a directory
  under generation has no version yet (`Fresh`, `Made`), what an apply is about to
  write a version over is whole and of one generation (`WholeSoon`), and so is
  what has a version (`Versioned`).
- `KeysAreOfGenesis`: `[]KeysOfGenesis`, with what the storage in memory has in
  common with the directory once an apply has succeeded (`Settled`).
- `CheckedFilesAreWhole`: `[]TransfersSound`, of an agent and a storage
  together. An open file is as whole as the downloads that write it (`Opened`); a
  pending transfer has a download or its report in the channel (`PendingInv`);
  and until a pass works beside a download it cannot see, a
  file that is found good has no writer left (`CheckedInv`). That a transfer id
  is never given twice is a pigeonhole argument about the ids in use
  (`NextIdTyped`).

Only model-checked: PeerAddresses and NodeDocuments, whose invariants would have to
speak of every call that is on its way; of AgentReconciler,
EnvLifecycle, CannonTracker and StorageFiles the progress (`SinkDrains`,
`CleanupFreesAgents`, `RequestedNodeRuns`, `FilesArrive`, ...); EventFilters and
EventStream, which are recursive; every liveness property (fairness and ENABLED are
outside what the proof system handles).

## 6. What is abstracted, and what is left out

Clocks: a sweep may find any set of times expired, a pass may begin at any moment; ages
in NetworkCache are rounds. Payloads: a transaction has an authorization and a blob or
not, a file is the number of its generation and whether it is whole. A node's command
line is its environment, its storage and the peers it is started with. Hashes are what
they are of. Tokens stand for the characters of a filter, tags and values for the bytes
of a row: its parts are written one after the other and read in turn, without what
peers, keys and agents do not depend on (heights, labels, binaries, whether a node is
online, variables of its environment).

Not modelled, and why:

- `cp/server/api.rs`, `actions/execute.rs`, `actions/deploy.rs`, `cannon/router.rs`:
  routes that parse, look up and answer. What they change is modelled in the
  component they call.
- `schema/cannon.rs`, `schema/outcomes.rs`: deserialisation; a cannon's meaning is in
  CannonTracker's constants, outcomes are read by nothing.
- The byte level of persistence (packed integers, lengths, headers of versions)
  and the database, which is taken to keep what was written, row by row.
- snarkVM's part of aot (authorizations, genesis, execution, truncation,
  queries): cryptography and block production of a third party.
- The command line client but for waiting on events; metrics, logging, the
  build tool, the TypeScript library and the book.
- Within modelled components: overlapping applies of one storage, the choice
  among several binaries, accounts of a document; subscriptions of a
  websocket by message; node and transfer statuses, which are only shown; the
  composition of external nodes with the environment's lifecycle; the Demox
  target, which the code does not implement.

## 7. What a next step would be

An abstract register of the desired state that AgentSync implements and
AgentReconciler reads; overlapping applies of one storage; proofs of
PeerAddresses' AddressesCurrent and of
EventStream's NoCompletionMissed, for which the recursive filters would have to be
kept apart from the stream.
