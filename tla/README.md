# Socrates: a TLA+ model of the edge runtime

Socrates is a C++ runtime that runs one language model on a group of edge
devices. This directory holds TLA+ modules that model its control plane, its
planning, its request pipeline, the threads of discovery and of the listener
against start and stop, and the master program over the C interface; the TLC
configurations that check them on small instances; and TLAPS proofs of the main
results for every instance.

Run a configuration with `tlc -workers 2 -config X.cfg M`, and the proofs with
`tlapm --threads 2 M.tla` for `ClusterProofs`, `PipelineProofs`, `StreamProofs`,
`OrderProofs`, `PlanningProofs`, `StageProofs`, `MasterProofs` and
`LifecycleProofs`; the longest takes some eight minutes from nothing. Paths below
are relative to the repository.

## 1. The system

`EdgeRuntimeImpl` (`src/runtime/edge_runtime.cpp`) owns all parts and wires
them.

| part | state and operations | who runs it |
|---|---|---|
| discovery (`src/discovery`) | coordinator over mDNS, UDP and Bluetooth adapters; `start`, `update_advertisement`, `stop`; events to a callback | two threads of the UDP adapter, one of the mDNS adapter |
| membership (`src/cluster/membership_service.cpp`) | member table (state, last seen, role, capability, models), revision; `observe`, `update_*`, `promote_joining_members`, `snapshot`, `liveness_loop` | discovery threads, start, join, heartbeat, its own liveness thread; one mutex |
| election (`src/cluster/bully_election.cpp`) | leader, fence (term, token, revision), last revision seen; `update_membership`, `current`, `start`, `stop` | inside the membership callback; one mutex |
| runtime lifecycle (`edge_runtime.cpp`) | `start`, `join_cluster`, `leave`, `stop`, heartbeat thread | application threads |
| scheduler (`src/scheduler/memory_scheduler.cpp`) | `create_plan`: places shards on nodes; no state between calls | caller |
| manifest repository (`src/model/manifest_repository.cpp`) | index of published manifests; `publish` | caller |
| assignment store (`src/persistence/sqlite_assignment_store.cpp`) | SQLite tables of plans, stages and tokens | caller; one mutex |
| pipeline (`src/pipeline/inference_pipeline.cpp`) | queue, active requests, workers, batching mode; `generate`, `cancel`, `replan`, destructor | dispatcher thread, one worker per request, application threads |
| stage execution (same file, `src/model/model_manager.cpp`, `src/inference`) | loaded sessions, shard leases | workers |
| transport (`src/transport/grpc_transport.cpp`, `tensor_codec.cpp`) | connections, handlers, frames; `send_unary`, streams | workers, one thread per incoming connection |
| C interface (`bindings/c/socrates.cpp`) | one global runtime, handles by request id; `socrates_generate`, `socrates_cancel_by_id`, reports | threads of the embedding program; one mutex for the handles |
| master program (`tools/master_cli.cpp`) | HTTP server: `/generate`, `/cancel`, `/join`, `/cluster`, `/models`, `/health`; a `Ctx` per stream | one detached thread per connection, and the pipeline's worker in its callback |
| profilers, identity, model catalog, backend dispatch, trace, Python bindings, daemon, worker program | see section 8 | |

What flows between them: discovery events go to membership; every membership
change that is announced goes to the election inside the same critical section;
the heartbeat thread admits joining members while this node leads and nothing is
generating; `join_cluster` on the leader makes a plan from the manifest, or
generates one, and saves it; `generate` hands the plan to the pipeline, whose
workers run its stages here or call other nodes. The master program passes
prompts in through the C interface; the worker's events come back out through
its callback, straight to the client's socket.

Expectations come from `docs/ENGINE_BLUEPRINT.md` (lines 82 to 149) and from the
contracts in the headers under `include/socrates/`, which promise far more than
the few tests exercise.

## 2. Modules

| module | models | extends |
|---|---|---|
| `Membership` | membership_service.cpp | |
| `Election` | bully_election.cpp, with the term store | |
| `Leadership` | abstract: a fenced lease service | |
| `Cluster` | edge_runtime.cpp: start, join, leave, stop, crash, heartbeat, the callback from membership to election | Membership, Election |
| `ClusterProofs` | proofs about Cluster | Cluster |
| `Pipeline` | inference_pipeline.cpp: requests, queue, dispatcher, workers, cancellation, replan, destructor | |
| `PipelineProofs` | proofs about Pipeline: destructor, ownership, terminal events, cancellation | Pipeline |
| `StreamProofs` | proofs about Pipeline: the refinement of RequestStream, types | PipelineProofs |
| `OrderProofs` | proofs about Pipeline: the order of starts | StreamProofs |
| `RequestStream` | abstract: the order in which one request's callback is given its events | |
| `Scheduler` | memory_scheduler.cpp, schedule_core | |
| `AssignmentStore` | sqlite_assignment_store.cpp | |
| `Planning` | schedule_plan: manifest to active and stored plan, crash, restart | Scheduler, AssignmentStore |
| `PlanningProofs` | proofs about Planning, Scheduler and AssignmentStore | Planning |
| `StageExecution` | one pass over a plan's stages: session cache, leases, backends, remote calls | |
| `StageProofs` | proofs about StageExecution | StageExecution |
| `Discovery` | discovery_service.cpp and its three adapters, with their threads and sockets | |
| `Listener` | grpc_transport.cpp: start, stop and the accept thread | |
| `Lifecycle` | edge_runtime.cpp: start and do_stop (stop and leave) around membership with its thread, discovery and the listener | Discovery, Listener |
| `LifecycleProofs` | proofs about Lifecycle | Lifecycle |
| `Master` | master_cli.cpp over bindings/c/socrates.cpp, with the pipeline's table of workers | |
| `MasterProofs` | proofs about Master | Master |
| `MCPipeline`, `MCPlanning`, `MCStageExecution`, `MCMaster` | constants for the runs | the module named |

Definitions keep the names of the functions they stand for; `PROJECT.json` gives
the lines of each. A definition whose name starts with `Mutant` is a wrong
version of the definition that follows it, used to see that a property notices.

### How state and steps correspond to the code

**Membership, Election, Cluster.** One variable per member field (`mstate`, `age`,
`role`, `capable`, `models`) and the revision. An operation is one step, since the
service mutex covers it, and the callback (`emit_snapshot`) is called in it:
`Forward` gives the snapshot to the election in the same step. The liveness sweep
changes states and the revision and delivers nothing. `start()` is several steps,
because discovery already delivers while the runtime is built up: self
observation, promotion and profile come before the election exists. When discovery
cannot start, `start()` returns and the runtime is `stranded`: membership runs,
and only `stop()` or `leave()` ends it. `leave()` and `stop()` are several steps
as well, with the heartbeat thread running until it is joined. The heartbeat's
leadership check and its promotion are two steps. A crash may come at any time.
Node ids are numbers whose order stands for the order of the id strings. The term
store has the outcomes of `StoreResults`: `stored` is what `TermStore` promises,
`lost` is what `InMemoryTermStore` does.

**Pipeline.** A step is what happens between two synchronisation points: one
critical section, one callback or one atomic access. `generate()` is up to six
steps, so that the queue can change between its push and its reading of the last
entry; the dispatcher takes, gathers, fills and starts in separate steps; a
worker computes a token and delivers it in two. The deque is a set with arrival
numbers. Erasing from the deque may invalidate a pointer another thread took
(`DisturbPointers`): both outcomes are possible. A handle keeps a bare pointer to
the pipeline, and `socrates_stop` destroys the pipeline and keeps the handles: a
`cancel()` afterwards (`RemoveQueued`) finds nothing, or the process ends, which
is a behaviour that stops there. Tokens are their numbers. In the
distributed loop an answered remote call is part of computing the token; one that
is not answered (`CallRemote`) ends in an error (`LoseCall`) or never.

**Scheduler, AssignmentStore, Planning.** `create_plan` places one shard per
step (`PlaceShard`), so a crash can come between any two. The choice among
equally good nodes, and the order `std::sort` gives equal elements, are
nondeterministic. `save_plan` is one step per SQL statement, each of which may
fail; SQLite is external and is modelled by what a transaction means.
`append_token` reads the last position first; when that read fails at its step
the code leaves its test out and inserts the token, and `blind` remembers it.
`load_plan` is not an action: it changes nothing, and nothing under `src/` calls
it. A plan
carries its input as `basis`, for the properties to compare with.

**StageExecution.** Worker steps under `sessions_mutex_` are separate, with the
mutex as a variable: find, acquire, load. A worker can be stopped through its
token or by clearing `active`, and the loops do not test the same one everywhere
(`stopped`). `failed` remembers which loads have failed. A lease is an entry in
the manager's table, which no code removes. A call on the loopback transport
returns an answer the codec refuses; a call over TLS that connects ends only
when the connection does, since no frame carries the checksum the receiver waits
for and no node registers the method.

**Discovery, Listener, Lifecycle.** The platform decides which mDNS adapter is
built, whether `close()` wakes a blocked `recvfrom()` (not on Linux and Android)
and whether `shutdown()` surely ends an `accept()` (on Linux and Android;
elsewhere it may be refused). It is a variable set once in `Init`. The coordinator
starts and stops its adapters one step each. The steps of the UDP adapter's
`stop()` (flag, two closes, two joins) are separate, with the two threads at any
point of their loops; a datagram is counted, not read. The membership callback is
two steps, the test of `membership_` and its use, because no lock covers both:
`do_stop()` may destroy the service in between (`CallbackDangles`: the process may
end or go on). The listener never serves a connection: the runtime passes an empty
private key, so every handshake fails, once its peer has said something
(`HandshakeEnds`). The liveness thread is started by the constructor of the
membership service and joined by its `stop()`; `leave()` does that first, `stop()`
after the transport. `Cluster` models the same `start()` and `do_stop()` with the
effects on membership and election, and leaves out what `Lifecycle` is about.

**Master.** A connection stands for its thread, its `Ctx` and the generation it
starts. Socket numbers are given out again after `close()`. The runtime's mutex is
a variable, held from the call of `generate()` to the recording of the worker
thread; `join_cluster()` does without it (`TornPlan`). Creating the worker thread
and recording it in `workers_` are two steps, as are the worker's test and its
token, and its last event and the setting of `done`. `Naming` gives every
connection a request id: the master program gives all of them the same one, a
program that keeps the precondition of `generate()` gives each its own, and the
runs and theorems say which they need. A thread reads its request without a
timeout: the client sends it (`SendRequest`), goes away (`EndOfRequest`) or keeps
it waiting. A write waits for a client that reads no more (`stalled`). Writing to
a client that went away may raise SIGPIPE, which ends the process. The program
only ever runs the pipeline in immediate mode, so `Pipeline`'s queue is not part
of this model.

## 3. Runs

Every passing run but `pipeline_worker` and `pipeline_replan` checks the type
invariant `TypeOK` of its module as well.

| run | configuration | result |
|---|---|---|
| `cluster_durable` | `Cluster`, ClusterDurable.cfg | passes |
| `cluster_term_rollback` | `Cluster`, ClusterTermRollback.cfg | violated, as documented below |
| `cluster_leave_terminates` | `Cluster`, ClusterLeaveTerminates.cfg | violated |
| `pipeline_modes` | `MCPipeline`, PipelineModes.cfg | passes |
| `pipeline_worker` | `MCPipeline`, PipelineWorker.cfg | passes |
| `pipeline_replan` | `MCPipeline`, PipelineReplan.cfg | passes |
| `planning_store` | `MCPlanning`, PlanningStore.cfg | passes |
| `planning_order` | `MCPlanning`, PlanningOrder.cfg | violated |
| `stage_execution` | `MCStageExecution`, StageExecution.cfg | passes |
| `master` | `MCMaster`, Master.cfg | passes |
| `master_shared_id` | `MCMaster`, MasterSharedId.cfg | violated |
| `lifecycle` | `Lifecycle`, Lifecycle.cfg | passes |

**cluster_durable.** One node of a three-node cluster, started twice, with a term
store that keeps its contract.
- `OnlySuspicionsUnseen`: the subscriber lacks nothing but suspicions, and the
  revision counts them exactly.
- `LeaderIsHighestAlive`: the election has always seen the newest delivered
  snapshot and names the highest member alive in it. The revision rollback
  exception that the runtime swallows was never due.
- `LeaderWasAdmitted`: a leader was promoted before it was appointed.
- `FenceBelongsToLeader`: the published fence is the one that leader was
  announced with.
- `OneLeaderPerTerm`, `TermsNeverRegress`: over restarts and crashes.
- `RevisionNamesMembers`: no change of the table without a new revision.
- `IsLeaseService`: the control plane implements `Leadership`. The refinement
  maps the lease to leader and fence, the grants to the announcements and the
  floor to the stored term.
- `SilentMembersTurnSuspect`: under fair threads, a member no longer heard of
  does not stay alive.

**cluster_term_rollback.** With the store the runtime really installs
(`InMemoryTermStore`), `TermsNeverRegress` fails at the second start.
`docs/ENGINE_BLUEPRINT.md:131`: "Election persistence must prevent term rollback
across restart."

**cluster_leave_terminates.** `NeverTerminated`: `leave()` stops the election
while the heartbeat thread runs. Its next `is_local_leader()` throws outside the
try block, and the process ends (`docs/ENGINE_BLUEPRINT.md:99`).

**pipeline_modes.** Two requests in every mode, with a cancellation and a
destruction at any time.
- `HeldByOne`: until its stream ends, a live request is in the hands of exactly
  one of `generate()`, queue, dispatcher and worker.
- `StartInOrder`: queued requests start in queue order.
- `TerminalIsLast`: nothing follows a terminal event.

**pipeline_worker.** One request through each of the three generation loops, two
cancellations, and remote calls that may never be answered.
- `CancelBoundsTokens`: at most the token already computed is delivered after a
  cancellation.
- `IsRequestStream`: the pipeline implements `RequestStream`: one start, rising
  token numbers, one terminal event, nothing after it. This is less than
  `inference_pipeline.h:111` says ("strictly increasing event sequences"), and the
  rest does not hold: `emit_queued` and `emit_started` send 0
  (`inference_pipeline.cpp:344-360`) and the first token is number 0 as well; the
  terminal event repeats the count of tokens, and after `run_generation_local`,
  which does not count them, it is 0 again.
- `UnstoppedRequestsEnd`: a request nobody stops ends, in every mode, unless it
  hangs in a remote call.
- `StartedRequestsEnd`: a request that was announced as started ends, whenever
  it is cancelled, with the same exception. It cannot be said of every request:
  one that is cancelled after the dispatcher took it and before it is started is
  dropped without an event, against `inference_pipeline.h:94`.

**pipeline_replan.** `NoWorkerSurvives`: no worker outlives the destructor, also
with `replan()`, which sets an inactive
request active again, and with a mode change. The stream properties do not hold
with `replan()`, which repeats tokens and announces a completion of its own; only
tests call it.

**planning_store.** Two lives of a runtime that plans, saves, fails and crashes
anywhere, with direct callers of the scheduler and the token history beside it.
- `PlanIsComplete`: every shard in one stage, every layer in one stage.
- `PlanFits`: no node is given more than its memory, the reservations in the plan
  are what its shards need, and every backend suits. Need is what the code takes
  for it: peak memory and reserve. `estimated_kv_bytes_per_token` is not read
  (`memory_scheduler.cpp:203`), although `docs/ENGINE_BLUEPRINT.md:135` and `:193`
  ask for room for the projected KV growth; and a backend suits with any one of
  the required compute units (`memory_scheduler.cpp:49-55`), where
  `ENGINE_BLUEPRINT.md:196` says the list is conjunctive.
- `LayersRunInOrder`: the active plan runs the layers of the model in order,
  whatever order the shards were placed in: among the inputs are some whose
  sensitive shards are placed first and hold later layers. It is the
  part of "ordered" the code keeps; `planning_order` shows the part it does not.
- `StoredPlansWhole`, `StoreKeepsPlans`: a stored plan has all its stages,
  whatever failed; nothing takes a committed plan or stage away.
- `StoredPlanIsComplete`: the committed stages of a plan of the manifest assign
  its shards, each once. It speaks of the tables, not of `load_plan`, which
  takes a read that fails midway for the end of the rows
  (`sqlite_assignment_store.cpp:320`, `:338`).
- `HistoryContiguous`: positions of the token history have no gap, as long as no
  token went in after a `SELECT` that failed (`:368`).

**planning_order.** `ActivePlanInOrder`: a manifest shaped like
`fixtures/models/tinyllama` gives a plan that runs the output stage before the
layers (`scheduler.h:134`: "ordered, complete, non-overlapping").

**stage_execution.** Two workers on local and remote stages, either build.
- `SessionsOwnShards`: each session holds its own lease, no shard is loaded
  twice, although leases are never returned.
- `LeaseTakenForCause`: a worker that missed the cache is refused its lease only
  if a load of the shard failed before, or the shard is loaded for another stage
  or backend; never because another worker is loading the same session. That a
  worker runs the shard its own plan names is not true of the code: the cache key
  has no model in it, and the plans of the run include a replaced manifest.
- `LocalRequestsEnd`: a remote call that never returns blocks no local request.

**master.** Two clients of the master program, each on any route, with a shared
request id or two; a client may go away, send nothing or stop reading.
- `RepliesNotMixed`: no event is written through a deleted `Ctx` or to another
  client's socket, although numbers are reused and the worker outlives nothing
  but its own last event.
- `WorkersAreTracked`: with unique ids a live worker is in `workers_`, where the
  pipeline's destructor finds it, once its launch is recorded.
- `RepliesEnd`: a connection whose request was read is closed in the end, unless
  its own generation hangs in a remote call or its own client does not read;
  another one's hanging call, silence or full socket delays nobody. A client that
  never sends its request keeps its thread: `read_line` has no timeout.

**master_shared_id.** `ServerSurvives`: `handle_client` gives every prompt the id
`http-req`. The second of two prompts moves its thread onto a joinable one in
`workers_`, which is `std::terminate`; two prompts one after the other are enough,
if the first worker ended before it was recorded or has not yet removed its entry.
`tools/master_cli.cpp:3`: "Exposes HTTP API so any device can send prompts."

**lifecycle.** Two starts, each with a `stop()` or `leave()`, on four platforms and
three builds; other nodes may stay silent for ever.
- `StoppedIsQuiet`: once `stop()` has returned there is no adapter, accept or
  liveness thread, no open socket and no membership (`discovery_service.h`: "waits until
  no future callback can begin").
- `FailedStartLeavesMembership`: a `start()` that failed in discovery has left the
  membership service with its liveness thread, and no thread or socket of
  discovery or the listener. The second half rests on the order of the methods:
  the coordinator does not undo the adapters it has started, but the only one
  that can throw comes first. The first half is against
  `docs/ENGINE_BLUEPRINT.md:155` ("rolls back already-started dependencies"):
  `start()` undoes nothing and stays in `kStarting` until `stop()` is called.
- `StopReturns`: `start()`, `stop()` and `leave()` return, unless a callback into
  the destroyed membership service ends the process, or the call waits for ever in
  one of three places (`WaitsForPeer`): joining a receiver that is blocked in
  `recvfrom()` on Linux or Android (`udp_discovery.cpp:117-119`), where `stop()` of
  a node that is alone hangs; joining an accept thread that `shutdown()` did not
  wake, on macOS or Windows (`grpc_transport.cpp:344`); joining one in
  `SSL_accept()` with a silent peer (`:373`). `discovery_service.h:73` gives
  `stop()` no precondition that would exclude the first. The run shows that these
  three are all.

### Bounds

| bound | value | why it is enough |
|---|---|---|
| `Nodes` | 3 ids, the local one in the middle | leadership can pass to a lower, an equal and a higher node |
| `MaxRevision` | 5 to 7 | start uses three revisions; the rest covers join, promotion and a leader change after them. Bounds discovery and join only: no bound cuts a code path |
| `SuspectAfter` | 1 | ages count clock ticks; one threshold separates fresh from silent |
| `MaxBoots`, `MaxLives` | 1 or 2 | two are needed for anything across a restart |
| `Requests` | 2, or 1 where all loops run | two requests meet in queue, batch and table |
| `BatchSize` | 2 | a batch that fills, and one that waits |
| `MaxTokens` | 1 or 2 | two for the order of tokens |
| `MaxCancels`, `MaxReplans`, `MaxReconfigs` | 0 to 2 | two cancellations: handle and token |
| `Conns`, `Fds` | 2 each | two threads meet at the runtime lock, the table of workers and a reused number; the theorems cover more |
| `MaxLeavers`, `MaxStalled` | 2, 1 | every client may go away; one may hold up its own thread |
| `MaxInbox` | 2 | an empty, a filling and a full socket |
| `MaxStarts` | 2 | anything left over by the first stop meets the second start |
| shards | up to 4, memory up to 6 | tight and roomy nodes, gaps, overlaps, duplicates |
| `AutoLayers` | 3 instead of 32 | one per shard and a remainder |
| `MaxPosition` | 2 | next, repeated and skipped positions |

Symmetry (the two requests) is used in `pipeline_modes` only, which checks no
liveness. Deadlock is not checked where the application may simply stop calling,
or the bounds end; `planning_store` checks it.

### Fairness

What the code's threads do by themselves is weakly fair, and nothing else is.

- `Cluster.FairSpec`: weak fairness of time, of the liveness thread and of the
  heartbeat thread (loops with a sleep), and of `start()`, `join_cluster()` and
  `do_stop()` once begun. None for discovery, the application or crashes.
- `Pipeline.Fairness`: weak fairness of each started call, the dispatcher, each
  worker, a `cancel()` in progress and a destructor in progress. None for calls by
  the application.
- `StageExecution.Fairness`: weak fairness of worker threads for local work. None
  for the network: a remote call may wait for ever. The same holds of `Pipeline`
  and `Master`, where such a call is the step `CallRemote`.
- `Master.FairSpec`: weak fairness of each connection's thread and each worker,
  while the process is up. None for clients, who need not send, read or go away.
- `Lifecycle.FairSpec`: weak fairness of the thread inside `start()` or `stop()`,
  of the adapter threads, the accept thread and the liveness thread. None for
  other nodes: no datagram, connection or handshake is owed. Deallocating the
  service references is taken to wake the DNS-SD thread, as the code relies on.
  The joins of heartbeat and pipeline, which come first in `do_stop()`, are in
  `Cluster` and `Pipeline`.

## 4. What is proved

Every invariant, action property and refinement that a passing run checks is
also proved; only the liveness properties are not (section 5). A proof module
starts with `USE ZenonT(20)`: Zenon proves every leaf that names no prover, and
SMT is cited where arithmetic, records or function updates take part. Zenon is
the cheaper of the two in modules of this length.

`ClusterProofs` proves, for every set of nodes, every threshold and every value
of the bounds, from the assumptions `NodesAssumption` and the other named ones in
`Membership`, `Election` and `Cluster`:

- `TypeCorrect`, `SubscriberLacksOnlySuspicions`, `ElectionFollowsMembership`,
  `LeadersAreAdmitted`, `FencesBelongToLeaders`, `RevisionsNameMembers`;
- `OnlyDrainTerminates`: the exception of `cluster_leave_terminates` ends the
  process only while `leave()` drains. At every other time the heartbeat thread
  runs, the election runs (`ElectionOutlivesHeartbeat`), so `stop()` is safe;
- with the further hypothesis `Durable` (every write of the term store is kept):
  `DurableTermsNeverRegress`, `DurableOneLeaderPerTerm` and
  `DurableLeaseService`, the refinement of `Leadership`. The hypothesis cannot be
  dropped: `cluster_term_rollback` is the counterexample.

The argument. Every step is of one of four kinds (`StepKinds`): it emits a
snapshot with the next revision (`Emits`), it only raises suspicions
(`Suspects`), it leaves membership alone (`Quiet`), or it makes a new service
object (`Renews`). The inductive invariant `ControlInv` joins the types, the
count of undelivered suspicions, the phases in which an election exists, the fact
that an election not yet given a snapshot has no leader, and the two statements
about leader and fence. `LeaderIsHighestAlive` alone is not inductive: that the
election never refuses a snapshot needs the revision of the next one to be above
the last one seen, which is what the count gives. Terms need in addition that the
stored term is never below an announced one (the Durable part).

`PipelineProofs` proves, for any set of requests, modes, batch size, token limit
and number of cancellations, from `RequestsAssumption` (`"none"` and `"wild"`,
the values of a missing and of a dangling reference, are no requests) and the
types of the constants (`ConfigAssumption`, `LimitsAssumption`):

- `DestructorJoinsAll`, for `Spec`, which includes `replan()`: no worker is left
  when the destructor returns;
- `StreamsEndOnce`, `RequestsHeldByOne` and `CancelStopsTokens`, for
  `RuntimeSpec`, without `replan()`, which sets requests active again.

The argument. For the destructor (`JoinInv`): a live worker is in `workers_`, or
`generate()` or the dispatcher is just between creating and recording it, or it
has been taken by the destructor; once the dispatcher has exited and no call is
in progress the second case is gone, and taking the table takes them all. For the
streams (`StreamInv`): generate(), queue, batch, dispatcher and worker have a
request in turn (`Apart`); only who has it may send it events, and a terminal
event is sent by letting go of it (`Accounted`), so neither property can be shown
without the other. That the dispatcher starts a request it has taken needs a
least arrival number (`FirstIsMember`), and that a late token is the last needs
`Bounded`.

`StreamProofs` goes on with

- `PipelineKeepsPromise`, for `RuntimeSpec`: the pipeline keeps to the order of
  `RequestStream`, which is the refinement `IsRequestStream`;
- `PipelineTyped`, for `Spec`: the types, with `replan()`.

The argument. A step that sends an event must find the stream where
`RequestStream` allows that event. `PhaseInv` says so from the sender's side: who
has a request in hand knows the kind of the last event its callback was given
(`Announced`), and a worker's tokens so far are numbered below its loop counter
(`Counted`). Ownership (`StreamInv`) is what keeps this true when others take
steps: nobody else can send. For the types the queue is the difficulty: its front
and back exist only because arrival numbers are given once each and finitely many
have been (`Arrivals`), and because the dispatcher never looks at an empty one;
`TypeInv` has both.

`OrderProofs` proves `QueuedStartInOrder`, for `RuntimeSpec`. `StartInOrder` looks
at requests that have started, and a request is taken, gathered and passed over
long before. `OrderInv` therefore speaks of how far requests have moved: nobody
that came earlier is still in the queue when a later one has left it, nor in the
batch when a later one has left that (`KeepsOrder`). That a request which has left
both has started, or is deactivated, needs to know what a stream can show at each
point (`Begun`), and that `remove_queued()` ends only what its `cancel()` has
deactivated, even through the handle of another request (`Handles`).

`PlanningProofs` proves, for any nodes, backends, manifests, memories and inputs
and any number of lives, from the typing of those constants
(`SchedulerAssumption`, `BackendsAssumption`, `PlanningAssumption`,
`ShardsAssumption`, `PositionAssumption`):

- `PlanningTyped`, and `HistoryHasNoHole`, which excepts histories with a token that
  went in unchecked;
- `PlansStoredWhole`, `StoredPlansComplete`, `StoreOnlyGrows`: what is stored;
- `PlansComplete`, `ActiveLayersInOrder`: what a plan holds, and in what order;
- `PlansFit`, with the hypothesis `SoundInputs`: shard ids are unique, and the sum
  of peak and reserve does not wrap. The code assumes both of its inputs and tests
  neither, and the inputs of `MCPlanning` satisfy both.

The argument for the store. `StoreInv` follows a save through its statements: what
`save_plan` has written to its copy of the tables after each of them
(`SavingInv`), that the committed tables hold complete plans only (`TablesInv`),
and that no plan of this life is in them before its commit (`Fresh`), so that the
deletes before the inserts hit nothing. That the plan being saved is complete
comes from the placement: the first `Len(stages)` shards in sorted order have a
stage each (`PlacedSoFar`), and neither sort loses or repeats one.

The argument for the plan. The contiguity test of `schedule_core` compares
neighbours only. That ranges which follow one another from 0 to the end hold each
layer once is `ChainCovers`; that the tested list and the stages hold the same
ranges is `LayersOnce`; the order is `MadeInOrder`. For the memory, what is left
on a node and what its stages reserve add up to what it reported (`FitInv`). The
sums are over sets whose elements are taken in an arbitrary order, and the
property adds the same shards up in another one: the lemmas from `SumExists` to
`TotalsAgree` show that the order does not matter, each by a least counterexample
on the number of elements.

`StageProofs` proves, for any number of workers, any plans whose stages are
well formed (`StageAssumption`) and any token limit:

- `StagesTypeCorrect`: the types, and which worker holds which mutex;
- `SessionsKeepTheirShards`: a loaded session has its lease, and no shard is
  loaded twice;
- `RefusalsHaveCause`: a lease is refused to a worker that missed the cache only
  after a failed load of that shard, or when another stage or backend has it.

The argument. `SessionsOwnShards` is not inductive: a load appends a session, so
one must know that the shard being loaded is leased and in no session yet. This
is `LoadingIsNew`, which holds because a lease is refused once taken and the
mutex keeps a second worker out until the load has ended. The causes of a refusal
need two more facts: every lease is that of a session, of a failed load, or of the
load in progress (`LeasesAccounted`), and between a worker's miss and its request
for the lease nobody else adds a session (`MissedCache`). `StageInv` adds that a
worker is at a stage of its plan (`InPlan`) and within its tokens (`InBudget`).

`MasterProofs` proves, for any number of connections, request ids and socket
numbers and any length of generations: `MasterTyped`, `RepliesStayApart` and,
for unique ids, `OwnIdsAreTracked`. The assumptions
are that `"none"` is no connection (`ConnsAssumption`), that ids are given by
functions (`NamingAssumption`) and that bounds are numbers (`BoundsAssumption`).

The argument. That no event goes astray needs four facts at once (`ReplyInv`): a
serving thread owns its socket number, it has a `Ctx` while it is in `/generate`,
a worker uses both only while the thread still waits, and `done` is set only by a
worker that will not use them again. The table of workers needs `RecordedOnce`:
under an id there is only ever the thread of its own connection, and only after
that connection's single launch has been recorded, so that the entry is empty
when `launch_worker()` comes to it.

`LifecycleProofs` proves, for any set of platforms and builds and any number of
starts: `StopQuiesces` and `FailedStartLeavesItsMembership`. The invariant `QuietInv`
says that what an adapter holds (threads, sockets, flag) it holds only while it
is in service, that is, in the coordinator's list and not yet passed by the loop
of `stop()` (`HeldInService`); what each step of the UDP adapter's `stop()` has
already given up (`UdpStopOrder`); and that the coordinator has no adapter when
mDNS fails (`CoordinatorInv`). `StoppedIsQuiet` alone says nothing of the steps
in between. `LifecycleTyped` adds the types; the loop index stays inside the lists
it walks because an adapter that is kept takes the index with it (`IndexInv`).

## 5. Only model-checked

The liveness properties `SilentMembersTurnSuspect`, `UnstoppedRequestsEnd`,
`StartedRequestsEnd`, `LocalRequestsEnd`, `RepliesEnd` and `StopReturns`: fairness
and ENABLED are outside what the prover does. The four properties that the code
violates are of course not theorems either; for each of them section 4 has the
part that does hold (`DurableTermsNeverRegress`, `OnlyDrainTerminates`,
`ActiveLayersInOrder` and, for `ServerSurvives`, what `OwnIdsAreTracked` says of
unique ids).

## 6. Where model and code could part

- `do_stop` and `start` run under the runtime mutex for their first part only;
  the model lets the application call one lifecycle operation at a time, which
  is what `EdgeRuntimeImpl` checks for with its state. `join_cluster` takes no
  lock; the model does not let the application stop a runtime it is joining
  with.
- The heartbeat's idle check reads the pipeline. `Cluster` has no pipeline: the
  check may succeed whenever this node leads.
- `generate()` and `replan()` do not overlap the pipeline's destructor, as the
  runtime's lock and state check ensure; handles and tokens may.
- Scores of the scheduler are abstracted to the nodes that may be chosen.
- Members are admitted by the local leader's heartbeat only; remote members never
  get a capability profile in this code, so a runtime plans for itself alone.
  Direct callers of `create_plan` (the tests) plan for two nodes.
- HTTP requests are well formed, and so are the announcements of other nodes:
  `std::stoi` (`master_cli.cpp`) and `std::stoul` (`udp_discovery.cpp:164`) throw on
  others, out of a thread, which ends the process.
- `INVALID_SOCKET`, which the UDP adapter assigns on every platform, is taken to
  be a number that is no socket; the repository defines it nowhere for POSIX.
- `Master` takes the runtime as started once; `Lifecycle` and `Cluster` model how
  it starts and stops. The master program never reaches `socrates_shutdown`.

## 7. What remains

Behaviour that the modules have and no property speaks of, since the code does
otherwise than a property would say: the handle of a queued request may be
another request's (`inference_pipeline.cpp:203`); a queued request starves when
the mode becomes immediate (`:438`); a callback may use the membership service
that `do_stop()` has destroyed (`edge_runtime.cpp:473`); a cancellation is lost
between the start of a generation and the storing of its handle
(`socrates.cpp:180`); the plan is assigned without the lock under which it is
copied (`edge_runtime.cpp:554`); a session loaded for a stage of one manifest
serves the same stage of the next one (`inference_pipeline.cpp:523`); a handle may
use the pipeline after `socrates_stop` has destroyed it (`:316`).

Where a property says less than a document asks, section 3 says what the code does
instead: event numbers (`IsRequestStream`), KV growth and compute units
(`PlanFits`), the undoing of a failed start (`FailedStartLeavesMembership`) and the
waits of `stop()` (`StopReturns`). A model without layer stages is accepted by the
scheduler unchecked (`memory_scheduler.cpp:282`), and `PlanIsComplete` asks nothing
of its layers.

What a larger model would add: `Cluster` and `Pipeline` joined at the drain of
`leave()`, which polls a count that a completed request never leaves; `load_plan`,
once something calls it, with the terms of `Cluster`. The liveness properties wait
for a prover that reasons about fairness.

## 8. Not modelled, and why

- Profilers, identity provider, model catalog, backend dispatch: reads of the
  machine or pure functions; their results are inputs of the model.
- Manifest parsing and validation: conversions of one document without state; a
  manifest enters as its shards.
- Sockets, TLS, SQLite, llama.cpp and the other engines: external; they enter
  through the outcomes the code handles.
- Streams of the transport: no code opens one.
- `detect_node_loss` of the pipeline: no caller.
- `load_plan` of the store: no caller, and it changes nothing. It tells an error of
  `sqlite3_step` from the end of the rows nowhere.
- The serving side of the transport (`handle_incoming` and its threads): no
  incoming handshake succeeds with the empty private key the runtime configures.
- The byte layout of the tensor codec: a pure function of bytes.
- `update_advertisement` and the injections of the adapters: no caller.
- Reports of the C interface that change nothing (profiler, progress, estimate).
- Trace, logging, Python packages, daemon and worker program: no state the system
  reads beyond the calls that `Cluster` and `Lifecycle` have.
