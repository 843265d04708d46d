-------------------------------- MODULE Master --------------------------------
(***************************************************************************)
(* The master program (tools/master_cli.cpp) over the C interface          *)
(* (bindings/c/socrates.cpp): an HTTP server with one detached thread per  *)
(* connection.  A /generate thread calls into the runtime, whose pipeline  *)
(* (batching_mode 0, immediate) starts a worker; the worker streams events *)
(* to the connection's socket through a heap-allocated Ctx, and the thread *)
(* polls the Ctx until the stream is over.                                 *)
(*                                                                         *)
(* A connection stands for its thread, its Ctx and the generation it       *)
(* starts.  Tables keyed by the request id are functions from ids.         *)
(***************************************************************************)
EXTENDS Naturals, FiniteSets, Functions

CONSTANTS
    Conns,      \* connections the server accepts, each once
    Ids,        \* request ids
    Fds,        \* socket numbers, reused after close()
    Naming,     \* how connections may be given request ids
    MaxTokens,  \* bound: tokens of a generation
    MaxLeavers, \* bound: clients that go away before they are answered
    MaxStalled  \* bound: clients that stop reading

ASSUME ConnsAssumption == "none" \notin Conns

ASSUME NamingAssumption ==
    /\ Naming \subseteq [Conns -> Ids]
    /\ Naming # {}

ASSUME BoundsAssumption ==
    /\ MaxTokens \in Nat
    /\ MaxLeavers \in Nat
    /\ MaxStalled \in Nat

VARIABLES
    process,   \* "up", or what ended the process
    program,   \* how far main() has come
    id,        \* the request id handle_client passes for a connection
    conn,      \* where a connection's thread is
    fd,        \* the socket number a thread works with
    socket,    \* which connection a socket number belongs to
    left,      \* connections whose client went away
    stalled,   \* connections whose client reads no more, with full buffers
    ctx,       \* the Ctx of a connection: "none", "live", "deleted"
    done,      \* *ctx->done
    plan,      \* current_plan_
    runtime,   \* who holds the mutex_ of EdgeRuntimeImpl
    worker,    \* where the worker thread of a generation is
    workers,   \* workers_ of the pipeline
    stopped,   \* generations that were cancelled
    tokens,    \* tokens written for a generation
    handles,   \* handles of the C interface
    stray      \* an event was written through a deleted Ctx or to another client

clients == <<left, stalled>>
threads == <<conn, fd, socket, clients>>
replies == <<ctx, done, stray>>
generation == <<worker, workers, stopped, tokens>>

vars == <<process, program, id, threads, replies, plan, runtime, generation, handles>>

None == "none"
Vacant == [i \in Ids |-> None]

Endings == {"terminate", "sigpipe", "torn", "start_failed"}

ConnPlaces ==
    {"waiting", "reading", "accepted", "generating", "locked", "recording", "returned", "refused",
     "polling", "scheduling", "replying", "closed"}
WorkerPlaces == {"none", "running", "calling", "emitting", "signalling", "leaving", "gone"}

(* The type invariant.                                                     *)
TypeOK ==
    /\ process \in {"up"} \union Endings
    /\ program \in {"begun", "initialised", "started", "serving"}
    /\ id \in Naming
    /\ conn \in [Conns -> ConnPlaces]
    /\ fd \in [Conns -> Fds \union {None}]
    /\ socket \in [Fds -> Conns \union {None}]
    /\ left \subseteq Conns
    /\ stalled \subseteq Conns
    /\ ctx \in [Conns -> {"none", "live", "deleted"}]
    /\ done \in [Conns -> BOOLEAN]
    /\ plan \in {"none", "made"}
    /\ runtime \in Conns \union {None}
    /\ worker \in [Conns -> WorkerPlaces]
    /\ workers \in [Ids -> Conns \union {None}]
    /\ stopped \subseteq Conns
    /\ tokens \in [Conns -> 0..MaxTokens]
    /\ handles \in [Ids -> Conns \union {None}]
    /\ stray \in BOOLEAN

Init ==
    /\ process = "up"
    /\ program = "begun"
    /\ id \in Naming
    /\ conn = [c \in Conns |-> "waiting"]
    /\ fd = [c \in Conns |-> None]
    /\ socket = [f \in Fds |-> None]
    /\ left = {}
    /\ stalled = {}
    /\ ctx = [c \in Conns |-> "none"]
    /\ done = [c \in Conns |-> FALSE]
    /\ plan = "none"
    /\ runtime = None
    /\ worker = [c \in Conns |-> "none"]
    /\ workers = Vacant
    /\ stopped = {}
    /\ tokens = [c \in Conns |-> 0]
    /\ handles = Vacant
    /\ stray = FALSE

-------------------------------------------------------------------------------
(***************************************************************************)
(* main(): initialise, start, join, then accept connections for ever.      *)
(***************************************************************************)
socrates_init ==
    /\ program = "begun"
    /\ program' = "initialised"
    /\ UNCHANGED <<process, id, threads, replies, plan, runtime, generation, handles>>

(* start() fails when discovery does; main() then returns 1.               *)
socrates_start ==
    /\ program = "initialised"
    /\ \/ program' = "started" /\ process' = process
       \/ program' = program /\ process' = "start_failed"
    /\ UNCHANGED <<id, threads, replies, plan, runtime, generation, handles>>

(* join_cluster() makes a plan if this node leads and one can be made; its *)
(* result is not looked at.                                                *)
JoinThenServe ==
    /\ program = "started"
    /\ program' = "serving"
    /\ plan' \in {"none", "made"}
    /\ UNCHANGED <<process, id, threads, replies, runtime, generation, handles>>

http_server(c) ==
    /\ program = "serving"
    /\ conn[c] = "waiting"
    /\ \E f \in Fds :
        /\ socket[f] = None
        /\ fd' = [fd EXCEPT ![c] = f]
        /\ socket' = [socket EXCEPT ![f] = c]
    /\ conn' = [conn EXCEPT ![c] = "reading"]
    /\ UNCHANGED <<process, program, id, clients, replies, plan, runtime, generation, handles>>

(* The client closes its end; the server learns of it when it reads or     *)
(* writes.                                                                 *)
GoAway(c) ==
    /\ conn[c] \notin {"waiting", "closed"}
    /\ c \notin left
    /\ Cardinality(left) < MaxLeavers
    /\ left' = left \union {c}
    /\ UNCHANGED <<process, program, id, conn, fd, socket, stalled, replies, plan, runtime,
                   generation, handles>>

(* The client stays and stops reading, and the buffers of the connection   *)
(* are full.                                                               *)
StopReading(c) ==
    /\ conn[c] \notin {"waiting", "closed"}
    /\ c \notin left \union stalled
    /\ Cardinality(stalled) < MaxStalled
    /\ stalled' = stalled \union {c}
    /\ UNCHANGED <<process, program, id, conn, fd, socket, left, replies, plan, runtime,
                   generation, handles>>

-------------------------------------------------------------------------------
(***************************************************************************)
(* handle_client()                                                         *)
(***************************************************************************)
Step(c, from, to) ==
    /\ conn[c] = from
    /\ conn' = [conn EXCEPT ![c] = to]

(* handle_client reads request line, headers and body with read() calls    *)
(* that have no timeout: it goes on when the client has sent them ...      *)
SendRequest(c) ==
    /\ c \notin left
    /\ Step(c, "reading", "accepted")
    /\ UNCHANGED <<process, program, id, fd, socket, clients, replies, plan, runtime,
                   generation, handles>>

(* ... or at the end of the stream, with what has come so far.             *)
EndOfRequest(c) ==
    /\ c \in left
    /\ Step(c, "reading", "accepted")
    /\ UNCHANGED <<process, program, id, fd, socket, clients, replies, plan, runtime,
                   generation, handles>>

(* write() waits for a client that reads no more, and to one that went     *)
(* away may raise SIGPIPE, which nobody handles.                           *)
Write(c) ==
    /\ c \in stalled => c \in left
    /\ process' \in IF c \in left THEN {"up", "sigpipe"} ELSE {"up"}

(* close(fd): the number is free for the next connection.                  *)
Close(c) ==
    /\ socket' = [socket EXCEPT ![fd[c]] = None]
    /\ UNCHANGED <<fd, clients>>

Reply(c) ==
    /\ Step(c, "replying", "closed")
    /\ Write(c)
    /\ Close(c)
    /\ UNCHANGED <<program, id, replies, plan, runtime, generation, handles>>

(* /health and unknown paths.                                              *)
AnswerFixed(c) ==
    /\ Step(c, "accepted", "replying")
    /\ UNCHANGED <<process, program, id, fd, socket, clients, replies, plan, runtime,
                   generation, handles>>

(* /cluster: the snapshot is taken under the runtime's mutex_.             *)
socrates_cluster_snapshot_json(c) ==
    /\ runtime = None
    /\ Step(c, "accepted", "replying")
    /\ UNCHANGED <<process, program, id, fd, socket, clients, replies, plan, runtime,
                   generation, handles>>

(* /models: read from membership, without the runtime's mutex_.            *)
socrates_available_models_json(c) ==
    /\ Step(c, "accepted", "replying")
    /\ UNCHANGED <<process, program, id, fd, socket, clients, replies, plan, runtime,
                   generation, handles>>

(* /join: schedule_plan() assigns current_plan_ without the mutex_.        *)
socrates_join_cluster(c) ==
    /\ \/ Step(c, "accepted", "scheduling") /\ UNCHANGED plan
       \/ Step(c, "scheduling", "replying") /\ plan' \in {plan, "made"}
    /\ UNCHANGED <<process, program, id, fd, socket, clients, replies, runtime, generation,
                   handles>>

(* The plan copied or assigned while another thread assigns it: a torn     *)
(* vector of stages, which may end the process.                            *)
TornPlan(c) ==
    /\ \/ conn[c] \in {"locked", "scheduling"}
       \/ conn[c] = "accepted" /\ runtime = None
    /\ \E d \in Conns \ {c} : conn[d] = "scheduling"
    /\ process' = "torn"
    /\ UNCHANGED <<program, id, threads, replies, plan, runtime, generation, handles>>

(* /cancel: the answer is {"ok":true} whatever the call returns.           *)
socrates_cancel_by_id(c, i) ==
    /\ Step(c, "accepted", "replying")
    /\ stopped' = stopped \union ({handles[i]} \ {None})
    /\ handles' = [handles EXCEPT ![i] = None]
    /\ UNCHANGED <<process, program, id, fd, socket, clients, replies, plan, runtime, worker,
                   workers, tokens>>

-------------------------------------------------------------------------------
(***************************************************************************)
(* /generate                                                               *)
(***************************************************************************)
(* The stream header is sent and the Ctx allocated.                        *)
OpenStream(c) ==
    /\ Step(c, "accepted", "generating")
    /\ Write(c)
    /\ ctx' = [ctx EXCEPT ![c] = "live"]
    /\ UNCHANGED <<program, id, fd, socket, clients, done, stray, plan, runtime, generation,
                   handles>>

(* EdgeRuntimeImpl::generate() takes mutex_ and keeps it until the         *)
(* pipeline's generate() has returned.                                     *)
LockRuntime(c) ==
    /\ runtime = None
    /\ Step(c, "generating", "locked")
    /\ runtime' = c
    /\ UNCHANGED <<process, program, id, fd, socket, clients, replies, plan, generation,
                   handles>>

(* "no active plan"                                                        *)
Refuse(c) ==
    /\ plan = "none"
    /\ Step(c, "locked", "refused")
    /\ runtime' = None
    /\ UNCHANGED <<process, program, id, fd, socket, clients, replies, plan, generation,
                   handles>>

(* The pipeline registers the request, whose kStarted event the callback   *)
(* ignores, and launch_worker() creates the thread ...                     *)
Launch(c) ==
    /\ plan = "made"
    /\ Step(c, "locked", "recording")
    /\ worker' = [worker EXCEPT ![c] = "running"]
    /\ UNCHANGED <<process, program, id, fd, socket, clients, replies, plan, runtime, workers,
                   stopped, tokens, handles>>

MutantRecord(c) ==
    /\ Step(c, "recording", "returned")
    /\ process' = process
    /\ workers' = workers
    /\ runtime' = None
    /\ UNCHANGED <<program, id, fd, socket, clients, replies, plan, worker, stopped, tokens,
                   handles>>

(* ... and then moved into workers_, which ends the process if the entry   *)
(* of that id holds a thread that was neither joined nor detached.         *)
Record(c) ==
    /\ Step(c, "recording", "returned")
    /\ IF workers[id[c]] = None
       THEN workers' = [workers EXCEPT ![id[c]] = c] /\ process' = process
       ELSE process' = "terminate" /\ workers' = workers
    /\ runtime' = None
    /\ UNCHANGED <<program, id, fd, socket, clients, replies, plan, worker, stopped, tokens,
                   handles>>

(* socrates_generate() stores the handle over an earlier one of that id.   *)
StoreHandle(c) ==
    /\ Step(c, "returned", "polling")
    /\ handles' = [handles EXCEPT ![id[c]] = c]
    /\ UNCHANGED <<process, program, id, fd, socket, clients, replies, plan, runtime,
                   generation>>

(* An error code: two events are sent, and nothing is waited for.          *)
ReportRefusal(c) ==
    /\ Step(c, "refused", "closed")
    /\ Write(c)
    /\ Close(c)
    /\ ctx' = [ctx EXCEPT ![c] = "deleted"]
    /\ UNCHANGED <<program, id, done, stray, plan, runtime, generation, handles>>

MutantEndStream(c) ==
    /\ Step(c, "polling", "closed")
    /\ done[c] \/ c \in stopped
    /\ Close(c)
    /\ ctx' = [ctx EXCEPT ![c] = "deleted"]
    /\ UNCHANGED <<process, program, id, done, stray, plan, runtime, generation, handles>>

(* The polling loop ends; Ctx is deleted and the socket closed.            *)
EndStream(c) ==
    /\ Step(c, "polling", "closed")
    /\ done[c]
    /\ Close(c)
    /\ ctx' = [ctx EXCEPT ![c] = "deleted"]
    /\ UNCHANGED <<process, program, id, done, stray, plan, runtime, generation, handles>>

-------------------------------------------------------------------------------
(***************************************************************************)
(* The worker of a generation and the callback it runs.                    *)
(***************************************************************************)
WorkerStep(c, from, to) ==
    /\ worker[c] = from
    /\ worker' = [worker EXCEPT ![c] = to]

(* The Ctx of c is there and its socket number still means c's socket.     *)
Reachable(c) == ctx[c] = "live" /\ socket[fd[c]] = c

Deliver(c) ==
    /\ stray' = (stray \/ ~Reachable(c))
    /\ Write(c)

MutantMayEmit(c) ==
    /\ WorkerStep(c, "running", "emitting")
    /\ c \notin stopped
    /\ tokens[c] <= MaxTokens
    /\ UNCHANGED <<process, program, id, threads, replies, plan, runtime, workers, stopped,
                   tokens, handles>>

(* The generation loop: a token is left and nobody has cancelled ...       *)
MayEmit(c) ==
    /\ WorkerStep(c, "running", "emitting")
    /\ c \notin stopped
    /\ tokens[c] < MaxTokens
    /\ UNCHANGED <<process, program, id, threads, replies, plan, runtime, workers, stopped,
                   tokens, handles>>

(* ... and kToken is sent.                                                 *)
SendToken(c) ==
    /\ WorkerStep(c, "emitting", "running")
    /\ tokens' = [tokens EXCEPT ![c] = @ + 1]
    /\ Deliver(c)
    /\ UNCHANGED <<program, id, threads, ctx, done, plan, runtime, workers, stopped,
                   handles>>

(* kCompleted or kFailed: the last event is sent ...                       *)
SendLast(c) ==
    /\ WorkerStep(c, "running", "signalling")
    /\ Deliver(c)
    /\ UNCHANGED <<program, id, threads, ctx, done, plan, runtime, workers, stopped,
                   tokens, handles>>

(* A pass reaches a stage of another node over TLS: the answer never comes *)
(* (StageExecution), and neither cancellation nor a timeout ends the wait. *)
CallRemote(c) ==
    /\ WorkerStep(c, "running", "calling")
    /\ c \notin stopped
    /\ tokens[c] < MaxTokens
    /\ UNCHANGED <<process, program, id, threads, replies, plan, runtime, workers, stopped,
                   tokens, handles>>

(* The connection to that node breaks; the pass fails and kFailed is sent. *)
LoseCall(c) ==
    /\ WorkerStep(c, "calling", "signalling")
    /\ Deliver(c)
    /\ UNCHANGED <<program, id, threads, ctx, done, plan, runtime, workers, stopped,
                   tokens, handles>>

MutantSignal(c) ==
    /\ WorkerStep(c, "signalling", "leaving")
    /\ done' = [done EXCEPT ![c] = c \notin stopped]
    /\ stray' = (stray \/ ctx[c] # "live")
    /\ UNCHANGED <<process, program, id, threads, ctx, plan, runtime, workers, stopped,
                   tokens, handles>>

(* ... and then *c->done is set.                                           *)
Signal(c) ==
    /\ WorkerStep(c, "signalling", "leaving")
    /\ done' = [done EXCEPT ![c] = TRUE]
    /\ stray' = (stray \/ ctx[c] # "live")
    /\ UNCHANGED <<process, program, id, threads, ctx, plan, runtime, workers, stopped,
                   tokens, handles>>

(* The end of the worker's lambda: whatever thread workers_ has under this *)
(* id is detached and erased.                                              *)
Deregister(c) ==
    /\ WorkerStep(c, "leaving", "gone")
    /\ workers' = [workers EXCEPT ![id[c]] = None]
    /\ UNCHANGED <<process, program, id, threads, replies, plan, runtime, stopped, tokens,
                   handles>>

Work(c) == MayEmit(c) \/ SendToken(c) \/ SendLast(c) \/ Signal(c) \/ Deregister(c)

Serve(c) ==
    \/ EndOfRequest(c) \/ OpenStream(c) \/ LockRuntime(c) \/ Refuse(c) \/ Launch(c) \/ Record(c)
    \/ StoreHandle(c) \/ ReportRefusal(c) \/ EndStream(c)
    \/ socrates_cluster_snapshot_json(c) \/ socrates_available_models_json(c)
    \/ socrates_join_cluster(c)
    \/ \E i \in Ids : socrates_cancel_by_id(c, i)
    \/ AnswerFixed(c) \/ Reply(c)

Next ==
    /\ process = "up"
    /\ \/ socrates_init \/ socrates_start \/ JoinThenServe
       \/ \E c \in Conns :
            \/ http_server(c) \/ GoAway(c) \/ StopReading(c) \/ SendRequest(c)
            \/ Serve(c) \/ TornPlan(c)
            \/ Work(c) \/ CallRemote(c) \/ LoseCall(c)

Spec == Init /\ [][Next]_vars

(* Threads that can run do run: a thread of a connection, and a worker.    *)
(* Clients need neither come nor go, send their requests nor read their    *)
(* answers, and no answer is owed by other nodes.                          *)
FairSpec ==
    /\ Spec
    /\ \A c \in Conns :
        /\ WF_vars(process = "up" /\ Serve(c))
        /\ WF_vars(process = "up" /\ Work(c))

-------------------------------------------------------------------------------
(* Events never reach a deleted Ctx or the socket of another connection:   *)
(* the polling loop of handle_client keeps both until the worker has made  *)
(* its last use of them, although socket numbers are reused.               *)
RepliesNotMixed == ~stray

(* With ids of their own, a worker thread that has not ended is in         *)
(* workers_, where the destructor of the pipeline finds it, unless its     *)
(* launch is just being recorded: launch_worker() creates the thread       *)
(* before it records it, and the thread removes its record by itself.      *)
WorkersAreTracked ==
    IsInjective(id) =>
        \A c \in Conns :
            worker[c] \notin {"none", "gone"} =>
                workers[id[c]] = c \/ conn[c] = "recording"

(* A connection whose request was read, or whose client went away before   *)
(* it had sent one, is closed in the end, if the process lives, its client *)
(* reads its answer and its own generation does not hang in a remote call: *)
(* refused, cancelled, finished or failed, a /generate thread gets to the  *)
(* end of its polling loop; and neither the hanging call nor the silent or *)
(* stalled client of another connection delays it.                         *)
RepliesEnd ==
    \A c \in Conns :
        (conn[c] = "accepted" \/ (conn[c] = "reading" /\ c \in left)) ~>
            \/ conn[c] = "closed"
            \/ worker[c] = "calling"
            \/ c \in stalled \ left
            \/ process # "up"

(* Prompts may be sent by any device ("Exposes HTTP API so any device can  *)
(* send prompts", tools/master_cli.cpp:3): two of them must not end the    *)
(* process.                                                                *)
ServerSurvives == process # "terminate"

=============================================================================
