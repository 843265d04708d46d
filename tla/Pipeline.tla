------------------------------- MODULE Pipeline -------------------------------
(***************************************************************************)
(* InferencePipelineImpl (src/pipeline/inference_pipeline.cpp): requests   *)
(* admitted by generate(), the pending queue and its dispatcher thread,    *)
(* one worker thread per dispatched request, cancellation, replanning and  *)
(* the destructor.  A step is what happens between two synchronisation     *)
(* points: one critical section, one callback or one atomic access.        *)
(*                                                                         *)
(* pending_queue_ is the set of waiting requests; arrival numbers give its *)
(* order.  stream[r] is what request r's callback has been given.          *)
(***************************************************************************)
EXTENDS Naturals, Sequences, FiniteSets

CONSTANTS
    Requests,      \* request ids, each used for one generate() call
    Modes,         \* batching modes the application configures
    BatchSize,     \* max_batch_size
    MaxTokens,     \* maximum_new_tokens
    Paths,         \* which of run_generation_{simulated,distributed,local} run
    MaxCancels,    \* bound: cancellations
    MaxReconfigs,  \* bound: set_batching_config calls after the first
    MaxReplans     \* bound: replan calls

ASSUME RequestsAssumption ==
    Requests \intersect {"none", "wild"} = {}

ASSUME ConfigAssumption ==
    /\ Modes \subseteq {"immediate", "serial", "adaptive"}
    /\ Paths \subseteq {"simulated", "distributed", "local"}
    /\ BatchSize \in Nat \ {0}
    /\ MaxTokens \in Nat

ASSUME LimitsAssumption ==
    /\ MaxCancels \in Nat
    /\ MaxReconfigs \in Nat
    /\ MaxReplans \in Nat

VARIABLES
    call,        \* how far generate() has come, per request
    handle,      \* the request whose state the returned handle addresses
    active,      \* ActiveRequest::active
    stopped,     \* the request's CancellationToken
    path,        \* which generation loop serves the request
    long,        \* requests whose context window exceeds long_context_threshold
    queue,       \* pending_queue_
    arrival,     \* a request's position in the order of push_back calls
    mode,        \* batching_config_.mode
    dispatcher,  \* where dispatcher_loop() is
    batch,       \* requests the dispatcher has taken from the queue
    current,     \* the one of them it is starting
    worker,      \* where the request's worker thread is
    table,       \* workers_
    position,    \* the worker's loop counter
    emitted,     \* tokens_emitted
    history,     \* size of token_history
    late,        \* tokens delivered while the request was inactive
    listening,   \* ActiveRequest::callback is set
    stream,      \* events delivered to the callback
    cancelling,  \* how far cancel() has come, per handle
    replan,      \* replan() in progress: its request, step and replay index
    life,        \* how far the destructor has come
    grabbed,     \* threads the destructor has taken from workers_
    reconfigs, replans, cancels

admission == <<call, handle, path, long, arrival>>
dispatching == <<queue, dispatcher, batch, current, mode>>
working == <<worker, table, position, emitted, history, late>>
ending == <<life, grabbed, listening>>
limits == <<reconfigs, replans, cancels>>

vars == <<admission, dispatching, working, ending, limits, active, stopped, stream,
          cancelling, replan>>

Terminal == {"completed", "failed"}
EventKinds == {"queued", "started", "token", "replanning"} \union Terminal
Events == [kind : EventKinds, seq : Nat]

Ended(r) == \E i \in DOMAIN stream[r] : stream[r][i].kind \in Terminal
Started(r) == \E i \in DOMAIN stream[r] : stream[r][i].kind = "started"

MutantFirst(requests) == CHOOSE r \in requests : \A q \in requests : arrival[q] <= arrival[r]
First(requests) == CHOOSE r \in requests : \A q \in requests : arrival[r] <= arrival[q]
Last(requests) == CHOOSE r \in requests : \A q \in requests : arrival[q] <= arrival[r]

NoReplan == [request |-> "none", step |-> "idle", next |-> 0]

Init ==
    /\ call = [r \in Requests |-> "idle"]
    /\ handle = [r \in Requests |-> "none"]
    /\ active = [r \in Requests |-> FALSE]
    /\ stopped = [r \in Requests |-> FALSE]
    /\ path \in [Requests -> Paths]
    /\ long \in SUBSET Requests
    /\ queue = {}
    /\ arrival = [r \in Requests |-> 0]
    /\ mode \in Modes
    /\ dispatcher = "waiting"
    /\ batch = {}
    /\ current = "none"
    /\ worker = [r \in Requests |-> "none"]
    /\ table = {}
    /\ position = [r \in Requests |-> 0]
    /\ emitted = [r \in Requests |-> 0]
    /\ history = [r \in Requests |-> 0]
    /\ late = [r \in Requests |-> 0]
    /\ listening = [r \in Requests |-> FALSE]
    /\ stream = [r \in Requests |-> <<>>]
    /\ cancelling = [r \in Requests |-> "none"]
    /\ replan = NoReplan
    /\ life = "up"
    /\ grabbed = {}
    /\ reconfigs = 0
    /\ replans = 0
    /\ cancels = 0

(***************************************************************************)
(* Invoking the request's callback under its callback_mutex; the           *)
(* destructor may have taken the callback away.                            *)
(***************************************************************************)
Emit(r, kind, seq) ==
    stream' = IF listening[r]
              THEN [stream EXCEPT ![r] = Append(@, [kind |-> kind, seq |-> seq])]
              ELSE stream

-------------------------------------------------------------------------------
(***************************************************************************)
(* generate()                                                              *)
(***************************************************************************)
CallStep(r, from, to) ==
    /\ call[r] = from
    /\ call' = [call EXCEPT ![r] = to]

(* Admission under mutex_; a request whose token is stopped is refused.    *)
Admit(r) ==
    /\ life = "up"
    /\ replan.step = "idle"
    /\ ~stopped[r]
    /\ CallStep(r, "idle", "admitted")
    /\ active' = [active EXCEPT ![r] = TRUE]
    /\ listening' = [listening EXCEPT ![r] = TRUE]
    /\ UNCHANGED <<handle, path, long, arrival, dispatching, working, life, grabbed, limits,
                   stopped, stream, cancelling, replan>>

(* The mode is read once, in a critical section of its own.                *)
ReadMode(r) ==
    /\ CallStep(r, "admitted", IF mode = "immediate" THEN "immediate" ELSE "queueing")
    /\ UNCHANGED <<handle, path, long, arrival, dispatching, working, ending, limits, active,
                   stopped, stream, cancelling, replan>>

AnnounceStarted(r) ==
    /\ CallStep(r, "immediate", "starting")
    /\ Emit(r, "started", 0)
    /\ UNCHANGED <<handle, path, long, arrival, dispatching, working, ending, limits, active,
                   stopped, cancelling, replan>>

(* launch_worker() called by generate(): the thread, then its table entry. *)
SpawnNow(r) ==
    /\ CallStep(r, "starting", "spawned")
    /\ worker' = [worker EXCEPT ![r] = "looping"]
    /\ UNCHANGED <<handle, path, long, arrival, dispatching, table, position, emitted, history,
                   late, ending, limits, active, stopped, stream, cancelling, replan>>

RecordNow(r) ==
    /\ CallStep(r, "spawned", "returned")
    /\ table' = table \union {r}
    /\ handle' = [handle EXCEPT ![r] = r]
    /\ UNCHANGED <<path, long, arrival, dispatching, worker, position, emitted, history, late,
                   ending, limits, active, stopped, stream, cancelling, replan>>

AnnounceQueued(r) ==
    /\ CallStep(r, "queueing", "announced")
    /\ Emit(r, "queued", 0)
    /\ UNCHANGED <<handle, path, long, arrival, dispatching, working, ending, limits, active,
                   stopped, cancelling, replan>>

Push(r) ==
    /\ CallStep(r, "announced", "pushed")
    /\ queue' = queue \union {r}
    /\ arrival' = [arrival EXCEPT ![r] =
                     1 + Cardinality({q \in Requests : arrival[q] # 0})]
    /\ UNCHANGED <<handle, path, long, dispatcher, batch, current, mode, working, ending, limits, active,
                   stopped, stream, cancelling, replan>>

(* The handle is made from pending_queue_.back(), looked up again after    *)
(* the lock was released: another request's entry if one was pushed        *)
(* meanwhile, and no entry at all ("wild") once the queue is empty.        *)
PointAtBack(r) ==
    /\ CallStep(r, "pushed", "pointed")
    /\ handle' = [handle EXCEPT ![r] = IF queue = {} THEN "wild" ELSE Last(queue)]
    /\ UNCHANGED <<path, long, arrival, dispatching, working, ending, limits, active, stopped,
                   stream, cancelling, replan>>

(* The entry is read without the lock: it may have left the queue.         *)
MakeHandle(r) ==
    /\ CallStep(r, "pointed", "returned")
    /\ handle' = [handle EXCEPT ![r] = IF @ \in queue THEN @ ELSE "wild"]
    /\ UNCHANGED <<path, long, arrival, dispatching, working, ending, limits, active, stopped,
                   stream, cancelling, replan>>

Generate(r) ==
    \/ ReadMode(r)
    \/ AnnounceStarted(r) \/ SpawnNow(r) \/ RecordNow(r)
    \/ AnnounceQueued(r) \/ Push(r) \/ PointAtBack(r) \/ MakeHandle(r)

(* set_batching_config()                                                   *)
Configure(m) ==
    /\ life = "up"
    /\ reconfigs < MaxReconfigs
    /\ mode' = m
    /\ reconfigs' = reconfigs + 1
    /\ UNCHANGED <<admission, queue, dispatcher, batch, current, working, ending, replans, cancels,
                   active, stopped, stream, cancelling, replan>>

-------------------------------------------------------------------------------
(***************************************************************************)
(* dispatcher_loop().  With mode "immediate" it only goes round: queued    *)
(* requests stay where they are.                                           *)
(***************************************************************************)
MutantTakeFront ==
    /\ dispatcher = "waiting"
    /\ life = "up"
    /\ queue # {}
    /\ mode = "serial" \/ (mode = "adaptive" /\ First(queue) \in long)
    /\ batch' = {First(queue)}
    /\ dispatcher' = "dispatching"
    /\ UNCHANGED <<admission, queue, current, mode, working, ending, limits, active,
                   stopped, stream, cancelling, replan>>

TakeFront ==
    /\ dispatcher = "waiting"
    /\ life = "up"
    /\ queue # {}
    /\ mode = "serial" \/ (mode = "adaptive" /\ First(queue) \in long)
    /\ batch' = {First(queue)}
    /\ queue' = queue \ batch'
    /\ dispatcher' = "dispatching"
    /\ UNCHANGED <<admission, current, mode, working, ending, limits, active, stopped,
                   stream, cancelling, replan>>

(* What the gathering loops take: from the front, up to the first long     *)
(* request, until the batch has room no more.  Inactive requests are taken *)
(* off the queue and dropped.                                              *)
Gathered(room) ==
    {r \in queue :
        /\ \A q \in queue : arrival[q] <= arrival[r] => q \notin long
        /\ Cardinality({q \in queue : active[q] /\ arrival[q] < arrival[r]}) < room}

GatherBatch ==
    /\ dispatcher = "waiting"
    /\ life = "up"
    /\ mode = "adaptive"
    /\ queue # {}
    /\ First(queue) \notin long
    /\ batch' = {r \in Gathered(BatchSize) : active[r]}
    /\ queue' = queue \ Gathered(BatchSize)
    /\ dispatcher' = IF batch' = {} THEN "waiting"
                     ELSE IF Cardinality(batch') < BatchSize THEN "filling"
                     ELSE "dispatching"
    /\ UNCHANGED <<admission, current, mode, working, ending, limits, active, stopped,
                   stream, cancelling, replan>>

MutantFillBatch ==
    /\ dispatcher = "filling"
    /\ queue # {}
    /\ LET more == Gathered(BatchSize - Cardinality(batch)) IN
       /\ batch' = batch \union {r \in more : active[r]}
       /\ queue' = queue \ more
    /\ dispatcher' = "dispatching"
    /\ UNCHANGED <<admission, current, mode, working, ending, limits, active, stopped,
                   stream, cancelling, replan>>

(* The second gathering loop, after wait_until gave the lock away until    *)
(* the deadline or the next short request.                                 *)
FillBatch ==
    /\ dispatcher = "filling"
    /\ LET more == Gathered(BatchSize - Cardinality(batch)) IN
       /\ batch' = batch \union {r \in more : active[r]}
       /\ queue' = queue \ more
    /\ dispatcher' = "dispatching"
    /\ UNCHANGED <<admission, current, mode, working, ending, limits, active, stopped,
                   stream, cancelling, replan>>

(* dispatch_solo(), dispatch_batch(): a request found inactive is dropped, *)
(* the others are announced and given a worker, one by one.                *)
After(rest) == IF rest = {} THEN "waiting" ELSE "dispatching"

DropInactive ==
    /\ dispatcher = "dispatching"
    /\ ~active[First(batch)]
    /\ batch' = batch \ {First(batch)}
    /\ dispatcher' = After(batch')
    /\ UNCHANGED <<admission, queue, current, mode, working, ending, limits, active,
                   stopped, stream, cancelling, replan>>

PickActive ==
    /\ dispatcher = "dispatching"
    /\ active[First(batch)]
    /\ current' = First(batch)
    /\ batch' = batch \ {First(batch)}
    /\ dispatcher' = "starting"
    /\ UNCHANGED <<admission, queue, mode, working, ending, limits, active, stopped,
                   stream, cancelling, replan>>

DispatchStarted ==
    /\ dispatcher = "starting"
    /\ Emit(current, "started", 0)
    /\ dispatcher' = "spawning"
    /\ UNCHANGED <<admission, queue, batch, current, mode, working, ending, limits, active,
                   stopped, cancelling, replan>>

DispatchSpawn ==
    /\ dispatcher = "spawning"
    /\ worker' = [worker EXCEPT ![current] = "looping"]
    /\ dispatcher' = "recording"
    /\ UNCHANGED <<admission, queue, batch, current, mode, table, position, emitted,
                   history, late, ending, limits, active, stopped, stream, cancelling,
                   replan>>

DispatchRecord ==
    /\ dispatcher = "recording"
    /\ table' = table \union {current}
    /\ current' = "none"
    /\ dispatcher' = After(batch)
    /\ UNCHANGED <<admission, queue, batch, mode, worker, position, emitted, history, late,
                   ending, limits, active, stopped, stream, cancelling, replan>>

DispatcherExit ==
    /\ dispatcher = "waiting"
    /\ life # "up"
    /\ dispatcher' = "exited"
    /\ UNCHANGED <<admission, queue, batch, current, mode, working, ending, limits, active,
                   stopped, stream, cancelling, replan>>

Dispatch ==
    \/ TakeFront \/ GatherBatch \/ FillBatch
    \/ DropInactive \/ PickActive
    \/ DispatchStarted \/ DispatchSpawn \/ DispatchRecord
    \/ DispatcherExit

-------------------------------------------------------------------------------
(***************************************************************************)
(* A worker thread: run_generation() and the lambda around it.             *)
(***************************************************************************)
WorkerStep(r, from, to) ==
    /\ worker[r] = from
    /\ worker' = [worker EXCEPT ![r] = to]

MutantMayContinue(r) == position[r] < MaxTokens

MayContinue(r) == position[r] < MaxTokens /\ active[r] /\ ~stopped[r]

(* The head of the loop passes: the token is computed and recorded.        *)
(* run_generation_local keeps no history.                                  *)
ComputeToken(r) ==
    /\ MayContinue(r)
    /\ WorkerStep(r, "looping", "emitting")
    /\ history' = IF path[r] = "local" THEN history ELSE [history EXCEPT ![r] = @ + 1]
    /\ UNCHANGED <<admission, dispatching, table, position, emitted, late, ending, limits,
                   active, stopped, stream, cancelling, replan>>

(* emit_token(), then tokens_emitted++ (not in run_generation_local).      *)
EmitToken(r) ==
    /\ WorkerStep(r, "emitting", "looping")
    /\ Emit(r, "token", position[r])
    /\ position' = [position EXCEPT ![r] = @ + 1]
    /\ emitted' = IF path[r] = "local" THEN emitted ELSE [emitted EXCEPT ![r] = @ + 1]
    /\ late' = IF active[r] THEN late ELSE [late EXCEPT ![r] = @ + 1]
    /\ UNCHANGED <<admission, dispatching, table, history, ending, limits, active, stopped,
                   cancelling, replan>>

(* run_generation_local: a token without text is not announced.            *)
SkipToken(r) ==
    /\ path[r] = "local"
    /\ WorkerStep(r, "emitting", "looping")
    /\ position' = [position EXCEPT ![r] = @ + 1]
    /\ UNCHANGED <<admission, dispatching, table, emitted, history, late, ending, limits,
                   active, stopped, stream, cancelling, replan>>

(* run_generation_distributed: a stage of the pass fails.                  *)
PassFails(r) ==
    /\ path[r] = "distributed"
    /\ MayContinue(r)
    /\ WorkerStep(r, "looping", "erring")
    /\ UNCHANGED <<admission, dispatching, table, position, emitted, history, late, ending,
                   limits, active, stopped, stream, cancelling, replan>>

(* A stage of the pass is another node's and the call is not answered: the *)
(* worker waits in the transport, where no cancellation reaches it, until  *)
(* the connection breaks and the pass fails (StageExecution).              *)
CallRemote(r) ==
    /\ path[r] = "distributed"
    /\ MayContinue(r)
    /\ WorkerStep(r, "looping", "calling")
    /\ UNCHANGED <<admission, dispatching, table, position, emitted, history, late, ending,
                   limits, active, stopped, stream, cancelling, replan>>

LoseCall(r) ==
    /\ WorkerStep(r, "calling", "erring")
    /\ UNCHANGED <<admission, dispatching, table, position, emitted, history, late, ending,
                   limits, active, stopped, stream, cancelling, replan>>

MutantReportError(r) ==
    /\ WorkerStep(r, "erring", "failing")
    /\ Emit(r, "failed", emitted[r])
    /\ active' = [active EXCEPT ![r] = FALSE]
    /\ UNCHANGED <<admission, dispatching, table, position, emitted, history, late, ending,
                   limits, stopped, cancelling, replan>>

ReportError(r) ==
    /\ WorkerStep(r, "erring", "leaving")
    /\ Emit(r, "failed", emitted[r])
    /\ active' = [active EXCEPT ![r] = FALSE]
    /\ UNCHANGED <<admission, dispatching, table, position, emitted, history, late, ending,
                   limits, stopped, cancelling, replan>>

(* run_generation_local: no model file, or no context, or a bad prompt.    *)
CannotLoad(r) ==
    /\ path[r] = "local"
    /\ position[r] = 0
    /\ WorkerStep(r, "looping", "failing")
    /\ UNCHANGED <<admission, dispatching, table, position, emitted, history, late, ending,
                   limits, active, stopped, stream, cancelling, replan>>

(* The loop is over; run_generation_local may also break out of it.        *)
LeaveLoop(r) ==
    /\ ~MayContinue(r) \/ path[r] = "local"
    /\ WorkerStep(r, "looping", "judging")
    /\ UNCHANGED <<admission, dispatching, table, position, emitted, history, late, ending,
                   limits, active, stopped, stream, cancelling, replan>>

(* emit_terminal(state, state->active): active is read once more.          *)
MutantJudge(r) ==
    /\ WorkerStep(r, "judging", IF active[r] THEN "completing" ELSE "leaving")
    /\ UNCHANGED <<admission, dispatching, table, position, emitted, history, late, ending,
                   limits, active, stopped, stream, cancelling, replan>>

Judge(r) ==
    /\ WorkerStep(r, "judging", IF active[r] THEN "completing" ELSE "failing")
    /\ UNCHANGED <<admission, dispatching, table, position, emitted, history, late, ending,
                   limits, active, stopped, stream, cancelling, replan>>

EmitCompleted(r) ==
    /\ WorkerStep(r, "completing", "leaving")
    /\ Emit(r, "completed", emitted[r])
    /\ UNCHANGED <<admission, dispatching, table, position, emitted, history, late, ending,
                   limits, active, stopped, cancelling, replan>>

MutantEmitFailed(r) ==
    /\ WorkerStep(r, "failing", "leaving")
    /\ Emit(r, "cancelled", emitted[r])
    /\ UNCHANGED <<admission, dispatching, table, position, emitted, history, late, ending,
                   limits, active, stopped, cancelling, replan>>

EmitFailed(r) ==
    /\ WorkerStep(r, "failing", "leaving")
    /\ Emit(r, "failed", emitted[r])
    /\ UNCHANGED <<admission, dispatching, table, position, emitted, history, late, ending,
                   limits, active, stopped, cancelling, replan>>

(* The end of the lambda: its table entry is removed if it is there.       *)
Deregister(r) ==
    /\ WorkerStep(r, "leaving", "gone")
    /\ table' = table \ {r}
    /\ UNCHANGED <<admission, dispatching, position, emitted, history, late, ending, limits,
                   active, stopped, stream, cancelling, replan>>

Work(r) ==
    \/ ComputeToken(r) \/ EmitToken(r) \/ SkipToken(r)
    \/ PassFails(r) \/ ReportError(r) \/ CannotLoad(r)
    \/ LeaveLoop(r) \/ Judge(r) \/ EmitCompleted(r) \/ EmitFailed(r)
    \/ Deregister(r)

-------------------------------------------------------------------------------
(***************************************************************************)
(* Cancellation.  A handle stops the token, then clears active; a queued   *)
(* request's handle then asks the pipeline, under its queue lock, to       *)
(* remove the request.                                                     *)
(***************************************************************************)
Cancel(r) ==
    /\ cancels < MaxCancels
    /\ call[r] = "returned"
    /\ handle[r] \in Requests
    /\ cancelling[r] = "none"
    /\ stopped' = [stopped EXCEPT ![handle[r]] = TRUE]
    /\ cancelling' = [cancelling EXCEPT ![r] = "stopped"]
    /\ cancels' = cancels + 1
    /\ UNCHANGED <<admission, dispatching, working, ending, reconfigs, replans, active,
                   stream, replan>>

ClearActive(r) ==
    /\ cancelling[r] = "stopped"
    /\ active' = [active EXCEPT ![handle[r]] = FALSE]
    /\ cancelling' = [cancelling EXCEPT ![r] = IF arrival[r] = 0 THEN "done" ELSE "removing"]
    /\ UNCHANGED <<admission, dispatching, working, ending, limits, stopped, stream, replan>>

(* Erasing from the deque may move other entries: a generate() call that   *)
(* holds a pointer to one may be left with a stale pointer.                *)
DisturbPointers ==
    \/ UNCHANGED handle
    \/ handle' = [q \in Requests |-> IF call[q] = "pointed" THEN "wild" ELSE handle[q]]

MutantRemoveQueued(r) ==
    /\ cancelling[r] = "removing"
    /\ cancelling' = [cancelling EXCEPT ![r] = "done"]
    /\ Emit(handle[r], "failed", 0)
    /\ queue' = queue \ {handle[r]}
    /\ DisturbPointers
    /\ UNCHANGED <<call, path, long, arrival, dispatcher, batch, current, mode, working, ending, limits,
                   active, stopped, replan>>

(* remove_queued(): the terminal event is sent holding the queue lock.     *)
(* The handle keeps a bare pointer to the pipeline, and socrates_stop()    *)
(* keeps the handles: a cancel() after the destructor goes through a       *)
(* pointer that dangles.  It finds the emptied queue, which is this step,  *)
(* or ends the process, which is a behaviour that stops short of it.       *)
RemoveQueued(r) ==
    /\ cancelling[r] = "removing"
    /\ cancelling' = [cancelling EXCEPT ![r] = "done"]
    /\ IF handle[r] \in queue
       THEN /\ Emit(handle[r], "failed", 0)
            /\ queue' = queue \ {handle[r]}
            /\ DisturbPointers
       ELSE UNCHANGED <<stream, queue, handle>>
    /\ UNCHANGED <<call, path, long, arrival, dispatcher, batch, current, mode, working, ending,
                   limits, active, stopped, replan>>

(* The application stops the token it passed in, without the handle.       *)
StopToken(r) ==
    /\ cancels < MaxCancels
    /\ ~stopped[r]
    /\ stopped' = [stopped EXCEPT ![r] = TRUE]
    /\ cancels' = cancels + 1
    /\ UNCHANGED <<admission, dispatching, working, ending, reconfigs, replans, active,
                   stream, cancelling, replan>>

-------------------------------------------------------------------------------
(***************************************************************************)
(* replan(), with a replacement of a newer term.  It holds mutex_          *)
(* throughout, which no worker takes.                                      *)
(***************************************************************************)
ReplanStep(from, to) ==
    /\ replan.step = from
    /\ replan' = [replan EXCEPT !.step = to]

ReplanBegin(r) ==
    /\ replans < MaxReplans
    /\ life = "up"
    /\ replan.step = "idle"
    /\ call[r] # "idle"
    /\ replan' = [request |-> r, step |-> "announcing", next |-> 0]
    /\ replans' = replans + 1
    /\ active' = [active EXCEPT ![r] = FALSE]
    /\ UNCHANGED <<admission, dispatching, working, ending, reconfigs, cancels, stopped,
                   stream, cancelling>>

ReplanAnnounce ==
    /\ ReplanStep("announcing", "resuming")
    /\ Emit(replan.request, "replanning", emitted[replan.request])
    /\ UNCHANGED <<admission, dispatching, working, ending, limits, active, stopped,
                   cancelling>>

ReplanResume ==
    /\ ReplanStep("resuming", "replaying")
    /\ active' = [active EXCEPT ![replan.request] = TRUE]
    /\ UNCHANGED <<admission, dispatching, working, ending, limits, stopped, stream,
                   cancelling>>

ReplanReplay ==
    /\ replan.step = "replaying"
    /\ replan.next < history[replan.request]
    /\ active[replan.request]
    /\ Emit(replan.request, "token", replan.next)
    /\ replan' = [replan EXCEPT !.next = @ + 1]
    /\ UNCHANGED <<admission, dispatching, working, ending, limits, active, stopped,
                   cancelling>>

ReplanComplete ==
    /\ replan.step = "replaying"
    /\ replan.next >= history[replan.request] \/ ~active[replan.request]
    /\ Emit(replan.request, "completed", emitted[replan.request])
    /\ replan' = NoReplan
    /\ UNCHANGED <<admission, dispatching, working, ending, limits, active, stopped,
                   cancelling>>

Replan ==
    \/ \E r \in Requests : ReplanBegin(r)
    \/ ReplanAnnounce \/ ReplanResume \/ ReplanReplay \/ ReplanComplete

-------------------------------------------------------------------------------
(***************************************************************************)
(* The destructor.  The runtime lets no generate() or replan() overlap it  *)
(* (EdgeRuntimeImpl::generate holds the runtime lock and checks the state, *)
(* do_stop leaves kReady under the same lock first); handles outlive it.   *)
(***************************************************************************)
Destruct ==
    /\ life = "up"
    /\ \A r \in Requests : call[r] \in {"idle", "returned"}
    /\ replan.step = "idle"
    /\ life' = "stopping"
    /\ UNCHANGED <<admission, dispatching, working, grabbed, listening, limits, active,
                   stopped, stream, cancelling, replan>>

(* With the dispatcher joined: callbacks cleared, requests deactivated and *)
(* the queue emptied, under mutex_ and queue_mutex_.                       *)
DetachCallbacks ==
    /\ life = "stopping"
    /\ dispatcher = "exited"
    /\ life' = "detached"
    /\ listening' = [r \in Requests |-> FALSE]
    /\ active' = [r \in Requests |-> FALSE]
    /\ queue' = {}
    /\ UNCHANGED <<admission, dispatcher, batch, current, mode, working, grabbed, limits, stopped,
                   stream, cancelling, replan>>

GrabWorkers ==
    /\ life = "detached"
    /\ life' = "joining"
    /\ grabbed' = table
    /\ table' = {}
    /\ UNCHANGED <<admission, dispatching, worker, position, emitted, history, late,
                   listening, limits, active, stopped, stream, cancelling, replan>>

MutantJoinWorkers ==
    /\ life = "joining"
    /\ life' = "destroyed"
    /\ UNCHANGED <<admission, dispatching, working, grabbed, listening, limits, active,
                   stopped, stream, cancelling, replan>>

JoinWorkers ==
    /\ life = "joining"
    /\ \A r \in grabbed : worker[r] = "gone"
    /\ life' = "destroyed"
    /\ UNCHANGED <<admission, dispatching, working, grabbed, listening, limits, active,
                   stopped, stream, cancelling, replan>>

-------------------------------------------------------------------------------
(***************************************************************************)
(* What the runtime does with the pipeline: everything but replan(), which *)
(* only the tests call.                                                    *)
(***************************************************************************)
RuntimeNext ==
    \/ \E r \in Requests : Admit(r) \/ Generate(r) \/ Work(r)
    \/ \E r \in Requests : CallRemote(r) \/ LoseCall(r)
    \/ \E r \in Requests : Cancel(r) \/ ClearActive(r) \/ RemoveQueued(r) \/ StopToken(r)
    \/ \E m \in Modes : Configure(m)
    \/ Dispatch
    \/ Destruct \/ DetachCallbacks \/ GrabWorkers \/ JoinWorkers

RuntimeSpec == Init /\ [][RuntimeNext]_vars

Spec == Init /\ [][RuntimeNext \/ Replan]_vars

(***************************************************************************)
(* Threads run: a call, the dispatcher, each worker, a cancel() and a      *)
(* destructor in progress take their next step.  Nothing makes the         *)
(* application call, and no answer is owed by other nodes.                 *)
(***************************************************************************)
Fairness ==
    /\ \A r \in Requests : WF_vars(Generate(r)) /\ WF_vars(Work(r))
    /\ \A r \in Requests : WF_vars(ClearActive(r) \/ RemoveQueued(r))
    /\ WF_vars(Dispatch)
    /\ WF_vars(DetachCallbacks \/ GrabWorkers \/ JoinWorkers)

FairRuntimeSpec == RuntimeSpec /\ Fairness

-------------------------------------------------------------------------------

CallStates == {"idle", "admitted", "immediate", "starting", "spawned", "queueing",
               "announced", "pushed", "pointed", "returned"}
DispatcherStates == {"waiting", "filling", "dispatching", "starting", "spawning",
                     "recording", "exited"}
WorkerStates == {"none", "looping", "calling", "emitting", "erring", "judging", "completing",
                 "failing", "leaving", "gone"}

(***************************************************************************)
(* Every field has the type the code gives it.                             *)
(***************************************************************************)
TypeOK ==
    /\ call \in [Requests -> CallStates]
    /\ handle \in [Requests -> Requests \union {"none", "wild"}]
    /\ active \in [Requests -> BOOLEAN]
    /\ stopped \in [Requests -> BOOLEAN]
    /\ path \in [Requests -> Paths]
    /\ long \subseteq Requests
    /\ queue \subseteq Requests
    /\ arrival \in [Requests -> Nat]
    /\ mode \in Modes
    /\ dispatcher \in DispatcherStates
    /\ batch \subseteq Requests
    /\ current \in Requests \union {"none"}
    /\ worker \in [Requests -> WorkerStates]
    /\ table \subseteq Requests
    /\ position \in [Requests -> Nat]
    /\ emitted \in [Requests -> Nat]
    /\ history \in [Requests -> Nat]
    /\ late \in [Requests -> Nat]
    /\ listening \in [Requests -> BOOLEAN]
    /\ stream \in [Requests -> Seq(Events)]
    /\ cancelling \in [Requests -> {"none", "stopped", "removing", "done"}]
    /\ replan \in [request : Requests \union {"none"},
                   step : {"idle", "announcing", "resuming", "replaying"},
                   next : Nat]
    /\ life \in {"up", "stopping", "detached", "joining", "destroyed"}
    /\ grabbed \subseteq Requests
    /\ reconfigs \in Nat /\ replans \in Nat /\ cancels \in Nat

(***************************************************************************)
(* inference_pipeline.h:112: a stream ends "in exactly one completed/failed*)
(* terminal event".  A terminal event is the last one of its stream.       *)
(***************************************************************************)
TerminalIsLast ==
    \A r \in Requests : \A i \in DOMAIN stream[r] :
        stream[r][i].kind \in Terminal => i = Len(stream[r])

Promise == INSTANCE RequestStream WITH Numbers <- 0..MaxTokens

(***************************************************************************)
(* Without replan(), every callback sees the order of events that          *)
(* RequestStream describes: one start, tokens with rising numbers, one end *)
(* and nothing after it.  Across the kinds the numbers do not rise as      *)
(* inference_pipeline.h:111 says they do: the queued, the started and the  *)
(* first token event all carry 0, and the terminal event carries the count *)
(* of tokens_emitted, which run_generation_local() leaves at 0.            *)
(***************************************************************************)
IsRequestStream == Promise!Spec

(***************************************************************************)
(* Once a request is inactive at most the token already computed is still  *)
(* delivered: cancel() admits no new token work (inference_pipeline.cpp,   *)
(* the head of the generation loops).                                      *)
(***************************************************************************)
CancelBoundsTokens ==
    \A r \in Requests : late[r] <= 1

Holders(r) ==
    {h \in {"generate", "queue", "dispatcher", "worker"} :
        \/ h = "generate" /\ call[r] \in {"admitted", "immediate", "starting", "queueing",
                                         "announced"}
        \/ h = "queue" /\ r \in queue
        \/ h = "dispatcher" /\ (r \in batch \/ (r = current /\ worker[r] = "none"))
        \/ h = "worker" /\ worker[r] \notin {"none", "leaving", "gone"}}

(***************************************************************************)
(* An admitted request that nobody stopped is never lost between the       *)
(* threads: until its stream ends it is in the hands of exactly one of     *)
(* generate(), the queue, the dispatcher or its worker.                    *)
(***************************************************************************)
HeldByOne ==
    \A r \in Requests :
        /\ Cardinality(Holders(r)) <= 1
        /\ active[r] /\ ~Ended(r) => Holders(r) # {}

(***************************************************************************)
(* Queued requests start in the order in which they were queued, whatever  *)
(* the modes and batches; one that was cancelled may be passed over.       *)
(***************************************************************************)
StartInOrder ==
    \A p, q \in Requests :
        (arrival[p] # 0 /\ arrival[p] < arrival[q] /\ Started(q))
            => Started(p) \/ ~active[p]

(***************************************************************************)
(* When the destructor returns no worker thread is left that could touch   *)
(* the pipeline (inference_pipeline.cpp, ~InferencePipelineImpl and the    *)
(* end of the worker lambda).                                              *)
(***************************************************************************)
NoWorkerSurvives ==
    life = "destroyed" => \A r \in Requests : worker[r] \in {"none", "gone"}

(***************************************************************************)
(* inference_pipeline.h:111: a stream is "ending in exactly one            *)
(* completed/failed terminal event".  A request that nobody stops ends,    *)
(* whatever the mode, unless it hangs in a remote call or the pipeline is  *)
(* destroyed first.                                                        *)
(***************************************************************************)
UnstoppedRequestsEnd ==
    \A r \in Requests :
        call[r] = "admitted" ~>
            (Ended(r) \/ stopped[r] \/ worker[r] = "calling" \/ life # "up")

(***************************************************************************)
(* inference_pipeline.h:94: after cancel() "exactly one terminal event is  *)
(* eventually delivered unless callback ownership has ended during         *)
(* shutdown".  This holds of every request that was announced as started,  *)
(* whenever it is cancelled, but for one that hangs in a remote call; one  *)
(* cancelled between the queue and its start is dropped without an event   *)
(* (dispatch_solo(), dispatch_batch()).                                    *)
(***************************************************************************)
StartedRequestsEnd ==
    \A r \in Requests :
        Started(r) ~> (Ended(r) \/ worker[r] = "calling" \/ life # "up")
===============================================================================
