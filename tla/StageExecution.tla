---------------------------- MODULE StageExecution ----------------------------
(***************************************************************************)
(* The data plane under run_generation_distributed                         *)
(* (src/pipeline/inference_pipeline.cpp): workers run the stages of their  *)
(* plans, one pass per token.  A local stage runs in a session that is     *)
(* loaded once, under sessions_mutex_, from a shard leased from the model  *)
(* manager (src/model/model_manager.cpp) by a registered backend           *)
(* (src/inference).  A remote stage is a unary call of the transport       *)
(* (src/transport/grpc_transport.cpp), which holds the transport's mutex_  *)
(* until it returns.                                                       *)
(*                                                                         *)
(* No node registers a handler for "RunLayers".  Without OpenSSL a call    *)
(* is answered at once, with an empty payload the tensor codec rejects;    *)
(* with it, encode_frame sends no checksum while both ends wait for one,   *)
(* so a call that connects ends only when the connection does.             *)
(***************************************************************************)
EXTENDS Naturals, Sequences

CONSTANTS
    Workers,      \* generations under way, a worker thread each
    Plans,        \* the stage sequences of the plans they may be given
    Registered,   \* backends build_backend_fallback_chain registered
    Artifacts,    \* shards whose file exists below model_root
    Builds,       \* transports: "loopback" or "tls"
    MaxTokens,    \* maximum_new_tokens
    Nobody        \* a mutex is free

ASSUME StageAssumption ==
    /\ MaxTokens \in Nat
    /\ Nobody \notin Workers
    /\ \A p \in Plans : Len(p) \in Nat \ {0} /\ DOMAIN p = 1..Len(p)

VARIABLES
    plan,         \* ActiveRequest::plan.stages
    pc,           \* where the worker is
    at,           \* the stage it executes
    tokens,       \* tokens_emitted
    stopped,      \* "no", "inactive": active cleared, "token": cancelled
    sessionsLock, \* holder of sessions_mutex_
    loads,        \* loaded_sessions_, in the order of the loads
    leases,       \* active_leases_, which outlives the ShardLease it is made for
    failed,       \* history: the shards of which a load has failed
    wireLock,     \* holder of the transport's mutex_
    build

local == <<plan, build>>
locks == <<sessionsLock, wireLock>>
vars ==
    <<plan, pc, at, tokens, stopped, sessionsLock, loads, leases, failed, wireLock, build>>

Init ==
    /\ plan \in [Workers -> Plans]
    /\ build \in Builds
    /\ pc = [w \in Workers |-> "loop"]
    /\ at = [w \in Workers |-> 1]
    /\ tokens = [w \in Workers |-> 0]
    /\ stopped = [w \in Workers |-> "no"]
    /\ sessionsLock = Nobody
    /\ loads = <<>>
    /\ leases = {}
    /\ failed = {}
    /\ wireLock = Nobody

Stage(w) == plan[w][at[w]]

Step(w, from, to) == pc[w] = from /\ pc' = [pc EXCEPT ![w] = to]

(***************************************************************************)
(* cancel() sets the token and clears active; the destructor of the        *)
(* pipeline only clears active.  From any thread.                          *)
(***************************************************************************)
Cancel(w) ==
    /\ stopped[w] # "token"
    /\ \E how \in {"inactive", "token"} : stopped' = [stopped EXCEPT ![w] = how]
    /\ UNCHANGED <<local, pc, at, tokens, locks, loads, leases, failed>>

(***************************************************************************)
(* The generation loop: another pass, or the terminal event.               *)
(***************************************************************************)
MayPass(w) == tokens[w] < MaxTokens /\ stopped[w] = "no"

BeginPass(w) ==
    /\ MayPass(w)
    /\ Step(w, "loop", "stage")
    /\ at' = [at EXCEPT ![w] = 1]
    /\ UNCHANGED <<local, tokens, stopped, locks, loads, leases, failed>>

LeaveLoop(w) ==
    /\ ~MayPass(w)
    /\ Step(w, "loop", "ended")
    /\ UNCHANGED <<local, at, tokens, stopped, locks, loads, leases, failed>>

(***************************************************************************)
(* execute_pipeline_pass at a stage: stop, run it here, or call its node.  *)
(***************************************************************************)
StopMidPass(w) ==
    /\ stopped[w] # "no"
    /\ Step(w, "stage", "ended")
    /\ UNCHANGED <<local, at, tokens, stopped, locks, loads, leases, failed>>

GoLocal(w) ==
    /\ stopped[w] = "no"
    /\ Stage(w).local
    /\ Step(w, "stage", "find")
    /\ UNCHANGED <<local, at, tokens, stopped, locks, loads, leases, failed>>

MutantGoRemote(w) ==
    /\ stopped[w] = "no"
    /\ ~Stage(w).local
    /\ sessionsLock = Nobody
    /\ sessionsLock' = w
    /\ Step(w, "stage", "call")
    /\ UNCHANGED <<local, at, tokens, stopped, wireLock, loads, leases, failed>>

GoRemote(w) ==
    /\ stopped[w] = "no"
    /\ ~Stage(w).local
    /\ Step(w, "stage", "call")
    /\ UNCHANGED <<local, at, tokens, stopped, locks, loads, leases, failed>>

(***************************************************************************)
(* ensure_session_loaded.  The cache is looked up by stage id and backend. *)
(***************************************************************************)
Cached(stage) ==
    \E i \in DOMAIN loads : loads[i].id = stage.id /\ loads[i].backend = stage.backend

FindLoaded(w) ==
    /\ sessionsLock = Nobody
    /\ Cached(Stage(w))
    /\ Step(w, "find", "run")
    /\ UNCHANGED <<local, at, tokens, stopped, locks, loads, leases, failed>>

MutantFindMissing(w) ==
    /\ ~Cached(Stage(w))
    /\ IF Stage(w).backend \in Registered
       THEN Step(w, "find", "acquire") /\ sessionsLock' = w
       ELSE Step(w, "find", "ended") /\ UNCHANGED sessionsLock
    /\ UNCHANGED <<local, at, tokens, stopped, wireLock, loads, leases, failed>>

FindMissing(w) ==
    /\ sessionsLock = Nobody
    /\ ~Cached(Stage(w))
    /\ IF Stage(w).backend \in Registered
       THEN Step(w, "find", "acquire") /\ sessionsLock' = w
       ELSE Step(w, "find", "ended") /\ UNCHANGED sessionsLock
    /\ UNCHANGED <<local, at, tokens, stopped, wireLock, loads, leases, failed>>

Unlock == sessionsLock' = Nobody

(***************************************************************************)
(* ModelManagerImpl::acquire: refused when the token is set, when the      *)
(* shard is leased already or its file is missing.  The ShardLease lives   *)
(* until ensure_session_loaded returns; its entry in active_leases_, which *)
(* is what the next acquire() looks at, is never taken out.                *)
(***************************************************************************)
Grants(w) ==
    /\ stopped[w] # "token"
    /\ Stage(w).shard \notin leases
    /\ Stage(w).shard \in Artifacts

MutantAcquire(w) ==
    /\ Grants(w)
    /\ Step(w, "acquire", "load")
    /\ UNCHANGED <<local, at, tokens, stopped, locks, loads, leases, failed>>

Acquire(w) ==
    /\ Grants(w)
    /\ Step(w, "acquire", "load")
    /\ leases' = leases \union {Stage(w).shard}
    /\ UNCHANGED <<local, at, tokens, stopped, locks, loads, failed>>

RefuseLease(w) ==
    /\ ~Grants(w)
    /\ Step(w, "acquire", "ended")
    /\ Unlock
    /\ UNCHANGED <<local, at, tokens, stopped, wireLock, loads, leases, failed>>

(***************************************************************************)
(* load_model of the backend: cancelled, failed, or a session that is kept *)
(* in loaded_sessions_.                                                    *)
(***************************************************************************)
LoadModel(w) ==
    /\ stopped[w] # "token"
    /\ Step(w, "load", "run")
    /\ loads' = Append(loads, Stage(w))
    /\ Unlock
    /\ UNCHANGED <<local, at, tokens, stopped, wireLock, leases, failed>>

LoadFails(w) ==
    /\ Step(w, "load", "ended")
    /\ failed' = failed \union {Stage(w).shard}
    /\ Unlock
    /\ UNCHANGED <<local, at, tokens, stopped, wireLock, loads, leases>>

(***************************************************************************)
(* run_layers outside any lock.  The result of the last stage is a token.  *)
(***************************************************************************)
RunLayers(w) ==
    /\ stopped[w] # "token"
    /\ IF at[w] < Len(plan[w])
       THEN /\ Step(w, "run", "stage")
            /\ at' = [at EXCEPT ![w] = @ + 1]
            /\ UNCHANGED tokens
       ELSE /\ Step(w, "run", "loop")
            /\ tokens' = [tokens EXCEPT ![w] = @ + 1]
            /\ UNCHANGED at
    /\ UNCHANGED <<local, stopped, locks, loads, leases, failed>>

RunFails(w) ==
    /\ Step(w, "run", "ended")
    /\ UNCHANGED <<local, at, tokens, stopped, locks, loads, leases, failed>>

(***************************************************************************)
(* execute_remote_stage and send_unary: past its deadline, not connected,  *)
(* or answered by the loopback with an undecodable payload, the call fails *)
(* at once; over TLS it may also connect, send, and wait.                  *)
(***************************************************************************)
CallFails(w) ==
    /\ wireLock = Nobody
    /\ Step(w, "call", "ended")
    /\ UNCHANGED <<local, at, tokens, stopped, locks, loads, leases, failed>>

MutantCallWaits(w) ==
    /\ build = "tls"
    /\ Step(w, "call", "await")
    /\ wireLock' = w
    /\ UNCHANGED <<local, at, tokens, stopped, sessionsLock, loads, leases, failed>>

CallWaits(w) ==
    /\ build = "tls"
    /\ wireLock = Nobody
    /\ wireLock' = w
    /\ Step(w, "call", "await")
    /\ UNCHANGED <<local, at, tokens, stopped, sessionsLock, loads, leases, failed>>

ConnectionLost(w) ==
    /\ Step(w, "await", "ended")
    /\ wireLock' = Nobody
    /\ UNCHANGED <<local, at, tokens, stopped, sessionsLock, loads, leases, failed>>

LocalWork(w) ==
    \/ BeginPass(w)
    \/ LeaveLoop(w)
    \/ StopMidPass(w)
    \/ GoLocal(w)
    \/ GoRemote(w)
    \/ FindLoaded(w)
    \/ FindMissing(w)
    \/ Acquire(w)
    \/ RefuseLease(w)
    \/ LoadModel(w)
    \/ LoadFails(w)
    \/ RunLayers(w)
    \/ RunFails(w)

Next ==
    \E w \in Workers :
        \/ Cancel(w)
        \/ LocalWork(w)
        \/ CallFails(w)
        \/ CallWaits(w)
        \/ ConnectionLost(w)

(***************************************************************************)
(* Worker threads are scheduled; nothing is assumed of the network or of   *)
(* remote nodes.                                                           *)
(***************************************************************************)
Fairness == \A w \in Workers : WF_vars(LocalWork(w))

Spec == Init /\ [][Next]_vars /\ Fairness

PcStates == {"loop", "stage", "find", "acquire", "load", "run", "call", "await", "ended"}

(***************************************************************************)
(* The types, and who is where when a mutex is held: sessions_mutex_ by    *)
(* the one worker that acquires or loads, the transport's by the one that  *)
(* waits for an answer.                                                    *)
(***************************************************************************)
TypeOK ==
    /\ pc \in [Workers -> PcStates]
    /\ at \in [Workers -> Nat \ {0}]
    /\ tokens \in [Workers -> 0..MaxTokens]
    /\ stopped \in [Workers -> {"no", "inactive", "token"}]
    /\ failed \subseteq leases
    /\ leases \subseteq Artifacts
    /\ \A w \in Workers : (sessionsLock = w) = (pc[w] \in {"acquire", "load"})
    /\ \A w \in Workers : (wireLock = w) = (pc[w] = "await")

(***************************************************************************)
(* Every loaded session has a lease of its own on its shard, and no shard  *)
(* is loaded into two sessions.                                            *)
(***************************************************************************)
SessionsOwnShards ==
    /\ \A i \in DOMAIN loads : loads[i].shard \in leases
    /\ \A i, j \in DOMAIN loads : loads[i].shard = loads[j].shard => i = j

Key(session) == <<session.id, session.backend>>

(***************************************************************************)
(* A worker that missed the cache finds its shard leased only if a load of *)
(* that shard failed before, or if the shard is loaded for another stage   *)
(* or backend: never because another worker is loading the same session at *)
(* that moment.                                                            *)
(***************************************************************************)
LeaseTakenForCause ==
    \A w \in Workers :
        pc[w] = "acquire" /\ Stage(w).shard \in leases =>
            \/ Stage(w).shard \in failed
            \/ \E i \in DOMAIN loads :
                   /\ loads[i].shard = Stage(w).shard
                   /\ Key(loads[i]) # Key(Stage(w))

AllLocal(w) == \A i \in DOMAIN plan[w] : plan[w][i].local

(***************************************************************************)
(* A request whose stages are all local ends, or is done, even while       *)
(* another request waits for ever in a remote call: no lock of the local   *)
(* path is held across the network.                                        *)
(***************************************************************************)
LocalRequestsEnd == \A w \in Workers : AllLocal(w) ~> pc[w] = "ended"
===============================================================================
