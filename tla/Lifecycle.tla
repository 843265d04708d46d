------------------------------ MODULE Lifecycle -------------------------------
(***************************************************************************)
(* EdgeRuntimeImpl::start() and do_stop() (src/runtime/edge_runtime.cpp)   *)
(* around the parts that own threads: membership with its liveness thread  *)
(* (src/cluster/membership_service.cpp), discovery and the transport's     *)
(* listener.  Membership exists before discovery is started and is         *)
(* destroyed before discovery is stopped.                                  *)
(***************************************************************************)
EXTENDS Discovery, Listener

CONSTANT MaxStarts   \* bound: calls of start()

ASSUME StartsAssumption == MaxStarts \in Nat

VARIABLES
    runtime,          \* where the runtime is in start() and do_stop()
    liveness_active,  \* of the membership service
    liveness_worker,  \* its thread: "none", "running", "exited"
    starts

liveness == <<liveness_active, liveness_worker>>

vars == <<discovery_vars, membership, listener_vars, runtime, liveness, starts>>

(* The type invariant.                                                     *)
TypeOK ==
    /\ DiscoveryTypeOK
    /\ ListenerTypeOK
    /\ runtime \in {"stopped", "discovering", "stranded", "ready", "leaving",
                    "closing_transport", "closing_membership", "closing_discovery", "crashed"}
    /\ liveness_active \in BOOLEAN
    /\ liveness_worker \in {"none", "running", "exited"}
    /\ starts \in 0..MaxStarts

Init ==
    /\ DiscoveryInit
    /\ ListenerInit
    /\ membership = FALSE
    /\ runtime = "stopped"
    /\ liveness_active = FALSE
    /\ liveness_worker = "none"
    /\ starts = 0

Move(from, to) ==
    /\ runtime = from
    /\ runtime' = to
    /\ UNCHANGED starts

(***************************************************************************)
(* start(): membership first, whose constructor starts the liveness        *)
(* thread, then a new coordinator; the rest of start() up to the transport *)
(* has no thread of its own.                                               *)
(***************************************************************************)
BeginStart ==
    /\ runtime = "stopped"
    /\ starts < MaxStarts
    /\ starts' = starts + 1
    /\ runtime' = "discovering"
    /\ membership' = TRUE
    /\ liveness_active' = TRUE
    /\ liveness_worker' = "running"
    /\ BeginDiscovery
    /\ UNCHANGED listener_vars

Discover ==
    /\ runtime = "discovering"
    /\ StartAdapters
    /\ UNCHANGED <<listener_vars, runtime, liveness, starts, membership>>

(* The error is returned with membership in place and state_ kStarting:    *)
(* nothing is undone, and only stop() or leave() leads on.                 *)
StartFails ==
    /\ coordinator = "failed"
    /\ Move("discovering", "stranded")
    /\ UNCHANGED <<discovery_vars, membership, listener_vars, liveness>>

FinishStart ==
    /\ coordinator = "started"
    /\ Move("discovering", "ready")
    /\ StartTransport
    /\ UNCHANGED <<discovery_vars, membership, liveness>>

-------------------------------------------------------------------------------
(***************************************************************************)
(* do_stop(): heartbeat and pipeline (Cluster and Pipeline), the           *)
(* transport, membership, and discovery last.                              *)
(***************************************************************************)
BeginStop ==
    /\ Move("ready", "closing_transport") \/ Move("stranded", "closing_transport")
    /\ UNCHANGED <<discovery_vars, membership, listener_vars, liveness>>

(* leave() stops membership before all else and keeps the service: from    *)
(* here on observe() throws, which the callback catches.                   *)
BeginLeave ==
    /\ Move("ready", "leaving") \/ Move("stranded", "leaving")
    /\ liveness_active' = FALSE
    /\ UNCHANGED <<discovery_vars, membership, listener_vars, liveness_worker>>

(* The join at the end of MembershipServiceImpl::stop().                   *)
JoinLiveness ==
    /\ liveness_worker \in {"none", "exited"}
    /\ liveness_worker' = "none"
    /\ UNCHANGED liveness_active

Leave ==
    /\ Move("leaving", "closing_transport")
    /\ JoinLiveness
    /\ UNCHANGED <<discovery_vars, membership, listener_vars>>

StopTransport ==
    /\ runtime = "closing_transport"
    /\ ShutTransport(platform \in {"linux", "android"}) \/ JoinTransport
    /\ UNCHANGED <<discovery_vars, membership, runtime, liveness, starts>>

StopMembership ==
    /\ transport = "absent"
    /\ Move("closing_transport", "closing_membership")
    /\ liveness_active' = FALSE
    /\ UNCHANGED <<discovery_vars, membership, listener_vars, liveness_worker>>

ResetMembership ==
    /\ Move("closing_membership", "closing_discovery")
    /\ JoinLiveness
    /\ membership' = FALSE
    /\ BeginStopDiscovery
    /\ UNCHANGED listener_vars

StopDiscovery ==
    /\ runtime = "closing_discovery"
    /\ StopAdapters
    /\ UNCHANGED <<listener_vars, runtime, liveness, starts, membership>>

FinishStop ==
    /\ coordinator = "stopped"
    /\ Move("closing_discovery", "stopped")
    /\ UNCHANGED <<discovery_vars, membership, listener_vars, liveness>>

-------------------------------------------------------------------------------
(* The rest of the process and of the network.                             *)
Aside(A) ==
    /\ runtime # "crashed"
    /\ A
    /\ UNCHANGED <<listener_vars, runtime, liveness, starts, membership>>

Accepting ==
    /\ runtime # "crashed"
    /\ Acceptor
    /\ UNCHANGED <<discovery_vars, membership, runtime, liveness, starts>>

Connecting ==
    /\ runtime # "crashed"
    /\ PeerConnects \/ HandshakeEnds
    /\ UNCHANGED <<discovery_vars, membership, runtime, liveness, starts>>

(* liveness_loop() ends at a test of its flag (its sweep is Membership's). *)
LivenessLoop ==
    /\ runtime # "crashed"
    /\ liveness_worker = "running" /\ ~liveness_active
    /\ liveness_worker' = "exited"
    /\ UNCHANGED <<discovery_vars, membership, listener_vars, runtime, liveness_active, starts>>

(* A callback that found membership_ set uses it after do_stop() has       *)
(* destroyed the service: it may go on as if nothing had happened, or end  *)
(* the process.                                                            *)
CallbackDangles ==
    /\ "observing" \in {receiver, browser}
    /\ ~membership
    /\ Move("closing_discovery", "crashed")
    /\ UNCHANGED <<discovery_vars, membership, listener_vars, liveness>>

(* The calls of the application's thread that is inside start() or stop(). *)
Control ==
    \/ Discover \/ StartFails \/ FinishStart
    \/ Leave \/ StopTransport \/ StopMembership \/ ResetMembership \/ StopDiscovery
    \/ FinishStop

Next ==
    \/ BeginStart \/ BeginStop \/ BeginLeave \/ Control
    \/ Aside(Sender) \/ Aside(Receiver) \/ Aside(Browser) \/ Aside(BrowserFinds)
    \/ Aside(PeerAnnounces)
    \/ Accepting \/ Connecting \/ LivenessLoop \/ CallbackDangles

Spec == Init /\ [][Next]_vars

(* A thread of this process that can run does.  Nothing is asked of other  *)
(* nodes: none need ever announce itself, connect, or answer a handshake.  *)
FairSpec ==
    /\ Spec
    /\ WF_vars(Control)
    /\ WF_vars(Aside(Sender)) /\ WF_vars(Aside(Receiver)) /\ WF_vars(Aside(Browser))
    /\ WF_vars(Accepting) /\ WF_vars(LivenessLoop)

-------------------------------------------------------------------------------
(* Once stop() has returned nothing of the runtime is left: no adapter     *)
(* thread, no accept or liveness thread, no open socket, so that no        *)
(* callback can begin ("waits until no future callback can begin",         *)
(* discovery_service.h) and the next start() begins afresh.                *)
StoppedIsQuiet ==
    runtime = "stopped" =>
        /\ DiscoveryQuiet
        /\ ListenerQuiet
        /\ liveness_worker = "none"
        /\ adapters = <<>> /\ ~running
        /\ ~membership /\ transport = "absent"

(* What a start() that failed in discovery leaves behind, until stop() is  *)
(* called: the membership service with its liveness thread, which nothing  *)
(* in start() undoes, and no thread or socket of discovery or the          *)
(* listener, because the only method that can fail is the first one tried. *)
FailedStartLeavesMembership ==
    runtime = "stranded" =>
        /\ DiscoveryQuiet /\ ListenerQuiet
        /\ adapters = <<>> /\ transport = "absent"
        /\ membership /\ liveness_active /\ liveness_worker = "running"

(* Where stop() waits for another node: in the join of a receiver that     *)
(* close() did not wake, of an accept() that shutdown() did not wake, or   *)
(* of a handshake whose peer says nothing.                                 *)
WaitsForPeer ==
    \/ stage = "join_recv" /\ receiver = "blocked" /\ ~CloseWakesReceiver
    \/ /\ transport = "joining" /\ acceptor = "blocked" /\ listening = "open"
       /\ platform \in {"macos", "windows"}
    \/ transport = "joining" /\ acceptor = "handshaking"

(* start(), stop() and leave() return, unless a dangling callback ends the *)
(* process or the call waits from some point on for ever for another node: *)
(* every other thread that is waited for comes to its test of the running  *)
(* flag, and no two of them wait for each other.                           *)
StopReturns ==
    runtime \notin {"stopped", "stranded", "ready"}
        ~> (runtime \in {"stopped", "stranded", "ready", "crashed"} \/ []WaitsForPeer)

=============================================================================
