---------------------------- MODULE LifecycleProofs ----------------------------
(***************************************************************************)
(* Proofs about Lifecycle, for any set of platforms and builds, any number *)
(* of starts and any size of the socket's queue.                           *)
(***************************************************************************)
EXTENDS Lifecycle, TLAPS

(* Zenon proves every leaf that cites no other prover; SMT is cited where  *)
(* arithmetic, records or function updates take part.                      *)
USE ZenonT(20)

(* An adapter the coordinator has and, when stopping, has not stopped yet. *)
InService(method) ==
    \E i \in 1..Len(adapters) :
        adapters[i] = method /\ (coordinator = "stopping" => next <= i)

(***************************************************************************)
(* What an adapter holds, it holds only while it is in service.            *)
(***************************************************************************)
HeldInService ==
    /\ browser # "none" => InService("mdns")
    /\ sender # "none" \/ receiver # "none" \/ send_sock # "invalid" \/ recv_sock # "invalid"
           => InService("udp")
    /\ ble_running => InService("ble")

(* The steps of UdpBroadcastDiscovery::stop() and what each leaves behind. *)
UdpStopOrder ==
    /\ stage # "idle" => Stopping("udp")
    /\ stage \in {"close_recv", "join_send", "join_recv"} => send_sock = "invalid"
    /\ stage \in {"join_send", "join_recv"} => recv_sock = "invalid"
    /\ stage = "join_recv" => sender = "none"

(* The coordinator: what is started has been appended, and nothing comes   *)
(* before mDNS.                                                            *)
CoordinatorInv ==
    /\ adapters \in Seq({"mdns", "udp", "ble"})
    /\ next \in Nat \ {0}
    /\ coordinator = "starting" /\ next <= 1 => adapters = <<>>
    /\ coordinator = "failed" => adapters = <<>>
    /\ coordinator = "stopped" => adapters = <<>>
    /\ coordinator \in {"stopping", "stopped"} => ~running

(* Where the runtime is, and what it then has.                             *)
PhaseInv ==
    /\ runtime = "stopped" => coordinator = "stopped"
    /\ runtime = "discovering" => coordinator \in {"starting", "started", "failed"}
    /\ runtime = "stranded" => coordinator = "failed"
    /\ runtime \in {"stopped", "discovering", "stranded", "closing_membership",
                    "closing_discovery"} => transport = "absent"
    /\ runtime \in {"stopped", "closing_discovery"} => ~membership /\ liveness_worker = "none"
    /\ runtime \in {"discovering", "stranded"} =>
           membership /\ liveness_active /\ liveness_worker = "running"
    /\ transport = "absent" => ListenerQuiet

QuietInv ==
    /\ CoordinatorInv
    /\ HeldInService
    /\ UdpStopOrder
    /\ PhaseInv

-------------------------------------------------------------------------------
LEMMA NoAdaptersIsQuiet ==
    ASSUME CoordinatorInv, HeldInService, adapters = <<>>
    PROVE  DiscoveryQuiet
<1>1. \A method : ~InService(method)
  BY SMT DEF InService
<1> QED
  BY <1>1 DEF HeldInService, DiscoveryQuiet

LEMMA QuietImplies ==
    ASSUME QuietInv
    PROVE  StoppedIsQuiet /\ FailedStartLeavesMembership
  BY NoAdaptersIsQuiet
     DEF QuietInv, PhaseInv, CoordinatorInv, StoppedIsQuiet, FailedStartLeavesMembership

LEMMA QuietInitially ==
    ASSUME Init
    PROVE  QuietInv
  BY SMT DEF Init, DiscoveryInit, ListenerInit, QuietInv, CoordinatorInv, HeldInService,
         UdpStopOrder, PhaseInv, ListenerQuiet

-------------------------------------------------------------------------------
(***************************************************************************)
(* Starting an adapter keeps those in service and adds one.                *)
(***************************************************************************)
LEMMA KeepServes ==
    ASSUME CoordinatorInv, coordinator = "starting", NEW m \in {"mdns", "udp", "ble"}, Keep(m)
    PROVE  /\ CoordinatorInv'
           /\ InService(m)'
           /\ \A k \in {"mdns", "udp", "ble"} : InService(k) => InService(k)'
<1> USE DEF CoordinatorInv, Keep
<1>1. /\ adapters' \in Seq({"mdns", "udp", "ble"})
      /\ Len(adapters') = Len(adapters) + 1
      /\ \A i \in 1..Len(adapters) : adapters'[i] = adapters[i]
      /\ adapters'[Len(adapters) + 1] = m
      /\ Len(adapters) \in Nat
  BY SMT
<1>2. CoordinatorInv'
  <2>1. next' \in Nat \ {0} /\ next' > 1
    BY SMT
  <2> QED
    BY <1>1, <2>1, SMT
<1>3. coordinator' = "starting"
  OBVIOUS
<1>4. InService(m)'
  BY <1>1, <1>3, SMT DEF InService
<1>5. ASSUME NEW k \in {"mdns", "udp", "ble"}, InService(k)
      PROVE  InService(k)'
  <2>1. PICK i \in 1..Len(adapters) : adapters[i] = k
    BY <1>5 DEF InService
  <2>2. i \in 1..Len(adapters') /\ adapters'[i] = k
    BY <1>1, <2>1, SMT
  <2> QED
    BY <1>3, <2>2 DEF InService
<1> QED
  BY <1>2, <1>4, <1>5

(***************************************************************************)
(* Stopping one adapter leaves the other methods in service.               *)
(***************************************************************************)
LEMMA StoppedOneServes ==
    ASSUME CoordinatorInv, NEW m \in {"mdns", "udp", "ble"}, Stopping(m), StoppedOne
    PROVE  /\ CoordinatorInv'
           /\ \A k \in {"mdns", "udp", "ble"} \ {m} : InService(k) => InService(k)'
<1> USE DEF CoordinatorInv, Stopping, StoppedOne
<1>1. CoordinatorInv'
  BY SMT
<1>2. ASSUME NEW k \in {"mdns", "udp", "ble"} \ {m}, InService(k)
      PROVE  InService(k)'
  <2>1. PICK i \in 1..Len(adapters) : adapters[i] = k /\ next <= i
    BY <1>2 DEF InService
  <2>2. i # next
    BY <2>1
  <2>3. next' <= i
    BY <2>1, <2>2, SMT
  <2> QED
    BY <2>1, <2>3 DEF InService
<1> QED
  BY <1>1, <1>2

LEMMA DiscoverStep ==
    ASSUME QuietInv, Discover
    PROVE  QuietInv'
<1> USE DEF QuietInv, config, udp, mdns, coordination, listener_vars, liveness
<1>a. UNCHANGED <<listener_vars, runtime, liveness, membership>> /\ runtime = "discovering"
  BY DEF Discover
<1>b. ListenerQuiet' = ListenerQuiet
  BY <1>a DEF ListenerQuiet
<1>1. ASSUME NEW m \in {"mdns", "udp", "ble"}, Starting(m), Keep(m),
             stage' = stage,
             browser' = browser \/ m = "mdns",
             m = "udp" \/ UNCHANGED <<sender, receiver, send_sock, recv_sock>>,
             ble_running' = ble_running \/ m = "ble"
      PROVE  QuietInv'
  <2>1. coordinator = "starting" /\ coordinator' = "starting"
    BY <1>1 DEF Starting, Keep
  <2>2. /\ CoordinatorInv'
        /\ InService(m)'
        /\ \A k \in {"mdns", "udp", "ble"} : InService(k) => InService(k)'
    BY <1>1, <2>1, KeepServes
  <2>3. HeldInService'
    BY <1>1, <2>2, SMT DEF HeldInService
  <2>4. stage = "idle"
    BY <2>1 DEF UdpStopOrder, Stopping
  <2>5. UdpStopOrder'
    BY <1>1, <2>4 DEF UdpStopOrder
  <2>6. PhaseInv'
    BY <1>a, <1>b, <2>1 DEF PhaseInv
  <2> QED
    BY <2>2, <2>3, <2>5, <2>6
<1>2. CASE SkipMdns \/ MdnsThrows \/ AllStarted
  <2> USE <1>2 DEF SkipMdns, MdnsThrows, AllStarted, Starting
  <2>1. /\ coordinator = "starting"
        /\ coordinator' \in {"starting", "started", "failed"}
        /\ adapters' = adapters
        /\ UNCHANGED <<browser, sender, receiver, send_sock, recv_sock, stage, ble_running>>
    OBVIOUS
  <2>2. \A k : InService(k)' = InService(k)
    BY <2>1 DEF InService
  <2>3. MdnsThrows => adapters = <<>>
    <3>1. MdnsThrows => next <= 1 \/ next > 3 \/ FallbackOrder[next] # "mdns"
      BY SMT DEF FallbackOrder, CoordinatorInv
    <3> QED
      BY <3>1, SMT DEF CoordinatorInv, FallbackOrder
  <2>4. CoordinatorInv'
    BY <2>1, <2>3, SMT DEF CoordinatorInv
  <2>5. HeldInService'
    BY <2>1, <2>2 DEF HeldInService
  <2>6. UdpStopOrder'
    BY <2>1 DEF UdpStopOrder, Stopping
  <2>7. PhaseInv'
    BY <1>a, <1>b, <2>1 DEF PhaseInv
  <2> QED
    BY <2>4, <2>5, <2>6, <2>7
<1>3. CASE StartMdns \/ StartMdnsWithoutBonjour
  BY <1>1, <1>3 DEF StartMdns, StartMdnsWithoutBonjour
<1>4. CASE StartUdp
  BY <1>1, <1>4 DEF StartUdp
<1>5. CASE StartBle
  BY <1>1, <1>5 DEF StartBle
<1> QED
  BY <1>2, <1>3, <1>4, <1>5 DEF Discover, StartAdapters

-------------------------------------------------------------------------------
LEMMA StopDiscoveryStep ==
    ASSUME QuietInv, StopDiscovery
    PROVE  QuietInv'
<1> USE DEF QuietInv, config, udp, mdns, coordination, listener_vars, liveness
<1>a. UNCHANGED <<listener_vars, runtime, liveness, membership>> /\ runtime = "closing_discovery"
  BY DEF StopDiscovery
<1>b. PhaseInv'
  BY <1>a DEF PhaseInv, ListenerQuiet
<1>1. ASSUME NEW m \in {"mdns", "udp", "ble"}, Stopping(m), StoppedOne,
             stage' = "idle",
             IF m = "mdns" THEN browser' = "none" ELSE browser' = browser,
             IF m = "udp" THEN /\ sender' = "none" /\ receiver' = "none"
                               /\ send_sock' = "invalid" /\ recv_sock' = "invalid"
                          ELSE UNCHANGED <<sender, receiver, send_sock, recv_sock>>,
             IF m = "ble" THEN ~ble_running' ELSE ble_running' = ble_running
      PROVE  QuietInv'
  <2>1. /\ CoordinatorInv'
        /\ \A k \in {"mdns", "udp", "ble"} \ {m} : InService(k) => InService(k)'
    BY <1>1, StoppedOneServes
  <2>2. HeldInService'
    BY <1>1, <2>1 DEF HeldInService
  <2>3. UdpStopOrder'
    BY <1>1 DEF UdpStopOrder
  <2> QED
    BY <1>b, <2>1, <2>2, <2>3
<1>2. ASSUME UNCHANGED coordination,
             sender' # "none" => sender # "none",
             receiver' # "none" => receiver # "none",
             browser' # "none" => browser # "none",
             send_sock' # "invalid" => send_sock # "invalid",
             recv_sock' # "invalid" => recv_sock # "invalid",
             ble_running' = ble_running,
             UdpStopOrder'
      PROVE  QuietInv'
  <2>1. \A k : InService(k)' = InService(k)
    BY <1>2 DEF InService
  <2>2. HeldInService' /\ CoordinatorInv'
    BY <1>2, <2>1 DEF HeldInService, CoordinatorInv
  <2> QED
    BY <1>b, <1>2, <2>2
<1>3. CASE StopMdns
  <2>1. Stopping("mdns") /\ UNCHANGED <<stage, sender, receiver, send_sock, recv_sock, ble_running>>
    BY <1>3 DEF StopMdns
  <2>2. stage = "idle"
    BY <2>1 DEF UdpStopOrder, Stopping
  <2>3. CASE mdns_running
    <3>1. UNCHANGED <<coordination, browser>>
      BY <1>3, <2>3 DEF StopMdns
    <3>2. UdpStopOrder'
      BY <2>1, <2>2 DEF UdpStopOrder
    <3> QED
      BY <1>2, <2>1, <3>1, <3>2
  <2>4. CASE ~mdns_running
    <3>1. StoppedOne /\ browser' = "none"
      BY <1>3, <2>4 DEF StopMdns
    <3> QED
      BY <1>1, <2>1, <2>2, <3>1
  <2> QED
    BY <2>3, <2>4
<1>4. CASE StopUdp
  <2>1. UdpStopOrder'
    BY <1>4 DEF StopUdp, UdpStopOrder, Stopping
  <2> QED
    BY <1>2, <1>4, <2>1 DEF StopUdp
<1>5. CASE CloseSend
  <2>1. UdpStopOrder'
    BY <1>5 DEF CloseSend, UdpStopOrder, Stopping
  <2> QED
    BY <1>2, <1>5, <2>1 DEF CloseSend
<1>6. CASE CloseRecv
  <2>1. UdpStopOrder'
    BY <1>6 DEF CloseRecv, UdpStopOrder, Stopping
  <2> QED
    BY <1>2, <1>6, <2>1 DEF CloseRecv
<1>7. CASE JoinSend
  <2>1. UdpStopOrder'
    BY <1>7 DEF JoinSend, UdpStopOrder, Stopping
  <2> QED
    BY <1>2, <1>7, <2>1 DEF JoinSend
<1>8. CASE JoinRecv
  <2>1. /\ Stopping("udp") /\ StoppedOne /\ stage' = "idle"
        /\ sender' = "none" /\ receiver' = "none"
        /\ send_sock' = "invalid" /\ recv_sock' = "invalid"
        /\ UNCHANGED <<browser, ble_running>>
    BY <1>8 DEF JoinRecv, UdpStopOrder
  <2> QED
    BY <1>1, <2>1
<1>9. CASE StopBle
  <2>1. /\ Stopping("ble") /\ StoppedOne /\ ~ble_running'
        /\ UNCHANGED <<stage, browser, sender, receiver, send_sock, recv_sock>>
    BY <1>9 DEF StopBle
  <2>2. stage = "idle"
    BY <2>1 DEF UdpStopOrder, Stopping
  <2> QED
    BY <1>1, <2>1, <2>2
<1>10. CASE AllStopped
  <2>1. \A k : ~InService(k)
    BY <1>10, SMT DEF AllStopped, InService, CoordinatorInv
  <2>2. /\ browser' = "none" /\ sender' = "none" /\ receiver' = "none"
        /\ send_sock' = "invalid" /\ recv_sock' = "invalid" /\ ~ble_running'
    BY <1>10, <2>1 DEF AllStopped, HeldInService
  <2>3. stage' = "idle"
    BY <1>10, SMT DEF AllStopped, UdpStopOrder, Stopping, CoordinatorInv
  <2>4. CoordinatorInv'
    BY <1>10, SMT DEF AllStopped, CoordinatorInv
  <2> QED
    BY <1>b, <2>2, <2>3, <2>4 DEF HeldInService, UdpStopOrder
<1> QED
  BY <1>3, <1>4, <1>5, <1>6, <1>7, <1>8, <1>9, <1>10 DEF StopDiscovery, StopAdapters

-------------------------------------------------------------------------------
(***************************************************************************)
(* A thread that runs was there before; nothing else of what QuietInv      *)
(* relates changes.                                                        *)
(***************************************************************************)
LEMMA ThreadStep ==
    ASSUME QuietInv,
           Aside(Sender) \/ Aside(Receiver) \/ Aside(Browser) \/ Aside(BrowserFinds)
               \/ Aside(PeerAnnounces)
    PROVE  QuietInv'
<1> USE DEF QuietInv, config, udp, mdns, coordination, listener_vars, liveness, Aside
<1>1. /\ UNCHANGED <<coordination, stage, send_sock, recv_sock, ble_running>>
      /\ UNCHANGED <<listener_vars, runtime, liveness, membership>>
      /\ sender' # "none" => sender # "none"
      /\ sender = "none" => sender' = "none"
      /\ receiver' # "none" => receiver # "none"
      /\ browser' # "none" => browser # "none"
  <2>1. CASE Aside(Sender)
    BY <2>1 DEF Sender
  <2>2. CASE Aside(Receiver)
    BY <2>2 DEF Receiver, Receive, ReceiverStep
  <2>3. CASE Aside(Browser) \/ Aside(BrowserFinds)
    BY <2>3 DEF Browser, BrowserFinds, dns_sd_browse_reply, avahi_browse_callback, BrowserStep
  <2>4. CASE Aside(PeerAnnounces)
    BY <2>4 DEF PeerAnnounces
  <2> QED
    BY <2>1, <2>2, <2>3, <2>4
<1>2. \A k : InService(k)' = InService(k)
  BY <1>1 DEF InService
<1>3. HeldInService' /\ CoordinatorInv'
  BY <1>1, <1>2 DEF HeldInService, CoordinatorInv
<1>4. UdpStopOrder'
  BY <1>1 DEF UdpStopOrder, Stopping
<1>5. PhaseInv'
  BY <1>1 DEF PhaseInv, ListenerQuiet
<1> QED
  BY <1>3, <1>4, <1>5

(***************************************************************************)
(* The steps that leave the adapters alone.                                *)
(***************************************************************************)
LEMMA RuntimeStep ==
    ASSUME QuietInv,
           UNCHANGED discovery_vars, PhaseInv'
    PROVE  QuietInv'
<1> USE DEF QuietInv, discovery_vars, config, udp, mdns, coordination
<1>1. \A k : InService(k)' = InService(k)
  BY DEF InService
<1> QED
  BY <1>1 DEF HeldInService, CoordinatorInv, UdpStopOrder, Stopping

LEMMA QuietStep ==
    ASSUME QuietInv, [Next]_vars
    PROVE  QuietInv'
<1>a. PhaseInv
  BY DEF QuietInv
<1> USE DEF discovery_vars, config, udp, mdns, coordination, listener_vars, liveness, Move,
            ListenerQuiet, JoinLiveness
<1>1. CASE UNCHANGED vars
  <2>1. PhaseInv'
    BY <1>1, <1>a DEF vars, PhaseInv
  <2> QED
    BY <1>1, <2>1, RuntimeStep DEF vars
<1>2. CASE BeginStart
  <2>1. /\ coordinator = "stopped" /\ adapters = <<>> /\ adapters' = <<>>
        /\ coordinator' = "starting" /\ next' = 1
        /\ UNCHANGED <<udp, mdns, ble_running, listener_vars>>
    BY <1>2 DEF BeginStart, BeginDiscovery, QuietInv, CoordinatorInv
  <2>2. DiscoveryQuiet
    BY <2>1, NoAdaptersIsQuiet DEF QuietInv
  <2>3. stage = "idle"
    BY <2>1 DEF QuietInv, UdpStopOrder, Stopping
  <2>4. CoordinatorInv' /\ HeldInService' /\ UdpStopOrder'
    BY <2>1, <2>2, <2>3, SMT DEF CoordinatorInv, HeldInService, UdpStopOrder, DiscoveryQuiet
  <2>5. PhaseInv'
    BY <1>2, <1>a, <2>1 DEF BeginStart, PhaseInv
  <2> QED
    BY <2>4, <2>5 DEF QuietInv
<1>3. CASE Discover
  BY <1>3, DiscoverStep
<1>4. CASE StopDiscovery
  BY <1>4, StopDiscoveryStep
<1>5. CASE ResetMembership
  <2>1. /\ coordinator' = "stopping" /\ next' = 1 /\ ~running' /\ adapters' = adapters
        /\ coordinator \in {"started", "failed"}
        /\ UNCHANGED <<udp, mdns, ble_running, listener_vars>>
    BY <1>5 DEF ResetMembership, BeginStopDiscovery
  <2>2. \A k : InService(k) => InService(k)'
    BY <2>1, SMT DEF InService
  <2>3. stage = "idle"
    BY <2>1 DEF QuietInv, UdpStopOrder, Stopping
  <2>4. CoordinatorInv' /\ UdpStopOrder'
    BY <2>1, <2>3, SMT DEF QuietInv, CoordinatorInv, UdpStopOrder
  <2>5. HeldInService'
    BY <2>1, <2>2 DEF QuietInv, HeldInService
  <2>6. PhaseInv'
    BY <1>5, <1>a, <2>1 DEF ResetMembership, PhaseInv
  <2> QED
    BY <2>4, <2>5, <2>6 DEF QuietInv
<1>6. CASE StartFails \/ FinishStart \/ FinishStop \/ BeginStop \/ CallbackDangles
  <2>1. PhaseInv'
    BY <1>6, <1>a, SMT DEF StartFails, FinishStart, StartTransport, FinishStop, BeginStop,
                        CallbackDangles, PhaseInv
  <2> QED
    BY <1>6, <2>1, RuntimeStep
       DEF StartFails, FinishStart, FinishStop, BeginStop, CallbackDangles
<1>10. CASE BeginLeave \/ Leave \/ StopMembership \/ LivenessLoop
  <2>1. PhaseInv'
    BY <1>10, <1>a DEF BeginLeave, Leave, StopMembership, LivenessLoop, PhaseInv
  <2> QED
    BY <1>10, <2>1, RuntimeStep DEF BeginLeave, Leave, StopMembership, LivenessLoop
<1>7. CASE StopTransport
  <2>1. PhaseInv'
    BY <1>7, <1>a DEF StopTransport, ShutTransport, JoinTransport, PhaseInv
  <2> QED
    BY <1>7, <2>1, RuntimeStep DEF StopTransport
<1>8. CASE Accepting \/ Connecting
  <2>1. PhaseInv'
    BY <1>8, <1>a DEF Accepting, Connecting, Acceptor, PeerConnects, HandshakeEnds, PhaseInv
  <2> QED
    BY <1>8, <2>1, RuntimeStep DEF Accepting, Connecting
<1>9. CASE Aside(Sender) \/ Aside(Receiver) \/ Aside(Browser) \/ Aside(BrowserFinds)
               \/ Aside(PeerAnnounces)
  BY <1>9, ThreadStep
<1> QED
  BY <1>1, <1>2, <1>3, <1>4, <1>5, <1>6, <1>7, <1>8, <1>9, <1>10 DEF Next, Control

LEMMA AlwaysQuietInv == Spec => []QuietInv
<1>1. Init => QuietInv
  BY QuietInitially
<1>2. QuietInv /\ [Next]_vars => QuietInv'
  BY QuietStep
<1> QED
  BY <1>1, <1>2, PTL DEF Spec

(* However often the runtime is started and stopped, and wherever its      *)
(* threads are when it is, a stopped runtime has no thread, no socket and  *)
(* no adapter left.                                                        *)
THEOREM StopQuiesces == Spec => []StoppedIsQuiet
<1>1. QuietInv => StoppedIsQuiet
  BY QuietImplies
<1> QED
  BY <1>1, AlwaysQuietInv, PTL

(* Until stop() is called, a start() that failed in discovery has left the *)
(* membership service and its liveness thread running, and neither a       *)
(* thread nor a socket of discovery or of the listener.                    *)
THEOREM FailedStartLeavesItsMembership == Spec => []FailedStartLeavesMembership
<1>1. QuietInv => FailedStartLeavesMembership
  BY QuietImplies
<1> QED
  BY <1>1, AlwaysQuietInv, PTL

-------------------------------------------------------------------------------
(***************************************************************************)
(* The types.  The loop index stays in the list of methods, or of the      *)
(* adapters, because an adapter that is kept takes the index with it.      *)
(***************************************************************************)
IndexInv ==
    /\ next \in 1..4
    /\ adapters \in Seq({"mdns", "udp", "ble"})
    /\ Len(adapters) <= 3
    /\ coordinator = "starting" => Len(adapters) < next

Counts ==
    /\ inbox \in 0..MaxInbox
    /\ callers \in 0..1
    /\ starts \in 0..MaxStarts

ControlPlaces ==
    /\ platform \in Platforms
    /\ skip_mdns \in BOOLEAN
    /\ coordinator \in {"stopped", "starting", "started", "failed", "stopping"}
    /\ running \in BOOLEAN
    /\ membership \in BOOLEAN
    /\ runtime \in {"stopped", "discovering", "stranded", "ready", "leaving",
                    "closing_transport", "closing_membership", "closing_discovery", "crashed"}
    /\ liveness_active \in BOOLEAN
    /\ liveness_worker \in {"none", "running", "exited"}

UdpPlaces ==
    /\ stage \in {"idle", "close_send", "close_recv", "join_send", "join_recv"}
    /\ udp_running \in BOOLEAN
    /\ send_sock \in {"open", "invalid"}
    /\ recv_sock \in {"open", "invalid"}
    /\ sender \in {"none", "checking", "announcing", "sleeping", "exited"}
    /\ receiver \in {"none", "checking", "reading", "blocked", "exited"} \union Callers

OtherAdapterPlaces ==
    /\ browser \in {"none", "polling", "exited"} \union Callers
    /\ mdns_running \in BOOLEAN
    /\ ble_running \in BOOLEAN

ListenerPlaces ==
    /\ build \in Builds
    /\ transport \in {"absent", "running", "joining"}
    /\ listening \in {"closed", "open", "shut"}
    /\ accepting \in BOOLEAN
    /\ acceptor \in {"none", "checking", "blocked", "handshaking", "exited"}

Places == ControlPlaces /\ UdpPlaces /\ OtherAdapterPlaces /\ ListenerPlaces

TypeInv == IndexInv /\ Counts /\ Places

(* The loops of the coordinator's start() and stop().                      *)
LEMMA IndexStarts ==
    ASSUME IndexInv, StartAdapters
    PROVE  IndexInv'
<1>1. PICK n \in Nat, k \in Nat : n = next /\ k = Len(adapters) /\ n >= 1 /\ k <= 3 /\ n <= 4
  BY SMT DEF IndexInv
<1>2. coordinator = "starting" /\ k < n
  BY <1>1 DEF IndexInv, StartAdapters, SkipMdns, StartMdns, StartMdnsWithoutBonjour, MdnsThrows,
              StartUdp, StartBle, AllStarted, Starting
<1>3. Len(FallbackOrder) <= 3
  BY SMT DEF FallbackOrder
<1>4. ASSUME NEW m \in {"mdns", "udp", "ble"}, Starting(m), Keep(m)
      PROVE  IndexInv'
  <2>1. n <= 3
    BY <1>1, <1>3, <1>4, SMT DEF Starting, FallbackOrder
  <2>2. /\ adapters' \in Seq({"mdns", "udp", "ble"}) /\ Len(adapters') = k + 1
        /\ next' = n + 1
    BY <1>1, <1>4, SMT DEF Keep, IndexInv
  <2> QED
    BY <1>1, <1>2, <2>1, <2>2, SMT DEF IndexInv
<1>5. CASE SkipMdns
  <2>1. n <= 3
    BY <1>1, <1>3, <1>5, SMT DEF SkipMdns, Starting, FallbackOrder
  <2>2. adapters' = adapters /\ next' = n + 1
    BY <1>1, <1>5 DEF SkipMdns
  <2> QED
    BY <1>1, <1>2, <2>1, <2>2, SMT DEF IndexInv
<1>6. CASE MdnsThrows \/ AllStarted
  <2>1. UNCHANGED <<adapters, next>> /\ coordinator' # "starting"
    BY <1>6 DEF MdnsThrows, AllStarted
  <2> QED
    BY <2>1 DEF IndexInv
<1> QED
  BY <1>4, <1>5, <1>6 DEF StartAdapters, StartMdns, StartMdnsWithoutBonjour, StartUdp, StartBle

LEMMA IndexStops ==
    ASSUME QuietInv, IndexInv, StopAdapters
    PROVE  IndexInv'
<1>1. PICK n \in Nat, k \in Nat : n = next /\ k = Len(adapters) /\ n >= 1 /\ k <= 3 /\ n <= 4
  BY SMT DEF IndexInv
<1>2. ASSUME NEW m, Stopping(m), StoppedOne
      PROVE  IndexInv'
  <2>1. n <= k /\ coordinator' = "stopping" /\ adapters' = adapters /\ next' = n + 1
    BY <1>1, <1>2 DEF Stopping, StoppedOne
  <2> QED
    BY <1>1, <2>1, SMT DEF IndexInv
<1>3. CASE UNCHANGED coordination
  BY <1>3 DEF IndexInv, coordination
<1>4. CASE AllStopped
  <2>1. adapters' = <<>> /\ next' = next /\ coordinator' = "stopped"
    BY <1>4 DEF AllStopped
  <2> QED
    BY <2>1, SMT DEF IndexInv
<1>5. CASE JoinRecv
  <2>1. Stopping("udp")
    BY <1>5 DEF JoinRecv, QuietInv, UdpStopOrder
  <2> QED
    BY <1>2, <1>5, <2>1 DEF JoinRecv
<1>6. CASE StopMdns \/ StopBle
  BY <1>2, <1>3, <1>6 DEF StopMdns, StopBle, coordination
<1>7. CASE StopUdp \/ CloseSend \/ CloseRecv \/ JoinSend
  BY <1>3, <1>7 DEF StopUdp, CloseSend, CloseRecv, JoinSend
<1> QED
  BY <1>4, <1>5, <1>6, <1>7 DEF StopAdapters

LEMMA IndexStep ==
    ASSUME QuietInv, IndexInv, [Next]_vars
    PROVE  IndexInv'
<1>1. CASE Discover \/ StopDiscovery
  BY <1>1, IndexStarts, IndexStops DEF Discover, StopDiscovery
<1>2. CASE BeginStart
  <2>1. adapters' = <<>> /\ next' = 1
    BY <1>2 DEF BeginStart, BeginDiscovery
  <2> QED
    BY <2>1, SMT DEF IndexInv
<1>3. CASE ResetMembership
  <2>1. adapters' = adapters /\ next' = 1 /\ coordinator' = "stopping"
    BY <1>3 DEF ResetMembership, BeginStopDiscovery
  <2> QED
    BY <2>1, SMT DEF IndexInv
<1>4. CASE UNCHANGED coordination
  BY <1>4 DEF IndexInv, coordination
<1>5. CASE \/ StartFails \/ FinishStart \/ FinishStop \/ BeginStop \/ CallbackDangles
           \/ BeginLeave \/ Leave \/ StopMembership \/ LivenessLoop
           \/ StopTransport \/ Accepting \/ Connecting \/ UNCHANGED vars
  BY <1>4, <1>5 DEF StartFails, FinishStart, FinishStop, BeginStop, CallbackDangles,
                    BeginLeave, Leave, StopMembership, LivenessLoop,
                    StopTransport, Accepting, Connecting, vars, discovery_vars
<1>6. CASE Aside(Sender) \/ Aside(Receiver) \/ Aside(Browser) \/ Aside(BrowserFinds)
               \/ Aside(PeerAnnounces)
  BY <1>4, <1>6 DEF Aside, Sender, Receiver, Receive, ReceiverStep, Browser, BrowserFinds,
                    dns_sd_browse_reply, avahi_browse_callback, BrowserStep, PeerAnnounces
<1> QED
  BY <1>1, <1>2, <1>3, <1>5, <1>6 DEF Next, Control

(* The socket's queue, the accept queue and the number of starts.          *)
LEMMA CountsStep ==
    ASSUME Counts, [Next]_vars
    PROVE  Counts'
<1> USE DEF Counts
<1>1. PICK i \in Nat, j \in Nat, b \in Nat, c \in Nat :
         i = inbox /\ i <= b /\ b = MaxInbox /\ b > 0 /\ j = starts /\ j <= c /\ c = MaxStarts
  BY DiscoveryAssumption, StartsAssumption, SMT
<1>2. inbox' \in 0..MaxInbox
  <2>1. inbox' \in {inbox, 0} \/ (inbox < MaxInbox /\ inbox' = inbox + 1)
           \/ (inbox > 0 /\ inbox' = inbox - 1)
    <3> USE DEF udp, discovery_vars
    <3>1. CASE Discover
      BY <3>1 DEF Discover, StartAdapters, SkipMdns, StartMdns, StartMdnsWithoutBonjour,
                  MdnsThrows, StartUdp, StartBle, AllStarted
    <3>2. CASE StopDiscovery
      BY <3>2 DEF StopDiscovery, StopAdapters, StopMdns, StopUdp, CloseSend, CloseRecv, JoinSend,
                  JoinRecv, StopBle, AllStopped
    <3>3. CASE Aside(Sender) \/ Aside(PeerAnnounces)
      BY <3>3 DEF Aside, Sender, PeerAnnounces
    <3>4. CASE Aside(Receiver)
      BY <3>4 DEF Aside, Receiver, Receive
    <3>5. CASE Aside(Browser) \/ Aside(BrowserFinds)
      BY <3>5 DEF Aside, Browser, BrowserFinds, dns_sd_browse_reply, avahi_browse_callback,
                  BrowserStep
    <3>6. CASE \/ BeginStart \/ ResetMembership \/ StartFails \/ FinishStart \/ FinishStop
               \/ BeginStop \/ CallbackDangles \/ StopTransport \/ Accepting \/ Connecting
               \/ BeginLeave \/ Leave \/ StopMembership \/ LivenessLoop \/ UNCHANGED vars
      BY <3>6 DEF BeginStart, BeginDiscovery, ResetMembership, BeginStopDiscovery, StartFails,
                  FinishStart, FinishStop, BeginStop, CallbackDangles, StopTransport, Accepting,
                  BeginLeave, Leave, StopMembership, LivenessLoop, Connecting, vars
    <3> QED
      BY <3>1, <3>2, <3>3, <3>4, <3>5, <3>6 DEF Next, Control
  <2> QED
    BY <1>1, <2>1, SMT
<1>3. callers' \in 0..1
  <2>1. callers' \in {callers, 0, 1} \/ (callers > 0 /\ callers' = callers - 1)
    <3> USE DEF listener_vars
    <3>1. CASE FinishStart
      BY <3>1 DEF FinishStart, StartTransport
    <3>2. CASE StopTransport
      BY <3>2 DEF StopTransport, ShutTransport, JoinTransport
    <3>3. CASE Accepting \/ Connecting
      BY <3>3 DEF Accepting, Connecting, Acceptor, PeerConnects, HandshakeEnds
    <3>4. CASE ~(FinishStart \/ StopTransport \/ Accepting \/ Connecting)
      BY <3>4 DEF Next, Control, BeginStart, BeginStop, Discover, StartFails, ResetMembership,
                  StopDiscovery, FinishStop, Aside, CallbackDangles, BeginLeave, Leave,
                  StopMembership, LivenessLoop, vars
    <3> QED
      BY <3>1, <3>2, <3>3, <3>4
  <2> QED
    BY <2>1, SMT
<1>4. starts' \in 0..MaxStarts
  <2>1. starts' = starts \/ (starts < MaxStarts /\ starts' = starts + 1)
    BY DEF Next, Control, BeginStart, BeginStop, Discover, StartFails, FinishStart, StopTransport,
           ResetMembership, StopDiscovery, FinishStop, Aside, Accepting, Connecting,
           CallbackDangles, BeginLeave, Leave, StopMembership, LivenessLoop, Move, vars
  <2> QED
    BY <1>1, <2>1, SMT
<1> QED
  BY <1>2, <1>3, <1>4

(* Where the threads, sockets and flags can be, part by part.              *)
LEMMA ControlStep ==
    ASSUME ControlPlaces, [Next]_vars
    PROVE  ControlPlaces'
<1> USE DEF ControlPlaces, config, coordination, discovery_vars, liveness, JoinLiveness
<1>1. CASE Discover
  <2> USE <1>1 DEF Discover, Keep
  <2>1. CASE SkipMdns \/ StartMdns \/ StartMdnsWithoutBonjour
    BY <2>1 DEF SkipMdns, StartMdns, StartMdnsWithoutBonjour
  <2>2. CASE MdnsThrows \/ AllStarted
    BY <2>2 DEF MdnsThrows, AllStarted
  <2>3. CASE StartUdp \/ StartBle
    BY <2>3 DEF StartUdp, StartBle
  <2> QED
    BY <2>1, <2>2, <2>3 DEF StartAdapters
<1>2. CASE StopDiscovery
  <2> USE <1>2 DEF StopDiscovery, StoppedOne
  <2>1. CASE StopMdns \/ StopBle \/ AllStopped
    BY <2>1 DEF StopMdns, StopBle, AllStopped
  <2>2. CASE StopUdp \/ CloseSend \/ CloseRecv
    BY <2>2 DEF StopUdp, CloseSend, CloseRecv
  <2>3. CASE JoinSend \/ JoinRecv
    BY <2>3 DEF JoinSend, JoinRecv
  <2> QED
    BY <2>1, <2>2, <2>3 DEF StopAdapters
<1>3. CASE Aside(Sender) \/ Aside(PeerAnnounces) \/ Aside(Receiver)
  BY <1>3 DEF Aside, Sender, PeerAnnounces, Receiver, Receive, ReceiverStep
<1>4. CASE Aside(Browser) \/ Aside(BrowserFinds)
  BY <1>4 DEF Aside, Browser, BrowserFinds, dns_sd_browse_reply, avahi_browse_callback,
              BrowserStep
<1>5. CASE BeginStart \/ ResetMembership
  BY <1>5 DEF BeginStart, BeginDiscovery, ResetMembership, BeginStopDiscovery, Move
<1>6. CASE StartFails \/ FinishStart \/ FinishStop \/ BeginStop \/ CallbackDangles
  BY <1>6 DEF StartFails, FinishStart, FinishStop, BeginStop, CallbackDangles, Move
<1>7. CASE StopTransport \/ Accepting \/ Connecting \/ UNCHANGED vars
  BY <1>7, SMT DEF StopTransport, Accepting, Connecting, vars
<1>8. CASE BeginLeave \/ Leave \/ StopMembership \/ LivenessLoop
  BY <1>8 DEF BeginLeave, Leave, StopMembership, LivenessLoop, Move
<1> QED
  BY <1>1, <1>2, <1>3, <1>4, <1>5, <1>6, <1>7, <1>8 DEF Next, Control

LEMMA UdpStep ==
    ASSUME UdpPlaces, [Next]_vars
    PROVE  UdpPlaces'
<1> USE DEF UdpPlaces, Callers
<1>1. CASE UNCHANGED udp
  BY <1>1, SMT DEF udp
<1>2. CASE Discover
  <2>1. CASE StartUdp
    BY <2>1 DEF StartUdp
  <2>2. CASE ~StartUdp
    BY <1>1, <1>2, <2>2 DEF Discover, StartAdapters, SkipMdns, StartMdns, StartMdnsWithoutBonjour,
                            MdnsThrows, StartBle, AllStarted
  <2> QED
    BY <2>1, <2>2
<1>3. CASE StopDiscovery
  <2>1. CASE StopMdns \/ StopBle \/ AllStopped
    BY <1>1, <2>1 DEF StopMdns, StopBle, AllStopped
  <2>2. CASE StopUdp \/ CloseSend
    BY <2>2 DEF StopUdp, CloseSend
  <2>3. CASE CloseRecv
    BY <2>3 DEF CloseRecv
  <2>4. CASE JoinSend \/ JoinRecv
    BY <2>4 DEF JoinSend, JoinRecv
  <2> QED
    BY <1>3, <2>1, <2>2, <2>3, <2>4 DEF StopDiscovery, StopAdapters
<1>4. CASE Aside(Sender)
  BY <1>4 DEF Aside, Sender
<1>5. CASE Aside(PeerAnnounces)
  BY <1>5 DEF Aside, PeerAnnounces
<1>6. CASE Aside(Receiver)
  <2>1. /\ UNCHANGED <<stage, udp_running, send_sock, recv_sock, sender>>
        /\ receiver' \in {"none", "checking", "reading", "blocked", "exited"} \union Callers
    BY <1>6 DEF Aside, Receiver, Receive, ReceiverStep, AfterTest
  <2> QED
    BY <2>1
<1>7. CASE Aside(Browser) \/ Aside(BrowserFinds)
  BY <1>1, <1>7 DEF Aside, Browser, BrowserFinds, dns_sd_browse_reply, avahi_browse_callback,
                    BrowserStep
<1>8. CASE \/ BeginStart \/ ResetMembership \/ StartFails \/ FinishStart \/ FinishStop
           \/ BeginStop \/ CallbackDangles \/ StopTransport \/ Accepting \/ Connecting
           \/ BeginLeave \/ Leave \/ StopMembership \/ LivenessLoop \/ UNCHANGED vars
  BY <1>1, <1>8 DEF BeginStart, BeginDiscovery, ResetMembership, BeginStopDiscovery, StartFails,
                    FinishStart, FinishStop, BeginStop, CallbackDangles, StopTransport, Accepting,
                    BeginLeave, Leave, StopMembership, LivenessLoop, Connecting, vars,
                    discovery_vars
<1> QED
  BY <1>2, <1>3, <1>4, <1>5, <1>6, <1>7, <1>8 DEF Next, Control

LEMMA OtherAdaptersStep ==
    ASSUME OtherAdapterPlaces, [Next]_vars
    PROVE  OtherAdapterPlaces'
<1> USE DEF OtherAdapterPlaces, Callers
<1>1. CASE UNCHANGED <<mdns, ble_running>>
  BY <1>1 DEF mdns
<1>2. CASE Discover
  <2>1. CASE StartMdns \/ StartMdnsWithoutBonjour \/ StartBle
    BY <2>1 DEF StartMdns, StartMdnsWithoutBonjour, StartBle, mdns
  <2>2. CASE SkipMdns \/ MdnsThrows \/ StartUdp \/ AllStarted
    BY <1>1, <2>2 DEF SkipMdns, MdnsThrows, StartUdp, AllStarted
  <2> QED
    BY <1>2, <2>1, <2>2 DEF Discover, StartAdapters
<1>3. CASE StopDiscovery
  <2>1. CASE StopMdns \/ StopBle
    BY <2>1 DEF StopMdns, StopBle, mdns
  <2>2. CASE StopUdp \/ CloseSend \/ CloseRecv \/ JoinSend \/ JoinRecv \/ AllStopped
    BY <1>1, <2>2 DEF StopUdp, CloseSend, CloseRecv, JoinSend, JoinRecv, AllStopped
  <2> QED
    BY <1>3, <2>1, <2>2 DEF StopDiscovery, StopAdapters
<1>4. CASE Aside(Sender) \/ Aside(PeerAnnounces) \/ Aside(Receiver)
  BY <1>1, <1>4 DEF Aside, Sender, PeerAnnounces, Receiver, Receive, ReceiverStep
<1>5. CASE Aside(Browser) \/ Aside(BrowserFinds)
  BY <1>5 DEF Aside, Browser, BrowserFinds, dns_sd_browse_reply, avahi_browse_callback,
              BrowserStep, AfterTest
<1>6. CASE \/ BeginStart \/ ResetMembership \/ StartFails \/ FinishStart \/ FinishStop
           \/ BeginStop \/ CallbackDangles \/ StopTransport \/ Accepting \/ Connecting
           \/ BeginLeave \/ Leave \/ StopMembership \/ LivenessLoop \/ UNCHANGED vars
  BY <1>1, <1>6 DEF BeginStart, BeginDiscovery, ResetMembership, BeginStopDiscovery, StartFails,
                    FinishStart, FinishStop, BeginStop, CallbackDangles, StopTransport, Accepting,
                    BeginLeave, Leave, StopMembership, LivenessLoop, Connecting, vars,
                    discovery_vars
<1> QED
  BY <1>2, <1>3, <1>4, <1>5, <1>6 DEF Next, Control

LEMMA ListenerStep ==
    ASSUME ListenerPlaces, [Next]_vars
    PROVE  ListenerPlaces'
<1> USE DEF ListenerPlaces, listener_vars
<1>1. CASE FinishStart
  BY <1>1 DEF FinishStart, StartTransport
<1>2. CASE StopTransport
  BY <1>2 DEF StopTransport, ShutTransport, JoinTransport
<1>3. CASE Accepting \/ Connecting
  BY <1>3 DEF Accepting, Connecting, Acceptor, PeerConnects, HandshakeEnds
<1>4. CASE ~(FinishStart \/ StopTransport \/ Accepting \/ Connecting)
  BY <1>4 DEF Next, Control, BeginStart, BeginStop, Discover, StartFails, ResetMembership,
              StopDiscovery, FinishStop, Aside, CallbackDangles, BeginLeave, Leave,
              StopMembership, LivenessLoop, vars
<1> QED
  BY <1>1, <1>2, <1>3, <1>4

(* The type invariant of the runtime's life, the adapters and the listener *)
(* together; the loop index never leaves the lists it walks, and no queue  *)
(* outgrows its bound.                                                     *)
THEOREM LifecycleTyped == Spec => []TypeOK
<1>1. Init => TypeInv
  <2> SUFFICES ASSUME Init PROVE TypeInv
    OBVIOUS
  <2> USE DEF Init, DiscoveryInit, ListenerInit
  <2>1. IndexInv
    BY SMT DEF IndexInv
  <2>2. Counts
    BY DiscoveryAssumption, StartsAssumption, SMT DEF Counts
  <2>3. Places
    BY DEF Places, ControlPlaces, UdpPlaces, OtherAdapterPlaces, ListenerPlaces
  <2> QED
    BY <2>1, <2>2, <2>3 DEF TypeInv
<1>2. QuietInv /\ TypeInv /\ [Next]_vars => TypeInv'
  BY IndexStep, CountsStep, ControlStep, UdpStep, OtherAdaptersStep, ListenerStep
     DEF TypeInv, Places
<1>3. TypeInv => TypeOK
  BY DEF TypeInv, IndexInv, Counts, Places, ControlPlaces, UdpPlaces, OtherAdapterPlaces,
         ListenerPlaces, TypeOK, DiscoveryTypeOK, ListenerTypeOK
<1> QED
  BY <1>1, <1>2, <1>3, AlwaysQuietInv, PTL DEF Spec
=============================================================================
