------------------------------ MODULE Discovery -------------------------------
(***************************************************************************)
(* Discovery: the coordinator (src/discovery/discovery_service.cpp) and    *)
(* its adapters: mDNS over DNS-SD or Avahi (mdns_discovery.cpp), UDP       *)
(* broadcast with a sending and a receiving thread (udp_discovery.cpp),    *)
(* and Bluetooth (bluetooth_discovery.cpp), which only keeps a flag.       *)
(*                                                                         *)
(* The threads call back into the membership service, which belongs to     *)
(* the runtime: the callback tests the pointer and then uses it.           *)
(***************************************************************************)
EXTENDS Naturals, Sequences

CONSTANTS
    Platforms,   \* the systems built for
    MaxInbox     \* bound: datagrams waiting at the receiving socket

ASSUME DiscoveryAssumption ==
    /\ Platforms \subseteq {"macos", "linux", "android", "windows"}
    /\ MaxInbox \in Nat \ {0}

VARIABLES
    platform,     \* the build
    skip_mdns,    \* config_.skip_discovery
    coordinator,  \* where start() or stop() of the coordinator is
    running,      \* running_ of the coordinator
    next,         \* the loop index of its start() and stop()
    adapters,     \* adapters_
    stage,        \* how far stop() of the UDP adapter has come
    udp_running,  \* running_ of the UDP adapter
    send_sock, recv_sock,  \* its sockets
    sender, receiver,      \* its threads
    inbox,        \* datagrams the receiving socket holds
    browser,      \* the mDNS thread
    mdns_running, \* running of DnsSdContext, or the Avahi poll loop
    ble_running,  \* running_ of the Bluetooth adapter
    membership    \* membership_ of the runtime points to a service

config == <<platform, skip_mdns>>
coordination == <<coordinator, running, next, adapters>>
udp == <<stage, udp_running, send_sock, recv_sock, sender, receiver, inbox>>
mdns == <<browser, mdns_running>>

discovery_vars == <<config, coordination, udp, mdns, ble_running>>

MutantFallbackOrder ==
    IF skip_mdns THEN <<"udp", "ble">> ELSE <<"udp", "mdns", "ble">>

(* The methods EdgeRuntimeImpl::start() asks for, in that order.           *)
FallbackOrder ==
    IF skip_mdns THEN <<"udp", "ble">> ELSE <<"mdns", "udp", "ble">>

Callers == {"testing", "observing"}

DiscoveryTypeOK ==
    /\ platform \in Platforms
    /\ skip_mdns \in BOOLEAN
    /\ coordinator \in {"stopped", "starting", "started", "failed", "stopping"}
    /\ running \in BOOLEAN
    /\ next \in 1..4
    /\ adapters \in Seq({"mdns", "udp", "ble"})
    /\ stage \in {"idle", "close_send", "close_recv", "join_send", "join_recv"}
    /\ udp_running \in BOOLEAN
    /\ send_sock \in {"open", "invalid"}
    /\ recv_sock \in {"open", "invalid"}
    /\ sender \in {"none", "checking", "announcing", "sleeping", "exited"}
    /\ receiver \in {"none", "checking", "reading", "blocked", "exited"} \union Callers
    /\ inbox \in 0..MaxInbox
    /\ browser \in {"none", "polling", "exited"} \union Callers
    /\ mdns_running \in BOOLEAN
    /\ ble_running \in BOOLEAN
    /\ membership \in BOOLEAN

DiscoveryInit ==
    /\ platform \in Platforms
    /\ skip_mdns \in BOOLEAN
    /\ coordinator = "stopped"
    /\ running = FALSE
    /\ next = 1
    /\ adapters = <<>>
    /\ stage = "idle"
    /\ udp_running = FALSE
    /\ send_sock = "invalid"
    /\ recv_sock = "invalid"
    /\ sender = "none"
    /\ receiver = "none"
    /\ inbox = 0
    /\ browser = "none"
    /\ mdns_running = FALSE
    /\ ble_running = FALSE

-------------------------------------------------------------------------------
(***************************************************************************)
(* CoordinatedDiscovery::start(), on a coordinator just made: the adapters *)
(* are started in order, each kept once it has started.                    *)
(***************************************************************************)
BeginDiscovery ==
    /\ coordinator = "stopped"
    /\ coordinator' = "starting"
    /\ running' = TRUE
    /\ next' = 1
    /\ adapters' = <<>>
    /\ UNCHANGED <<config, udp, mdns, ble_running>>

Starting(method) ==
    /\ coordinator = "starting"
    /\ next <= Len(FallbackOrder)
    /\ FallbackOrder[next] = method

MutantKeep(method) ==
    /\ adapters' = Append(adapters, method)
    /\ next' = next + 2
    /\ UNCHANGED <<coordinator, running>>

Keep(method) ==
    /\ adapters' = Append(adapters, method)
    /\ next' = next + 1
    /\ UNCHANGED <<coordinator, running>>

(* make_mdns_discovery() gives no adapter on Android and Windows.          *)
SkipMdns ==
    /\ Starting("mdns")
    /\ platform \notin {"macos", "linux"}
    /\ next' = next + 1
    /\ UNCHANGED <<config, coordinator, running, adapters, udp, mdns, ble_running>>

StartMdns ==
    /\ Starting("mdns")
    /\ platform \in {"macos", "linux"}
    /\ Keep("mdns")
    /\ browser' = "polling"
    /\ mdns_running' = TRUE
    /\ UNCHANGED <<config, udp, ble_running>>

(* dns_sd_start() throws: the adapter goes on without a context.           *)
StartMdnsWithoutBonjour ==
    /\ Starting("mdns")
    /\ platform = "macos"
    /\ Keep("mdns")
    /\ UNCHANGED <<config, udp, mdns, ble_running>>

(* Avahi fails: the exception leaves the coordinator's start() with        *)
(* running_ set and the adapter dropped.                                   *)
MdnsThrows ==
    /\ Starting("mdns")
    /\ platform = "linux"
    /\ coordinator' = "failed"
    /\ UNCHANGED <<config, running, next, adapters, udp, mdns, ble_running>>

(* A receiving socket that cannot be bound is closed, and the thread runs  *)
(* without it.                                                             *)
StartUdp ==
    /\ Starting("udp")
    /\ Keep("udp")
    /\ udp_running' = TRUE
    /\ send_sock' \in {"open", "invalid"}
    /\ recv_sock' \in {"open", "invalid"}
    /\ sender' = "checking"
    /\ receiver' = "checking"
    /\ inbox' = 0
    /\ UNCHANGED <<config, stage, mdns, ble_running>>

StartBle ==
    /\ Starting("ble")
    /\ Keep("ble")
    /\ ble_running' = TRUE
    /\ UNCHANGED <<config, udp, mdns>>

AllStarted ==
    /\ coordinator = "starting"
    /\ next > Len(FallbackOrder)
    /\ coordinator' = "started"
    /\ UNCHANGED <<config, running, next, adapters, udp, mdns, ble_running>>

StartAdapters ==
    \/ SkipMdns \/ StartMdns \/ StartMdnsWithoutBonjour \/ MdnsThrows
    \/ StartUdp \/ StartBle \/ AllStarted

-------------------------------------------------------------------------------
(***************************************************************************)
(* CoordinatedDiscovery::stop(): the adapters are stopped in the order in  *)
(* which they were started.                                                *)
(***************************************************************************)
BeginStopDiscovery ==
    /\ coordinator \in {"started", "failed"}
    /\ coordinator' = "stopping"
    /\ running' = FALSE
    /\ next' = 1
    /\ UNCHANGED <<config, adapters, udp, mdns, ble_running>>

Stopping(method) ==
    /\ coordinator = "stopping"
    /\ next <= Len(adapters)
    /\ adapters[next] = method

StoppedOne ==
    /\ next' = next + 1
    /\ UNCHANGED <<coordinator, running, adapters>>

(* dns_sd_stop(), or the Avahi calls: the flag is cleared, which wakes the *)
(* thread, and the thread is waited for.                                   *)
StopMdns ==
    /\ Stopping("mdns")
    /\ \/ /\ mdns_running
          /\ mdns_running' = FALSE
          /\ UNCHANGED <<coordination, browser>>
       \/ /\ ~mdns_running
          /\ browser \in {"none", "exited"}
          /\ browser' = "none"
          /\ StoppedOne
          /\ UNCHANGED mdns_running
    /\ UNCHANGED <<config, udp, ble_running>>

StopUdp ==
    /\ Stopping("udp")
    /\ stage = "idle"
    /\ udp_running' = FALSE
    /\ stage' = "close_send"
    /\ UNCHANGED <<config, coordination, send_sock, recv_sock, sender, receiver, inbox, mdns,
                   ble_running>>

CloseSend ==
    /\ stage = "close_send"
    /\ send_sock' = "invalid"
    /\ stage' = "close_recv"
    /\ UNCHANGED <<config, coordination, udp_running, recv_sock, sender, receiver, inbox,
                   mdns, ble_running>>

(* A thread blocked in recvfrom() keeps the socket, and what arrives at    *)
(* it, alive in the kernel.                                                *)
CloseRecv ==
    /\ stage = "close_recv"
    /\ recv_sock' = "invalid"
    /\ inbox' = IF receiver = "blocked" THEN inbox ELSE 0
    /\ stage' = "join_send"
    /\ UNCHANGED <<config, coordination, udp_running, send_sock, sender, receiver, mdns,
                   ble_running>>

JoinSend ==
    /\ stage = "join_send"
    /\ sender = "exited"
    /\ sender' = "none"
    /\ stage' = "join_recv"
    /\ UNCHANGED <<config, coordination, udp_running, send_sock, recv_sock, receiver, inbox,
                   mdns, ble_running>>

MutantJoinRecv ==
    /\ stage = "join_recv"
    /\ receiver' = receiver
    /\ stage' = "idle"
    /\ StoppedOne
    /\ UNCHANGED <<config, udp_running, send_sock, recv_sock, sender, inbox, mdns,
                   ble_running>>

JoinRecv ==
    /\ stage = "join_recv"
    /\ receiver = "exited"
    /\ receiver' = "none"
    /\ stage' = "idle"
    /\ StoppedOne
    /\ UNCHANGED <<config, udp_running, send_sock, recv_sock, sender, inbox, mdns,
                   ble_running>>

StopBle ==
    /\ Stopping("ble")
    /\ ble_running' = FALSE
    /\ StoppedOne
    /\ UNCHANGED <<config, udp, mdns>>

(* adapters_.clear()                                                       *)
AllStopped ==
    /\ coordinator = "stopping"
    /\ next > Len(adapters)
    /\ coordinator' = "stopped"
    /\ adapters' = <<>>
    /\ UNCHANGED <<config, running, next, udp, mdns, ble_running>>

StopAdapters ==
    \/ StopMdns
    \/ StopUdp \/ CloseSend \/ CloseRecv \/ JoinSend \/ JoinRecv
    \/ StopBle \/ AllStopped

-------------------------------------------------------------------------------
(***************************************************************************)
(* The callback given to every adapter: if (membership_)                   *)
(* membership_->observe(ev).  No lock covers both.                         *)
(***************************************************************************)
AfterTest(back) == IF membership THEN "observing" ELSE back

(* The sending thread.  A broadcast comes back to this node's own socket,  *)
(* unless it holds as many datagrams as it can.                            *)
Sender ==
    /\ \/ /\ sender = "checking"
          /\ sender' = IF udp_running THEN "announcing" ELSE "exited"
          /\ UNCHANGED inbox
       \/ /\ sender = "announcing"
          /\ inbox' = IF send_sock = "open" /\ recv_sock = "open" /\ inbox < MaxInbox
                      THEN inbox + 1 ELSE inbox
          /\ sender' = "sleeping"
       \/ /\ sender = "sleeping"
          /\ sender' = "checking"
          /\ UNCHANGED inbox
    /\ UNCHANGED <<config, coordination, stage, udp_running, send_sock, recv_sock, receiver,
                   mdns, ble_running>>

(* Whether close() wakes a thread blocked in recvfrom() depends on the     *)
(* system: it does not on Linux and Android.                               *)
CloseWakesReceiver == platform \in {"macos", "windows"}

(* Another node's broadcast.                                               *)
PeerAnnounces ==
    /\ recv_sock = "open" \/ (receiver = "blocked" /\ ~CloseWakesReceiver)
    /\ inbox < MaxInbox
    /\ inbox' = inbox + 1
    /\ UNCHANGED <<config, coordination, stage, udp_running, send_sock, recv_sock, sender,
                   receiver, mdns, ble_running>>

ReceiverStep(from, to) ==
    /\ receiver = from
    /\ receiver' = to
    /\ UNCHANGED <<config, coordination, stage, udp_running, send_sock, recv_sock, sender,
                   mdns, ble_running>>

(* A datagram without the two separators carries no peer and is dropped.   *)
Receive ==
    /\ inbox > 0
    /\ inbox' = IF recv_sock = "open" THEN inbox - 1 ELSE 0
    /\ \/ ReceiverStep("blocked", "testing")
       \/ ReceiverStep("blocked", "checking")

(* recvfrom() fails at once on a socket that is gone, and blocks on an     *)
(* open one until a datagram comes.                                        *)
Receiver ==
    \/ /\ ReceiverStep("checking", IF udp_running THEN "reading" ELSE "exited")
       /\ UNCHANGED inbox
    \/ /\ ReceiverStep("reading", IF recv_sock = "open" THEN "blocked" ELSE "checking")
       /\ UNCHANGED inbox
    \/ Receive
    \/ /\ recv_sock = "invalid" /\ CloseWakesReceiver
       /\ ReceiverStep("blocked", "checking")
       /\ inbox' = 0
    \/ /\ ReceiverStep("testing", AfterTest("checking"))
       /\ UNCHANGED inbox
    \/ /\ ReceiverStep("observing", "checking")
       /\ UNCHANGED inbox

BrowserStep(from, to) ==
    /\ browser = from
    /\ browser' = to
    /\ UNCHANGED <<config, coordination, udp, mdns_running, ble_running>>

(* A peer was found, by DNS-SD or by Avahi.                                *)
dns_sd_browse_reply ==
    /\ platform = "macos" /\ mdns_running
    /\ BrowserStep("polling", "testing")

avahi_browse_callback ==
    /\ platform = "linux" /\ mdns_running
    /\ BrowserStep("polling", "testing")

BrowserFinds == dns_sd_browse_reply \/ avahi_browse_callback

Browser ==
    \/ BrowserStep("testing", AfterTest("polling"))
    \/ BrowserStep("observing", "polling")
    \/ ~mdns_running /\ BrowserStep("polling", "exited")

(* No thread of an adapter is left, and its sockets are closed.            *)
DiscoveryQuiet ==
    /\ sender = "none" /\ receiver = "none" /\ browser = "none"
    /\ send_sock = "invalid" /\ recv_sock = "invalid"
    /\ ~ble_running

=============================================================================
