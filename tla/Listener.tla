------------------------------- MODULE Listener -------------------------------
(***************************************************************************)
(* The listening side of the transport (src/transport/grpc_transport.cpp): *)
(* GrpcTransport::start() and stop() with TlsServer and its accept thread, *)
(* as EdgeRuntimeImpl configures them.  The runtime passes no private key, *)
(* so no incoming handshake succeeds and no connection is ever served.     *)
(***************************************************************************)
EXTENDS Naturals

CONSTANT Builds   \* of "none" (no protobuf), "loopback" (no OpenSSL), "tls"

ASSUME BuildsAssumption == Builds \subseteq {"none", "loopback", "tls"}

VARIABLES
    build,      \* the build
    transport,  \* transport_ of the runtime: "absent", "running", "joining"
    listening,  \* the listening socket: "closed", "open", "shut"
    accepting,  \* running_ of the server
    acceptor,   \* the accept thread
    callers     \* peers waiting to be accepted

listener_vars == <<build, transport, listening, accepting, acceptor, callers>>

ListenerTypeOK ==
    /\ build \in Builds
    /\ transport \in {"absent", "running", "joining"}
    /\ listening \in {"closed", "open", "shut"}
    /\ accepting \in BOOLEAN
    /\ acceptor \in {"none", "checking", "blocked", "handshaking", "exited"}
    /\ callers \in 0..1

ListenerInit ==
    /\ build \in Builds
    /\ transport = "absent"
    /\ listening = "closed"
    /\ accepting = FALSE
    /\ acceptor = "none"
    /\ callers = 0

(* GrpcTransport::start() and TlsServer::start().  When the port cannot be *)
(* bound the runtime drops the transport and goes on without.              *)
StartTransport ==
    \/ /\ build = "none"
       /\ UNCHANGED listener_vars
    \/ /\ build = "loopback"
       /\ transport' = "running"
       /\ UNCHANGED <<build, listening, accepting, acceptor, callers>>
    \/ /\ build = "tls"
       /\ transport' = "running"
       /\ listening' = "open"
       /\ accepting' = TRUE
       /\ acceptor' = "checking"
       /\ UNCHANGED <<build, callers>>
    \/ /\ build = "tls"
       /\ UNCHANGED listener_vars

PeerConnects ==
    /\ listening = "open"
    /\ callers = 0
    /\ callers' = 1
    /\ UNCHANGED <<build, transport, listening, accepting, acceptor>>

(* accept_loop(): accept() fails once the socket is shut down, and without *)
(* a caller it waits for ever on one that is not.                          *)
Acceptor ==
    /\ \/ /\ acceptor = "checking"
          /\ acceptor' = IF accepting THEN "blocked" ELSE "exited"
          /\ UNCHANGED callers
       \/ /\ acceptor = "blocked"
          /\ listening = "open" /\ callers > 0
          /\ acceptor' = "handshaking"
          /\ callers' = callers - 1
       \/ /\ acceptor = "blocked"
          /\ listening = "shut"
          /\ acceptor' = "checking"
          /\ UNCHANGED callers
    /\ UNCHANGED <<build, transport, listening, accepting>>

(* SSL_accept() fails once the peer has said something, or has gone: it    *)
(* sets no timeout, and a peer that stays silent keeps it waiting.         *)
HandshakeEnds ==
    /\ acceptor = "handshaking"
    /\ acceptor' = "checking"
    /\ UNCHANGED <<build, transport, listening, accepting, callers>>

MutantShutTransport(wakes) ==
    /\ transport = "running"
    /\ transport' = "joining"
    /\ accepting' = FALSE
    /\ UNCHANGED <<build, listening, acceptor, callers>>

(* stop(): running_ is cleared and the listening socket shut down.         *)
(* "wakes" says that on this system shutdown() of a listening socket ends  *)
(* an accept(); elsewhere it may also be refused (ENOTCONN), its result is *)
(* not looked at, and the socket goes on listening.                        *)
ShutTransport(wakes) ==
    /\ transport = "running"
    /\ transport' = "joining"
    /\ accepting' = FALSE
    /\ listening' \in IF listening = "open" /\ ~wakes THEN {"shut", "open"}
                      ELSE IF listening = "open" THEN {"shut"} ELSE {listening}
    /\ UNCHANGED <<build, acceptor, callers>>

(* Then the accept thread is joined, the socket closed, and the transport  *)
(* destroyed.                                                              *)
JoinTransport ==
    /\ transport = "joining"
    /\ acceptor \in {"none", "exited"}
    /\ acceptor' = "none"
    /\ transport' = "absent"
    /\ listening' = "closed"
    /\ callers' = 0
    /\ UNCHANGED <<build, accepting>>

ListenerQuiet == acceptor = "none" /\ listening = "closed"

=============================================================================
