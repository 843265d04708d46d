-------------------------------- MODULE Cluster --------------------------------
(***************************************************************************)
(* The control plane of one node as EdgeRuntimeImpl wires it               *)
(* (src/runtime/edge_runtime.cpp): discovery threads feed the membership   *)
(* service, its callback feeds the election inside the same critical       *)
(* section, the heartbeat thread admits joining members while this node    *)
(* leads, the application joins, leaves and stops, and start() brings the  *)
(* pieces up one after the other while discovery is already delivering.    *)
(***************************************************************************)
EXTENDS Membership, Election

CONSTANT MaxBoots   \* bound: how often the runtime is started

ASSUME BootsAssumption == MaxBoots \in Nat

VARIABLES
    boot,       \* how far start(), stop() or leave() has come
    boots,      \* starts so far
    heartbeat,  \* the heartbeat thread: asleep, or past its leadership check
    join        \* join_cluster(): idle, or between its two membership updates

vars == <<membershipVars, electionVars, boot, boots, heartbeat, join>>

lifecycleVars == <<boot, boots, heartbeat, join>>

Phases == {"down", "discovering", "stranded", "observed", "promoted", "profiled",
           "ready", "withdrawn", "draining", "stopping", "unled", "terminated"}

Init ==
    /\ MembershipInit
    /\ ElectionInit
    /\ boot = "down"
    /\ boots = 0
    /\ heartbeat = "asleep"
    /\ join = "idle"

(***************************************************************************)
(* The membership callback: a delivered snapshot goes to the election      *)
(* before the membership lock is released; an exception is swallowed.      *)
(***************************************************************************)
MutantForwardJoining ==
    IF snapshot' # snapshot
    THEN UpdateMembership(snapshot', InState(snapshot'.state, "alive")
                                        \union InState(snapshot'.state, "joining"))
    ELSE UNCHANGED electionVars

Forward ==
    IF snapshot' # snapshot
    THEN UpdateMembership(snapshot', InState(snapshot'.state, "alive"))
    ELSE UNCHANGED electionVars

Advance(from, to) ==
    /\ boot = from
    /\ boot' = to
    /\ UNCHANGED <<boots, heartbeat, join>>

(***************************************************************************)
(* start(), step by step: the lock it holds is not the membership lock, so *)
(* discovery events land between any two of these.                         *)
(***************************************************************************)
CreateMembership ==
    /\ boot \in {"down", "terminated"}
    /\ boots < MaxBoots
    /\ boot' = "discovering"
    /\ boots' = boots + 1
    /\ StartMembership
    /\ UNCHANGED <<electionVars, heartbeat, join>>

(***************************************************************************)
(* Discovery cannot start: start() returns the error and leaves the        *)
(* membership service and the adapters that did start running, in a        *)
(* runtime that only stop() or leave() gets out of kStarting.              *)
(***************************************************************************)
DiscoveryFails ==
    /\ Advance("discovering", "stranded")
    /\ UNCHANGED <<membershipVars, electionVars>>

SelfObserve ==
    /\ Advance("discovering", "observed")
    /\ \/ Observe(localNode)
       \/ mstate[localNode] = "absent" /\ localNode \notin Trusted
          /\ UNCHANGED membershipVars
    /\ Forward

SelfPromote ==
    /\ Advance("observed", "promoted")
    /\ PromoteJoining
    /\ Forward

SelfProfile ==
    /\ Advance("promoted", "profiled")
    /\ \/ UpdateCapability(localNode)
       \/ mstate[localNode] = "absent" /\ UNCHANGED membershipVars
    /\ Forward

CreateElection ==
    /\ Advance("profiled", "ready")
    /\ StartElection
    /\ UNCHANGED membershipVars

(***************************************************************************)
(* Discovery threads call observe() from the moment discovery starts until *)
(* do_stop() stops it, last of all.                                        *)
(***************************************************************************)
Hear(n) ==
    /\ revision < MaxRevision
    /\ Observe(n)
    /\ Forward
    /\ UNCHANGED lifecycleVars

LivenessPass ==
    /\ Sweep
    /\ Forward
    /\ UNCHANGED lifecycleVars

Time ==
    /\ Tick
    /\ UNCHANGED <<electionVars, lifecycleVars>>

(***************************************************************************)
(* The heartbeat thread runs from "ready" until it is joined.  Its check   *)
(* (is_local_leader() and an idle pipeline) and the promotion are separate *)
(* critical sections.  current() throws once the election is stopped, and  *)
(* is_local_leader() is outside the try block: the exception leaves the    *)
(* thread and std::terminate ends the process.                             *)
(***************************************************************************)
HeartbeatAlive == boot \in {"ready", "withdrawn", "draining"}

HeartbeatCheck ==
    /\ HeartbeatAlive
    /\ heartbeat = "asleep"
    /\ electionRunning
    /\ leader = localNode
    /\ heartbeat' = "promoting"
    /\ UNCHANGED <<membershipVars, electionVars, boot, boots, join>>

HeartbeatPromote ==
    /\ heartbeat = "promoting"
    /\ heartbeat' = "asleep"
    /\ PromoteJoining
    /\ Forward
    /\ UNCHANGED <<boot, boots, join>>

HeartbeatThrows ==
    /\ HeartbeatAlive
    /\ heartbeat = "asleep"
    /\ ~electionRunning
    /\ boot' = "terminated"
    /\ join' = "idle"
    /\ DestroyMembership
    /\ DestroyElection
    /\ UNCHANGED <<boots, heartbeat>>

(***************************************************************************)
(* join_cluster(): the model list, then the role.                          *)
(***************************************************************************)
JoinModels ==
    /\ boot = "ready"
    /\ join = "idle"
    /\ revision < MaxRevision
    /\ join' = "role"
    /\ UpdateModelPresence
    /\ Forward
    /\ UNCHANGED <<boot, boots, heartbeat>>

JoinRole ==
    /\ join = "role"
    /\ join' = "idle"
    /\ UpdateLocalRole("participant")
    /\ Forward
    /\ UNCHANGED <<boot, boots, heartbeat>>

(***************************************************************************)
(* do_stop().  leave() stops membership, then the election, then drains    *)
(* for as long as generations are in flight, with the heartbeat thread     *)
(* still running; stop() goes straight to joining the heartbeat.  Without  *)
(* an election and a heartbeat thread leave() has nothing to wait for. The *)
(* application does not stop a runtime it is joining with.                 *)
(***************************************************************************)
LeaveMembership ==
    /\ join = "idle"
    /\ Advance("ready", "withdrawn") \/ Advance("stranded", "stopping")
    /\ StopMembership
    /\ UNCHANGED electionVars

LeaveElection ==
    /\ Advance("withdrawn", "draining")
    /\ StopElection
    /\ UNCHANGED membershipVars

JoinHeartbeat ==
    /\ heartbeat = "asleep"
    /\ join = "idle"
    /\ \E phase \in {"ready", "draining", "stranded"} : Advance(phase, "stopping")
    /\ UNCHANGED <<membershipVars, electionVars>>

ResetElection ==
    /\ Advance("stopping", "unled")
    /\ DestroyElection
    /\ UNCHANGED membershipVars

ResetMembership ==
    /\ Advance("unled", "down")
    /\ DestroyMembership
    /\ UNCHANGED electionVars

(***************************************************************************)
(* The process dies.                                                       *)
(***************************************************************************)
Crash ==
    /\ boot \notin {"down", "terminated"}
    /\ boot' = "down"
    /\ heartbeat' = "asleep"
    /\ join' = "idle"
    /\ DestroyMembership
    /\ DestroyElection
    /\ UNCHANGED boots

Next ==
    \/ CreateMembership \/ DiscoveryFails
    \/ SelfObserve \/ SelfPromote \/ SelfProfile \/ CreateElection
    \/ \E n \in Nodes : Hear(n)
    \/ LivenessPass
    \/ Time
    \/ HeartbeatCheck \/ HeartbeatPromote \/ HeartbeatThrows
    \/ JoinModels \/ JoinRole
    \/ LeaveMembership \/ LeaveElection
    \/ JoinHeartbeat \/ ResetElection \/ ResetMembership
    \/ Crash

Spec == Init /\ [][Next]_vars

(***************************************************************************)
(* Time passes; the liveness and heartbeat threads keep running; start()   *)
(* and do_stop() run to their end once begun.  Nothing forces a peer to be *)
(* heard, the application to act or the process to die.                    *)
(***************************************************************************)
ThreadFairness ==
    /\ WF_vars(Time)
    /\ WF_vars(LivenessPass)
    /\ WF_vars(HeartbeatCheck \/ HeartbeatPromote \/ HeartbeatThrows)

CallFairness ==
    /\ WF_vars(DiscoveryFails \/ SelfObserve \/ SelfPromote \/ SelfProfile \/ CreateElection)
    /\ WF_vars(JoinRole)
    /\ WF_vars(LeaveElection)
    /\ WF_vars(boot = "draining" /\ JoinHeartbeat)
    /\ WF_vars(ResetElection \/ ResetMembership)

FairSpec == Spec /\ ThreadFairness /\ CallFairness

-------------------------------------------------------------------------------

(***************************************************************************)
(* Every variable of membership, election and lifecycle has the type the   *)
(* code gives it.                                                          *)
(***************************************************************************)
TypeOK ==
    /\ MembershipTypeOK
    /\ ElectionTypeOK
    /\ boot \in Phases
    /\ boots \in Nat
    /\ heartbeat \in {"asleep", "promoting"}
    /\ join \in {"idle", "role"}

Unseen == {n \in Nodes : snapshot.state[n] # mstate[n]}

(***************************************************************************)
(* What the subscriber of the membership service (membership_service.cpp,  *)
(* emit_snapshot) does not know yet: exactly the suspicions raised by      *)
(* liveness_loop() since the last delivery, and the revision is ahead of   *)
(* the delivered one by exactly their number.                              *)
(***************************************************************************)
OnlySuspicionsUnseen ==
    /\ \A n \in Unseen : snapshot.state[n] = "alive" /\ mstate[n] = "suspect"
    /\ revision = snapshot.revision + Cardinality(Unseen)

DeliveredAlive == InState(snapshot.state, "alive")

(***************************************************************************)
(* BullyElection::update_membership keeps up with its input: once it has   *)
(* been given a snapshot it has seen the newest one delivered, the kDataLoss*)
(* exception the runtime swallows was never due, and the leader is the     *)
(* highest member alive in that snapshot, or nobody when none is.          *)
(***************************************************************************)
LeaderIsHighestAlive ==
    electionRunning /\ lastSnapshotRevision # 0 =>
        /\ lastSnapshotRevision = snapshot.revision
        /\ leader = IF DeliveredAlive = {} THEN NoLeader ELSE Highest(DeliveredAlive)

(***************************************************************************)
(* A leader was admitted (promote_joining_members) before it was appointed *)
(* and is still a member: never a stranger, never merely joining, whatever *)
(* interleaving of discovery, heartbeat and start() led here.              *)
(***************************************************************************)
LeaderWasAdmitted ==
    electionRunning /\ leader # NoLeader => mstate[leader] \in {"alive", "suspect"}

(***************************************************************************)
(* A revision names one member table: the states, roles, capabilities and  *)
(* models differ between two steps only if the revision moved forward, or  *)
(* the service object is gone (membership_service.cpp, all operations).    *)
(***************************************************************************)
RevisionNamesMembers ==
    [][\/ revision' > revision
       \/ revision' = revision /\ UNCHANGED <<mstate, role, capable, models>>
       \/ ~membershipRunning' /\ mstate' = NoMembers
       \/ boot \in {"down", "terminated"}]_vars

(***************************************************************************)
(* The fence in LeadershipState (bully_election.cpp, update_membership)    *)
(* belongs to the leader it is published with: it is the newest fence, it  *)
(* was announced with this leader, and it names a revision the election    *)
(* has seen.                                                               *)
(***************************************************************************)
FenceBelongsToLeader ==
    electionRunning /\ leader # NoLeader =>
        /\ fence.term = currentTerm
        /\ [leader |-> leader, term |-> fence.term, token |-> fence.token] \in announced
        /\ fence.revision <= lastSnapshotRevision

(***************************************************************************)
(* Two announcements of the same term are the same announcement: no term   *)
(* has two leaders or two tokens, restarts and crashes included            *)
(* (bully_election.cpp: load_term, current_term_++, store_term).           *)
(***************************************************************************)
OneLeaderPerTerm ==
    \A a, b \in announced : a.term = b.term => a = b

(***************************************************************************)
(* Every announcement carries a term above all the terms announced before  *)
(* it, in this process or an earlier one.                                  *)
(***************************************************************************)
TermsNeverRegress ==
    [][\A b \in announced' \ announced : \A a \in announced : a.term < b.term]_vars

NoLease == [leader |-> NoLeader, term |-> 0, token |-> 0]

Lease ==
    IF leader = NoLeader THEN NoLease
    ELSE [leader |-> leader, term |-> fence.term, token |-> fence.token]

LeaseService == INSTANCE Leadership WITH
    lease <- Lease, granted <- announced, floor <- storedTerm

(***************************************************************************)
(* The election and its term store are a fenced lease service: every step  *)
(* of the control plane grants a lease with a higher term and a new token, *)
(* lets the lease lapse, or leaves it alone.                               *)
(***************************************************************************)
IsLeaseService == LeaseService!Spec

(***************************************************************************)
(* A member discovery stops hearing of does not stay alive: liveness_loop()*)
(* turns it suspect, or the runtime goes down.                             *)
(***************************************************************************)
SilentMembersTurnSuspect ==
    \A n \in Nodes :
        <>[][~Hear(n)]_vars => <>[](mstate[n] # "alive")

(***************************************************************************)
(* docs/ENGINE_BLUEPRINT.md:99: shutdown "drains or cancels owned work":   *)
(* leave() ends with the runtime stopped, not with the process terminated. *)
(***************************************************************************)
NeverTerminated ==
    boot # "terminated"
===============================================================================
