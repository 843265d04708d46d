------------------------------ MODULE Membership ------------------------------
(***************************************************************************)
(* MembershipServiceImpl (src/cluster/membership_service.cpp): the members *)
(* one node knows, their liveness states, and the revisioned snapshots it  *)
(* hands to its callback.  Every operation runs under mutex_, and          *)
(* emit_snapshot() calls the callback before the lock is released, so an   *)
(* operation and the snapshot it delivers are one atomic step.             *)
(*                                                                         *)
(* Node ids are naturals: their order stands for the order of the id       *)
(* strings.  A member that is not in members_ has state "absent".          *)
(***************************************************************************)
EXTENDS Naturals, FiniteSets

CONSTANTS
    Nodes,         \* ids that discovery or the identity provider can name
    MaxId,         \* the largest of them
    LocalIds,      \* ids the ephemeral identity provider may draw for this node
    Trusted,       \* ids IdentityProvider::authenticate accepts
    SuspectAfter,  \* a member older than this is stale (10 seconds in the code)
    MaxRevision    \* bound: no new outside event once the revision is here

ASSUME NodesAssumption ==
    /\ MaxId \in Nat
    /\ Nodes \subseteq 1..MaxId
    /\ LocalIds \subseteq Nodes
    /\ Trusted \subseteq Nodes

ASSUME BoundsAssumption ==
    /\ SuspectAfter \in Nat
    /\ MaxRevision \in Nat

VARIABLES
    membershipRunning,  \* running_
    localNode,          \* local_node_id_
    mstate,             \* Member::state, "absent" when not in members_
    age,                \* now - Member::last_seen, read for alive members only
    role,               \* Member::role
    capable,            \* members whose Member::capability is set
    models,             \* members whose Member::models lists the downloads
    revision,           \* snapshot_revision_
    snapshot            \* what the callback was last given

membershipVars == <<membershipRunning, localNode, mstate, age, role, capable,
                    models, revision, snapshot>>

MemberStates == {"absent", "joining", "alive", "suspect"}
Roles == {"leech", "participant"}

Snapshots == [revision : Nat, state : [Nodes -> MemberStates]]

NoMembers == [n \in Nodes |-> "absent"]

InState(view, s) == {n \in Nodes : view[n] = s}

MembershipInit ==
    /\ membershipRunning = FALSE
    /\ localNode \in LocalIds
    /\ mstate = NoMembers
    /\ age = [n \in Nodes |-> 0]
    /\ role = [n \in Nodes |-> "leech"]
    /\ capable = {}
    /\ models = {}
    /\ revision = 0
    /\ snapshot = [revision |-> 0, state |-> NoMembers]

(***************************************************************************)
(* snapshot_revision_++ followed by emit_snapshot(): the callback receives *)
(* the members as this very step leaves them.                              *)
(***************************************************************************)
BumpAndEmit ==
    /\ revision' = revision + 1
    /\ snapshot' = [revision |-> revision', state |-> mstate']

(***************************************************************************)
(* A fresh service object, started: make_membership_service() and start(). *)
(***************************************************************************)
StartMembership ==
    /\ membershipRunning' = TRUE
    /\ localNode' \in LocalIds
    /\ mstate' = NoMembers
    /\ age' = [n \in Nodes |-> 0]
    /\ role' = [n \in Nodes |-> "leech"]
    /\ capable' = {}
    /\ models' = {}
    /\ revision' = 0
    /\ snapshot' = [revision |-> 0, state |-> NoMembers]

(***************************************************************************)
(* observe(): a stranger is authenticated and joins as a leech; a known    *)
(* member is refreshed, and revived when it was suspect.  event.kind is    *)
(* not looked at.  Not running (throws) and an unauthenticated stranger    *)
(* (returns) change nothing.                                               *)
(***************************************************************************)
MutantAfterObserveLeft(s) == CASE s = "absent"  -> "joining"
                         [] s = "suspect" -> "left"
                         [] OTHER         -> s

AfterObserve(s) == CASE s = "absent"  -> "joining"
                     [] s = "suspect" -> "alive"
                     [] OTHER         -> s

Observe(n) ==
    /\ membershipRunning
    /\ mstate[n] = "absent" => n \in Trusted
    /\ mstate' = [mstate EXCEPT ![n] = AfterObserve(@)]
    /\ age' = [age EXCEPT ![n] = 0]
    /\ UNCHANGED <<membershipRunning, localNode, role, capable, models>>
    /\ BumpAndEmit

(***************************************************************************)
(* update_capability(): throws kNotFound for a stranger; running_ is not   *)
(* consulted.                                                              *)
(***************************************************************************)
UpdateCapability(n) ==
    /\ mstate[n] # "absent"
    /\ capable' = capable \union {n}
    /\ UNCHANGED <<membershipRunning, localNode, mstate, age, role, models>>
    /\ BumpAndEmit

(***************************************************************************)
(* update_model_presence(): the list is written to every member.           *)
(***************************************************************************)
UpdateModelPresence ==
    /\ models' = {n \in Nodes : mstate[n] # "absent"}
    /\ UNCHANGED <<membershipRunning, localNode, mstate, age, role, capable>>
    /\ BumpAndEmit

(***************************************************************************)
(* update_local_role(): only when the local node is a member and its role  *)
(* differs.                                                                *)
(***************************************************************************)
MutantUpdateLocalRoleUnversioned(r) ==
    /\ role' = [role EXCEPT ![localNode] = r]
    /\ UNCHANGED <<membershipRunning, localNode, mstate, age, capable, models,
                   revision, snapshot>>

UpdateLocalRole(r) ==
    IF mstate[localNode] # "absent" /\ role[localNode] # r
    THEN /\ role' = [role EXCEPT ![localNode] = r]
         /\ UNCHANGED <<membershipRunning, localNode, mstate, age, capable, models>>
         /\ BumpAndEmit
    ELSE UNCHANGED membershipVars

(***************************************************************************)
(* promote_joining_members(): every joining member becomes alive, at once; *)
(* running_ is not consulted.                                              *)
(***************************************************************************)
MutantPromoteJoiningUnannounced ==
    LET joining == InState(mstate, "joining") IN
    IF joining # {}
    THEN /\ mstate' = [n \in Nodes |-> IF n \in joining THEN "alive" ELSE mstate[n]]
         /\ age' = [n \in Nodes |-> IF n \in joining THEN 0 ELSE age[n]]
         /\ revision' = revision + 1
         /\ UNCHANGED <<membershipRunning, localNode, role, capable, models, snapshot>>
    ELSE UNCHANGED membershipVars

PromoteJoining ==
    LET joining == InState(mstate, "joining") IN
    IF joining # {}
    THEN /\ mstate' = [n \in Nodes |-> IF n \in joining THEN "alive" ELSE mstate[n]]
         /\ age' = [n \in Nodes |-> IF n \in joining THEN 0 ELSE age[n]]
         /\ UNCHANGED <<membershipRunning, localNode, role, capable, models>>
         /\ BumpAndEmit
    ELSE UNCHANGED membershipVars

(***************************************************************************)
(* One pass of liveness_loop(): every stale alive member turns suspect.    *)
(* The revision moves once per member, but no snapshot is emitted.         *)
(***************************************************************************)
Stale == {n \in InState(mstate, "alive") : age[n] > SuspectAfter}

MutantSweepCapable ==
    LET stale == Stale \intersect capable IN
    /\ membershipRunning
    /\ stale # {}
    /\ mstate' = [n \in Nodes |-> IF n \in stale THEN "suspect" ELSE mstate[n]]
    /\ revision' = revision + Cardinality(stale)
    /\ UNCHANGED <<membershipRunning, localNode, age, role, capable, models, snapshot>>

Sweep ==
    /\ membershipRunning
    /\ Stale # {}
    /\ mstate' = [n \in Nodes |-> IF n \in Stale THEN "suspect" ELSE mstate[n]]
    /\ revision' = revision + Cardinality(Stale)
    /\ UNCHANGED <<membershipRunning, localNode, age, role, capable, models, snapshot>>

(***************************************************************************)
(* A second passes.  Ages stop one past SuspectAfter: the code compares an *)
(* age with the threshold and nothing else.                                *)
(***************************************************************************)
Tick ==
    /\ InState(mstate, "alive") \ Stale # {}
    /\ age' = [n \in Nodes |-> IF n \in InState(mstate, "alive") \ Stale
                               THEN age[n] + 1 ELSE age[n]]
    /\ UNCHANGED <<membershipRunning, localNode, mstate, role, capable, models,
                   revision, snapshot>>

(***************************************************************************)
(* stop(): the service keeps its members and its callback.                 *)
(***************************************************************************)
StopMembership ==
    /\ membershipRunning' = FALSE
    /\ UNCHANGED <<localNode, mstate, age, role, capable, models, revision, snapshot>>

(***************************************************************************)
(* The object is gone: membership_.reset(), or the process died.           *)
(***************************************************************************)
DestroyMembership ==
    /\ membershipRunning' = FALSE
    /\ mstate' = NoMembers
    /\ age' = [n \in Nodes |-> 0]
    /\ role' = [n \in Nodes |-> "leech"]
    /\ capable' = {}
    /\ models' = {}
    /\ revision' = 0
    /\ snapshot' = [revision |-> 0, state |-> NoMembers]
    /\ UNCHANGED localNode

MembershipTypeOK ==
    /\ membershipRunning \in BOOLEAN
    /\ localNode \in LocalIds
    /\ mstate \in [Nodes -> MemberStates]
    /\ age \in [Nodes -> Nat]
    /\ role \in [Nodes -> Roles]
    /\ capable \subseteq Nodes
    /\ models \subseteq Nodes
    /\ revision \in Nat
    /\ snapshot \in Snapshots
===============================================================================
