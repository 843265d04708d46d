----------------------------- MODULE ClusterProofs -----------------------------
(***************************************************************************)
(* Proofs about Cluster, for any set of nodes, any clock threshold and any *)
(* bounds.                                                                 *)
(***************************************************************************)
EXTENDS Cluster, FiniteSetTheorems, TLAPS

(* Zenon proves every leaf that cites no other prover; SMT is cited where  *)
(* arithmetic, records or function updates take part.                      *)
USE ZenonT(20)

LEMMA MaximumExists ==
    ASSUME NEW S \in SUBSET (1..MaxId), S # {}
    PROVE  \E n \in S : \A m \in S : m <= n
<1> DEFINE T == {MaxId - n : n \in S}
<1>a. MaxId \in Nat
  BY NodesAssumption
<1>b. \A n \in S : n \in 1..MaxId
  OBVIOUS
<1>c. \A n \in S : MaxId - n \in Nat
  BY <1>a, <1>b, SMT
<1>1. T \subseteq Nat /\ T # {}
  BY <1>c
<1>2. IsWellFoundedOn(OpToRel(<, Nat), Nat)
  BY NatLessThanWellFounded
<1>3. \E x \in T : \A y \in T : ~(<<y, x>> \in OpToRel(<, Nat))
  BY <1>1, <1>2, WFMin
<1>4. PICK x \in T : \A y \in T : ~(<<y, x>> \in OpToRel(<, Nat))
  BY <1>3
<1>5. \A y \in T : ~(y < x)
  BY <1>1, <1>4 DEF OpToRel
<1>6. PICK n \in S : x = MaxId - n
  BY <1>4
<1>7. ASSUME NEW m \in S PROVE m <= n
  <2>1. ~(MaxId - m < MaxId - n)
    BY <1>5, <1>6
  <2> QED
    BY <1>a, <1>b, <2>1, SMT
<1> QED
  BY <1>7

LEMMA HighestIsMaximum ==
    ASSUME NEW S \in SUBSET Nodes, S # {}
    PROVE  /\ Highest(S) \in S
           /\ \A m \in S : m <= Highest(S)
  BY NodesAssumption, MaximumExists DEF Highest

LEMMA NodesAreNat == Nodes \subseteq Nat \ {0}
  BY NodesAssumption, SMT

LEMMA NodesFinite ==
    ASSUME NEW S \in SUBSET Nodes
    PROVE  IsFiniteSet(S) /\ Cardinality(S) \in Nat /\ (Cardinality(S) = 0 <=> S = {})
<1>1. IsFiniteSet(1..MaxId)
  BY FS_Interval, NodesAssumption, SMT
<1>2. IsFiniteSet(S)
  BY <1>1, FS_Subset, NodesAssumption
<1> QED
  BY <1>2, FS_CardinalityType, FS_EmptySet

LEMMA DisjointUnion ==
    ASSUME NEW S \in SUBSET Nodes, NEW T \in SUBSET Nodes, T \intersect S = {}
    PROVE  Cardinality(S \union T) = Cardinality(S) + Cardinality(T)
<1>1. IsFiniteSet(S) /\ IsFiniteSet(T)
  BY NodesFinite
<1>2. Cardinality(S \union T) = Cardinality(S) + Cardinality(T) - Cardinality(S \intersect T)
  BY <1>1, FS_Union
<1>3. Cardinality(S \intersect T) = 0
  <2>1. S \intersect T = {}
    OBVIOUS
  <2> QED
    BY <2>1, FS_EmptySet
<1>4. Cardinality(S) \in Nat /\ Cardinality(T) \in Nat
  BY NodesFinite
<1> QED
  BY <1>2, <1>3, <1>4, SMT

-------------------------------------------------------------------------------
(***************************************************************************)
(* Type correctness, operation by operation.                               *)
(***************************************************************************)
LEMMA MembershipTypes ==
    ASSUME MembershipTypeOK
    PROVE  /\ StartMembership \/ DestroyMembership \/ StopMembership => MembershipTypeOK'
           /\ \A n \in Nodes : Observe(n) \/ UpdateCapability(n) => MembershipTypeOK'
           /\ UpdateModelPresence \/ PromoteJoining => MembershipTypeOK'
           /\ UpdateLocalRole("participant") => MembershipTypeOK'
           /\ Sweep \/ Tick => MembershipTypeOK'
           /\ UNCHANGED membershipVars => MembershipTypeOK'
<1> USE DEF MembershipTypeOK, MemberStates, Roles, Snapshots, NoMembers
<1>a. StartMembership => MembershipTypeOK'
  BY SMT DEF StartMembership
<1>b. DestroyMembership => MembershipTypeOK'
  <2> SUFFICES ASSUME DestroyMembership PROVE MembershipTypeOK'
    OBVIOUS
  <2>1. snapshot' \in Snapshots
    BY DEF DestroyMembership
  <2>2. membershipRunning' \in BOOLEAN
    BY DEF DestroyMembership
  <2> QED
    BY <2>1, <2>2 DEF DestroyMembership
<1>c. StopMembership => MembershipTypeOK'
  BY DEF StopMembership
<1>2. ASSUME NEW n \in Nodes PROVE Observe(n) => MembershipTypeOK'
  BY SMT DEF Observe, AfterObserve, BumpAndEmit
<1>3. ASSUME NEW n \in Nodes PROVE UpdateCapability(n) => MembershipTypeOK'
  BY SMT DEF UpdateCapability, BumpAndEmit
<1>4. UpdateModelPresence => MembershipTypeOK'
  BY SMT DEF UpdateModelPresence, BumpAndEmit
<1>5. UNCHANGED membershipVars => MembershipTypeOK'
  BY DEF membershipVars
<1>6. PromoteJoining => MembershipTypeOK'
  BY <1>5, SMT DEF PromoteJoining, BumpAndEmit, InState
<1>7. UpdateLocalRole("participant") => MembershipTypeOK'
  <2>1. localNode \in Nodes
    BY NodesAssumption
  <2>2. CASE mstate[localNode] # "absent" /\ role[localNode] # "participant"
    BY <2>1, <2>2, SMT DEF UpdateLocalRole, BumpAndEmit
  <2>3. CASE ~(mstate[localNode] # "absent" /\ role[localNode] # "participant")
    BY <2>3, <1>5 DEF UpdateLocalRole
  <2> QED
    BY <2>2, <2>3
<1>8. Sweep => MembershipTypeOK'
  <2>1. Stale \subseteq Nodes
    BY DEF Stale, InState
  <2>2. Cardinality(Stale) \in Nat
    BY <2>1, NodesFinite
  <2> QED
    BY <2>2, SMT DEF Sweep
<1>9. Tick => MembershipTypeOK'
  BY SMT DEF Tick
<1> QED
  BY <1>a, <1>b, <1>c, <1>2, <1>3, <1>4, <1>5, <1>6, <1>7, <1>8, <1>9

LEMMA ElectionTypes ==
    ASSUME ElectionTypeOK
    PROVE  /\ StartElection \/ StopElection \/ DestroyElection => ElectionTypeOK'
           /\ \A snap \in Snapshots, alive \in SUBSET Nodes :
                 UpdateMembership(snap, alive) => ElectionTypeOK'
           /\ UNCHANGED electionVars => ElectionTypeOK'
<1> USE DEF ElectionTypeOK, Fences, NoFence, NoLeader
<1>1. StartElection => ElectionTypeOK'
  BY SMT DEF StartElection, LoadedTerms
<1>a. StopElection => ElectionTypeOK'
  BY DEF StopElection
<1>b. DestroyElection => ElectionTypeOK'
  <2> SUFFICES ASSUME DestroyElection PROVE ElectionTypeOK'
    OBVIOUS
  <2>1. fence' \in Fences
    BY DEF DestroyElection
  <2>2. electionRunning' \in BOOLEAN
    BY DEF DestroyElection
  <2> QED
    BY <2>1, <2>2 DEF DestroyElection
<1>3. UNCHANGED electionVars => ElectionTypeOK'
  BY DEF electionVars
<1>4. ASSUME NEW n \in Nat, NEW rev \in Nat, Appoint(n, rev),
             lastSnapshotRevision' \in Nat, electionRunning' \in BOOLEAN
      PROVE  ElectionTypeOK'
  BY <1>4, SMT DEF Appoint, StoreTerm
<1>5. ASSUME NEW snap \in Snapshots, NEW alive \in SUBSET Nodes,
             UpdateMembership(snap, alive)
      PROVE  ElectionTypeOK'
  <2>1. CASE Ignores(snap) /\ UNCHANGED electionVars
    BY <2>1, <1>3
  <2>2. CASE /\ ~Ignores(snap) /\ lastSnapshotRevision' = snap.revision
             /\ UNCHANGED electionRunning
             /\ UNCHANGED <<currentTerm, fence, storedTerm, tokens, announced>>
             /\ leader' = NoLeader \/ leader' = leader
    BY <2>2, SMT DEF Snapshots
  <2>3. CASE /\ alive # {} /\ Appoint(Highest(alive), snap.revision)
             /\ lastSnapshotRevision' = snap.revision /\ UNCHANGED electionRunning
    <3>1. Highest(alive) \in Nat
      BY <2>3, HighestIsMaximum, NodesAreNat
    <3> QED
      BY <2>3, <3>1, <1>4 DEF Snapshots
  <2> QED
    BY <1>5, <2>1, <2>2, <2>3 DEF UpdateMembership
<1> QED
  BY <1>1, <1>a, <1>b, <1>3, <1>5

-------------------------------------------------------------------------------
(***************************************************************************)
(* Every step of the control plane is of one of four kinds, as far as the  *)
(* member table and the election are concerned.                            *)
(***************************************************************************)
Emits ==
    /\ revision' = revision + 1
    /\ snapshot' = [revision |-> revision', state |-> mstate']
    /\ UpdateMembership(snapshot', InState(snapshot'.state, "alive"))

Suspects == Sweep /\ UNCHANGED electionVars

Quiet ==
    /\ UNCHANGED <<mstate, revision, snapshot>>
    /\ UNCHANGED electionVars \/ StartElection \/ StopElection \/ DestroyElection

Renews ==
    /\ mstate' = NoMembers
    /\ revision' = 0
    /\ snapshot' = [revision |-> 0, state |-> NoMembers]
    /\ \/ UNCHANGED electionVars /\ boot \in {"down", "terminated", "unled"}
       \/ DestroyElection

(***************************************************************************)
(* The election object lives only in these phases of the runtime.          *)
(***************************************************************************)
ElectionPhase == electionRunning => boot \in {"ready", "withdrawn", "stopping"}

(***************************************************************************)
(* Delivered snapshots are never ahead of the table.                       *)
(***************************************************************************)
NotAhead == snapshot.revision <= revision

LEMMA EmittingStep ==
    ASSUME TypeOK, NotAhead, BumpAndEmit, Forward
    PROVE  Emits
<1>1. snapshot'.revision = revision + 1 /\ revision \in Nat
  BY DEF BumpAndEmit, TypeOK, MembershipTypeOK
<1>2. snapshot' # snapshot
  <2>1. snapshot.revision \in Nat
    BY DEF TypeOK, MembershipTypeOK, Snapshots
  <2> QED
    BY <1>1, <2>1, SMT DEF NotAhead
<1> QED
  BY <1>1, <1>2 DEF Emits, Forward, BumpAndEmit

LEMMA QuietStep ==
    ASSUME UNCHANGED membershipVars, Forward
    PROVE  Quiet
  BY DEF Quiet, Forward, membershipVars

LEMMA StepKinds ==
    ASSUME TypeOK, NotAhead, [Next]_vars
    PROVE  Emits \/ Suspects \/ Quiet \/ Renews
<1>1. CASE UNCHANGED vars
  BY <1>1 DEF vars, membershipVars, Quiet
<1>2. CASE CreateMembership
  BY <1>2 DEF CreateMembership, StartMembership, Renews
<1>3. CASE SelfObserve
  BY <1>3, EmittingStep, QuietStep DEF SelfObserve, Observe
<1>4. CASE SelfPromote
  BY <1>4, EmittingStep, QuietStep DEF SelfPromote, PromoteJoining
<1>5. CASE SelfProfile
  BY <1>5, EmittingStep, QuietStep DEF SelfProfile, UpdateCapability
<1>6. CASE CreateElection
  BY <1>6 DEF CreateElection, membershipVars, Quiet
<1>7. CASE \E n \in Nodes : Hear(n)
  BY <1>7, EmittingStep DEF Hear, Observe
<1>8. CASE LivenessPass
  BY <1>8 DEF LivenessPass, Sweep, Forward, Suspects
<1>9. CASE Time
  BY <1>9 DEF Time, Tick, Quiet
<1>10. CASE HeartbeatCheck
  BY <1>10 DEF HeartbeatCheck, membershipVars, Quiet
<1>11. CASE HeartbeatPromote
  BY <1>11, EmittingStep, QuietStep DEF HeartbeatPromote, PromoteJoining
<1>12. CASE HeartbeatThrows
  BY <1>12 DEF HeartbeatThrows, DestroyMembership, Renews
<1>13. CASE JoinModels
  BY <1>13, EmittingStep DEF JoinModels, UpdateModelPresence
<1>14. CASE JoinRole
  BY <1>14, EmittingStep, QuietStep DEF JoinRole, UpdateLocalRole
<1>15. CASE LeaveMembership
  BY <1>15 DEF LeaveMembership, StopMembership, Quiet
<1>16. CASE LeaveElection
  BY <1>16 DEF LeaveElection, membershipVars, Quiet
<1>17. CASE JoinHeartbeat \/ DiscoveryFails
  BY <1>17 DEF JoinHeartbeat, DiscoveryFails, membershipVars, Quiet
<1>18. CASE ResetElection
  BY <1>18 DEF ResetElection, membershipVars, Quiet
<1>19. CASE ResetMembership
  BY <1>19 DEF ResetMembership, Advance, DestroyMembership, Renews
<1>20. CASE Crash
  BY <1>20 DEF Crash, DestroyMembership, Renews
<1> QED
  BY <1>1, <1>2, <1>3, <1>4, <1>5, <1>6, <1>7, <1>8, <1>9, <1>10, <1>11, <1>12,
     <1>13, <1>14, <1>15, <1>16, <1>17, <1>18, <1>19, <1>20 DEF Next

LEMMA PhaseStep ==
    ASSUME TypeOK, NotAhead, ElectionPhase, [Next]_vars
    PROVE  ElectionPhase'
<1> USE DEF ElectionPhase
<1>1. ASSUME NEW snap, NEW alive, UpdateMembership(snap, alive)
      PROVE  electionRunning' = electionRunning
  BY <1>1 DEF UpdateMembership, electionVars, Appoint
<1>2. Forward => electionRunning' = electionRunning
  BY <1>1 DEF Forward, electionVars
<1>3. CASE UNCHANGED vars
  BY <1>3 DEF vars, electionVars
<1>4. CASE CreateMembership
  BY <1>4 DEF CreateMembership, electionVars
<1>5. CASE SelfObserve \/ SelfPromote \/ SelfProfile
  BY <1>5, <1>2 DEF SelfObserve, SelfPromote, SelfProfile, Advance
<1>6. CASE CreateElection
  BY <1>6 DEF CreateElection, Advance
<1>7. CASE (\E n \in Nodes : Hear(n)) \/ LivenessPass
  BY <1>7, <1>2 DEF Hear, LivenessPass, lifecycleVars
<1>8. CASE Time \/ HeartbeatCheck
  BY <1>8 DEF Time, HeartbeatCheck, lifecycleVars, electionVars
<1>9. CASE HeartbeatPromote \/ JoinModels \/ JoinRole
  BY <1>9, <1>2 DEF HeartbeatPromote, JoinModels, JoinRole
<1>10. CASE HeartbeatThrows \/ Crash
  BY <1>10 DEF HeartbeatThrows, Crash, DestroyElection
<1>11. CASE LeaveMembership
  BY <1>11 DEF LeaveMembership, Advance, electionVars
<1>12. CASE LeaveElection
  BY <1>12 DEF LeaveElection, StopElection
<1>13. CASE JoinHeartbeat \/ DiscoveryFails
  BY <1>13 DEF JoinHeartbeat, DiscoveryFails, Advance, electionVars
<1>14. CASE ResetElection
  BY <1>14 DEF ResetElection, DestroyElection
<1>15. CASE ResetMembership
  BY <1>15 DEF ResetMembership, Advance, electionVars
<1> QED
  BY <1>3, <1>4, <1>5, <1>6, <1>7, <1>8, <1>9, <1>10, <1>11, <1>12, <1>13, <1>14,
     <1>15 DEF Next

LEMMA TypeStep ==
    ASSUME TypeOK, NotAhead, [Next]_vars
    PROVE  TypeOK'
<1>1. MembershipTypeOK'
  <2> USE MembershipTypes DEF TypeOK
  <2>1. localNode \in Nodes
    BY NodesAssumption DEF MembershipTypeOK
  <2>2. CASE UNCHANGED vars
    BY <2>2 DEF vars
  <2>3. CASE CreateMembership \/ SelfObserve \/ SelfPromote \/ SelfProfile \/ CreateElection
    BY <2>1, <2>3 DEF CreateMembership, SelfObserve, SelfPromote, SelfProfile, CreateElection
  <2>4. CASE (\E n \in Nodes : Hear(n)) \/ LivenessPass \/ Time
    BY <2>4 DEF Hear, LivenessPass, Time
  <2>5. CASE HeartbeatCheck \/ HeartbeatPromote \/ HeartbeatThrows \/ JoinModels \/ JoinRole
    BY <2>5 DEF HeartbeatCheck, HeartbeatPromote, HeartbeatThrows, JoinModels, JoinRole
  <2>6. CASE LeaveMembership \/ LeaveElection \/ JoinHeartbeat \/ DiscoveryFails \/ ResetElection
             \/ ResetMembership \/ Crash
    BY <2>6 DEF LeaveMembership, LeaveElection, JoinHeartbeat, DiscoveryFails, ResetElection,
                ResetMembership, Crash
  <2> QED
    BY <2>2, <2>3, <2>4, <2>5, <2>6 DEF Next
<1>2. ElectionTypeOK'
  <2>1. ASSUME UpdateMembership(snapshot', InState(snapshot'.state, "alive"))
        PROVE  ElectionTypeOK'
    <3>1. snapshot' \in Snapshots
      BY <1>1 DEF MembershipTypeOK
    <3>2. InState(snapshot'.state, "alive") \in SUBSET Nodes
      BY DEF InState
    <3> QED
      BY <2>1, <3>1, <3>2, ElectionTypes DEF TypeOK
  <2> QED
    BY <2>1, StepKinds, ElectionTypes DEF TypeOK, Emits, Suspects, Quiet, Renews
<1>3. /\ boot' \in Phases
      /\ boots' \in Nat
      /\ heartbeat' \in {"asleep", "promoting"}
      /\ join' \in {"idle", "role"}
  <2> USE DEF TypeOK, Phases, lifecycleVars, Advance
  <2>1. CASE UNCHANGED vars
    BY <2>1 DEF vars
  <2>2. CASE CreateMembership \/ SelfObserve \/ SelfPromote \/ SelfProfile \/ CreateElection
    BY <2>2, SMT DEF CreateMembership, SelfObserve, SelfPromote, SelfProfile, CreateElection
  <2>3. CASE (\E n \in Nodes : Hear(n)) \/ LivenessPass \/ Time
    BY <2>3 DEF Hear, LivenessPass, Time
  <2>4. CASE HeartbeatCheck \/ HeartbeatPromote \/ HeartbeatThrows \/ JoinModels \/ JoinRole
    BY <2>4 DEF HeartbeatCheck, HeartbeatPromote, HeartbeatThrows, JoinModels, JoinRole
  <2>5. CASE LeaveMembership \/ LeaveElection \/ JoinHeartbeat \/ DiscoveryFails \/ ResetElection
             \/ ResetMembership \/ Crash
    BY <2>5 DEF LeaveMembership, LeaveElection, JoinHeartbeat, DiscoveryFails, ResetElection,
                ResetMembership, Crash
  <2> QED
    BY <2>1, <2>2, <2>3, <2>4, <2>5 DEF Next
<1> QED
  BY <1>1, <1>2, <1>3 DEF TypeOK

-------------------------------------------------------------------------------
(***************************************************************************)
(* What the subscriber has not seen.                                       *)
(***************************************************************************)
LEMMA UnseenStep ==
    ASSUME TypeOK, OnlySuspicionsUnseen, [Next]_vars
    PROVE  OnlySuspicionsUnseen'
<1>1. Unseen \subseteq Nodes /\ Unseen' \subseteq Nodes
  BY DEF Unseen
<1>2. NotAhead
  BY <1>1, NodesFinite, SMT DEF OnlySuspicionsUnseen, NotAhead, TypeOK, MembershipTypeOK, Snapshots
<1>3. TypeOK'
  BY <1>2, TypeStep
<1>4. CASE /\ snapshot' = [revision |-> revision', state |-> mstate']
  <2>1. Unseen' = {}
    BY <1>4 DEF Unseen
  <2>2. Cardinality(Unseen') = 0
    BY <2>1, FS_EmptySet
  <2> QED
    BY <1>3, <1>4, <2>1, <2>2, SMT DEF OnlySuspicionsUnseen, TypeOK, MembershipTypeOK
<1>5. CASE Suspects
  <2>1. Stale \subseteq Nodes /\ \A n \in Stale : mstate[n] = "alive"
    BY DEF Stale, InState
  <2>2. Stale \intersect Unseen = {}
    BY <2>1 DEF OnlySuspicionsUnseen
  <2>3. \A n \in Nodes : mstate'[n] = IF n \in Stale THEN "suspect" ELSE mstate[n]
    BY <1>5 DEF Suspects, Sweep
  <2>4. \A n \in Stale : snapshot.state[n] = "alive"
    BY <2>1, <2>2 DEF Unseen
  <2>5. snapshot' = snapshot /\ revision' = revision + Cardinality(Stale)
    BY <1>5 DEF Suspects, Sweep
  <2>6. Unseen' = Unseen \union Stale
    BY <2>1, <2>3, <2>4, <2>5 DEF Unseen
  <2>7. Cardinality(Unseen') = Cardinality(Unseen) + Cardinality(Stale)
    BY <1>1, <2>1, <2>2, <2>6, DisjointUnion
  <2>8. \A n \in Unseen' : snapshot'.state[n] = "alive" /\ mstate'[n] = "suspect"
    BY <1>1, <2>1, <2>3, <2>4, <2>5, <2>6 DEF OnlySuspicionsUnseen
  <2>9. revision' = snapshot'.revision + Cardinality(Unseen')
    BY <1>1, <2>1, <2>5, <2>7, NodesFinite, SMT
       DEF OnlySuspicionsUnseen, TypeOK, MembershipTypeOK, Snapshots
  <2> QED
    BY <2>8, <2>9 DEF OnlySuspicionsUnseen
<1>6. CASE Quiet
  BY <1>6 DEF Quiet, OnlySuspicionsUnseen, Unseen
<1> QED
  BY <1>2, <1>4, <1>5, <1>6, StepKinds DEF Emits, Renews

-------------------------------------------------------------------------------
(***************************************************************************)
(* The election follows the membership service.                            *)
(***************************************************************************)
NotYetTold == electionRunning /\ lastSnapshotRevision = 0 => leader = NoLeader

ControlInv ==
    /\ TypeOK
    /\ ElectionPhase
    /\ OnlySuspicionsUnseen
    /\ NotYetTold
    /\ LeaderIsHighestAlive
    /\ FenceBelongsToLeader

LEMMA NotAheadFollows ==
    ASSUME TypeOK, OnlySuspicionsUnseen
    PROVE  NotAhead
<1>1. Unseen \subseteq Nodes
  BY DEF Unseen
<1> QED
  BY <1>1, NodesFinite, SMT DEF OnlySuspicionsUnseen, NotAhead, TypeOK, MembershipTypeOK, Snapshots

LEMMA LeaderStep ==
    ASSUME ControlInv, [Next]_vars
    PROVE  NotYetTold' /\ LeaderIsHighestAlive'
<1> USE DEF ControlInv
<1>1. NotAhead /\ TypeOK'
  BY NotAheadFollows, TypeStep
<1>2. CASE Emits
  <2> DEFINE alive == InState(snapshot'.state, "alive")
  <2>1. snapshot'.revision = revision + 1 /\ revision \in Nat /\ snapshot.revision <= revision
    BY <1>1, <1>2 DEF Emits, NotAhead, TypeOK, MembershipTypeOK
  <2>2. snapshot.revision \in Nat /\ lastSnapshotRevision \in Nat
    BY DEF TypeOK, MembershipTypeOK, Snapshots, ElectionTypeOK
  <2>3. CASE electionRunning
    <3>1. ~Ignores(snapshot')
      BY <2>1, <2>2, <2>3, SMT DEF Ignores, LeaderIsHighestAlive
    <3>2. /\ lastSnapshotRevision' = snapshot'.revision
          /\ leader' = IF alive = {} THEN NoLeader ELSE Highest(alive)
      BY <1>2, <3>1 DEF Emits, UpdateMembership, Appoint
    <3>3. lastSnapshotRevision' # 0
      BY <2>1, <3>2, SMT
    <3>4. DeliveredAlive' = alive
      BY DEF DeliveredAlive, InState
    <3> QED
      BY <3>2, <3>3, <3>4 DEF NotYetTold, LeaderIsHighestAlive
  <2>4. CASE ~electionRunning
    BY <1>2, <2>4, SMT DEF Emits, UpdateMembership, Ignores, electionVars, NotYetTold,
                      LeaderIsHighestAlive
  <2> QED
    BY <2>3, <2>4
<1>3. CASE Suspects
  BY <1>3 DEF Suspects, Sweep, electionVars, NotYetTold, LeaderIsHighestAlive,
              DeliveredAlive, InState
<1>4. CASE Quiet
  <2>1. CASE UNCHANGED electionVars
    BY <1>4, <2>1 DEF Quiet, electionVars, NotYetTold, LeaderIsHighestAlive,
                      DeliveredAlive, InState
  <2>2. CASE StartElection
    BY <2>2 DEF StartElection, NotYetTold, LeaderIsHighestAlive
  <2>3. CASE StopElection \/ DestroyElection
    BY <2>3 DEF StopElection, DestroyElection, NotYetTold, LeaderIsHighestAlive
  <2> QED
    BY <1>4, <2>1, <2>2, <2>3 DEF Quiet
<1>5. CASE Renews
  <2>1. CASE DestroyElection
    BY <2>1 DEF DestroyElection, NotYetTold, LeaderIsHighestAlive
  <2>2. CASE UNCHANGED electionVars /\ boot \in {"down", "terminated", "unled"}
    BY <2>2 DEF ElectionPhase, electionVars, NotYetTold, LeaderIsHighestAlive
  <2> QED
    BY <1>5, <2>1, <2>2 DEF Renews
<1> QED
  BY <1>1, <1>2, <1>3, <1>4, <1>5, StepKinds

LEMMA FenceStep ==
    ASSUME ControlInv, [Next]_vars
    PROVE  FenceBelongsToLeader'
<1> USE DEF ControlInv, FenceBelongsToLeader
<1>1. NotAhead /\ TypeOK'
  BY NotAheadFollows, TypeStep
<1>2. CASE Emits
  <2> DEFINE alive == InState(snapshot'.state, "alive")
  <2>1. snapshot'.revision \in Nat /\ lastSnapshotRevision \in Nat /\ fence.revision \in Nat
    BY <1>1 DEF TypeOK, MembershipTypeOK, Snapshots, ElectionTypeOK, Fences
  <2>2. CASE UNCHANGED electionVars
    BY <2>2 DEF electionVars
  <2>3. CASE ~Ignores(snapshot')
    <3>1. lastSnapshotRevision' = snapshot'.revision /\ UNCHANGED electionRunning
      BY <1>2, <2>3 DEF Emits, UpdateMembership
    <3>2. CASE leader' = NoLeader
      BY <3>2
    <3>3. CASE UNCHANGED <<leader, currentTerm, fence, storedTerm, tokens, announced>>
      BY <2>1, <2>3, <3>1, <3>3, SMT DEF Ignores
    <3>4. CASE Appoint(Highest(alive), snapshot'.revision)
      <4>1. /\ fence'.term = currentTerm'
            /\ fence'.token = tokens'
            /\ fence'.revision = snapshot'.revision
        BY <3>4 DEF Appoint
      <4>2. [leader |-> leader', term |-> currentTerm', token |-> tokens'] \in announced'
        BY <3>4 DEF Appoint
      <4>3. fence'.revision <= lastSnapshotRevision'
        BY <2>1, <3>1, <4>1, SMT
      <4> QED
        BY <4>1, <4>2, <4>3
    <3> QED
      BY <1>2, <2>3, <3>2, <3>3, <3>4 DEF Emits, UpdateMembership
  <2> QED
    BY <1>2, <2>2, <2>3 DEF Emits, UpdateMembership
<1>3. CASE UNCHANGED electionVars
  BY <1>3 DEF electionVars
<1>4. CASE StartElection \/ StopElection \/ DestroyElection
  BY <1>4 DEF StartElection, StopElection, DestroyElection
<1> QED
  BY <1>1, <1>2, <1>3, <1>4, StepKinds DEF Suspects, Quiet, Renews

LEMMA ControlInitially ==
    ASSUME Init
    PROVE  ControlInv
<1> USE DEF Init, MembershipInit, ElectionInit, NoFence, NoLeader
<1>1. MembershipTypeOK
  BY DEF MembershipTypeOK, MemberStates, Roles, Snapshots, NoMembers
<1>2. ElectionTypeOK
  BY DEF ElectionTypeOK, Fences
<1>3. TypeOK
  BY <1>1, <1>2 DEF TypeOK, Phases
<1>4. OnlySuspicionsUnseen
  <2>1. Unseen = {}
    BY DEF Unseen
  <2>2. Cardinality(Unseen) = 0
    BY <2>1, FS_EmptySet
  <2> QED
    BY <2>1, <2>2, SMT DEF OnlySuspicionsUnseen
<1> QED
  BY <1>3, <1>4 DEF ControlInv, ElectionPhase, NotYetTold, LeaderIsHighestAlive,
                    FenceBelongsToLeader

LEMMA ControlStep ==
    ASSUME ControlInv, [Next]_vars
    PROVE  ControlInv'
  BY NotAheadFollows, TypeStep, UnseenStep, PhaseStep, LeaderStep, FenceStep
     DEF ControlInv

LEMMA ControlAlways == Spec => []ControlInv
  BY ControlInitially, ControlStep, PTL DEF Spec

-------------------------------------------------------------------------------
(***************************************************************************)
(* The control plane of one node stays type correct.                       *)
(***************************************************************************)
THEOREM TypeCorrect == Spec => []TypeOK
<1>1. ControlInv => TypeOK
  BY DEF ControlInv
<1> QED
  BY <1>1, ControlAlways, PTL

(***************************************************************************)
(* The subscriber of the membership service lacks exactly the suspicions   *)
(* of liveness_loop(), for any number of nodes and any length of run.      *)
(***************************************************************************)
THEOREM SubscriberLacksOnlySuspicions == Spec => []OnlySuspicionsUnseen
<1>1. ControlInv => OnlySuspicionsUnseen
  BY DEF ControlInv
<1> QED
  BY <1>1, ControlAlways, PTL

(***************************************************************************)
(* The leader of BullyElection is the highest member alive in the newest   *)
(* delivered snapshot.                                                     *)
(***************************************************************************)
THEOREM ElectionFollowsMembership == Spec => []LeaderIsHighestAlive
<1>1. ControlInv => LeaderIsHighestAlive
  BY DEF ControlInv
<1> QED
  BY <1>1, ControlAlways, PTL

(***************************************************************************)
(* Whoever leads was admitted, and is alive or suspected.                  *)
(***************************************************************************)
THEOREM LeadersAreAdmitted == Spec => []LeaderWasAdmitted
<1>1. ASSUME ControlInv PROVE LeaderWasAdmitted
  <2> SUFFICES ASSUME electionRunning, leader # NoLeader
               PROVE  mstate[leader] \in {"alive", "suspect"}
    BY DEF LeaderWasAdmitted
  <2>1. DeliveredAlive # {} /\ leader = Highest(DeliveredAlive)
    BY <1>1 DEF ControlInv, NotYetTold, LeaderIsHighestAlive
  <2>2. DeliveredAlive \in SUBSET Nodes
    BY DEF DeliveredAlive, InState
  <2>3. leader \in Nodes /\ snapshot.state[leader] = "alive"
    BY <2>1, <2>2, HighestIsMaximum DEF DeliveredAlive, InState
  <2> QED
    BY <1>1, <2>3 DEF ControlInv, OnlySuspicionsUnseen, Unseen
<1> QED
  BY <1>1, ControlAlways, PTL

(***************************************************************************)
(* The published fence is the one the published leader was announced with. *)
(***************************************************************************)
THEOREM FencesBelongToLeaders == Spec => []FenceBelongsToLeader
<1>1. ControlInv => FenceBelongsToLeader
  BY DEF ControlInv
<1> QED
  BY <1>1, ControlAlways, PTL

(***************************************************************************)
(* A revision of the membership service names one member table.            *)
(***************************************************************************)
THEOREM RevisionsNameMembers == Spec => RevisionNamesMembers
<1> DEFINE Named == \/ revision' > revision
                    \/ revision' = revision /\ UNCHANGED <<mstate, role, capable, models>>
                    \/ ~membershipRunning' /\ mstate' = NoMembers
                    \/ boot \in {"down", "terminated"}
<1>1. ASSUME ControlInv, [Next]_vars PROVE [Named]_vars
  <2>0. revision \in Nat
    BY <1>1 DEF ControlInv, TypeOK, MembershipTypeOK
  <2>1. BumpAndEmit => Named
    BY <2>0, SMT DEF BumpAndEmit
  <2>2. UNCHANGED membershipVars => Named
    BY DEF membershipVars
  <2>3. Sweep => Named
    <3>1. Stale \subseteq Nodes
      BY DEF Stale, InState
    <3>2. Stale # {} => Cardinality(Stale) > 0
      BY <3>1, NodesFinite, SMT
    <3> QED
      BY <2>0, <3>1, <3>2, NodesFinite, SMT DEF Sweep
  <2>4. Tick \/ StopMembership => Named
    BY DEF Tick, StopMembership
  <2>5. DestroyMembership => Named
    BY DEF DestroyMembership
  <2>6. CASE CreateMembership \/ SelfObserve \/ SelfPromote \/ SelfProfile \/ CreateElection
    BY <2>1, <2>2, <2>6 DEF CreateMembership, SelfObserve, Observe, SelfPromote, PromoteJoining,
                            SelfProfile, UpdateCapability, CreateElection
  <2>7. CASE (\E n \in Nodes : Hear(n)) \/ LivenessPass \/ Time
    BY <2>1, <2>3, <2>4, <2>7 DEF Hear, Observe, LivenessPass, Time
  <2>8. CASE HeartbeatCheck \/ HeartbeatPromote \/ HeartbeatThrows \/ JoinModels \/ JoinRole
    BY <2>1, <2>2, <2>5, <2>8
       DEF HeartbeatCheck, HeartbeatPromote, PromoteJoining, HeartbeatThrows, JoinModels,
           UpdateModelPresence, JoinRole, UpdateLocalRole
  <2>9. CASE LeaveMembership \/ LeaveElection \/ JoinHeartbeat \/ DiscoveryFails \/ ResetElection
             \/ ResetMembership \/ Crash
    BY <2>2, <2>4, <2>5, <2>9 DEF LeaveMembership, LeaveElection, JoinHeartbeat, DiscoveryFails, ResetElection,
                                  ResetMembership, Crash
  <2> QED
    BY <1>1, <2>6, <2>7, <2>8, <2>9 DEF Next
<1> QED
  BY <1>1, ControlAlways, PTL DEF Spec, RevisionNamesMembers

-------------------------------------------------------------------------------
(***************************************************************************)
(* While the heartbeat thread runs outside a drain, the election runs.     *)
(***************************************************************************)
ElectionOutlivesHeartbeat == boot \in {"ready", "withdrawn"} => electionRunning

LEMMA ElectionLivesStep ==
    ASSUME ElectionOutlivesHeartbeat, [Next]_vars
    PROVE  ElectionOutlivesHeartbeat'
<1> USE DEF ElectionOutlivesHeartbeat
<1>1. ASSUME NEW snap, NEW alive, UpdateMembership(snap, alive)
      PROVE  electionRunning' = electionRunning
  BY <1>1 DEF UpdateMembership, electionVars, Appoint
<1>2. Forward => electionRunning' = electionRunning
  BY <1>1 DEF Forward, electionVars
<1>3. CASE UNCHANGED vars
  BY <1>3 DEF vars, electionVars
<1>4. CASE CreateMembership \/ SelfObserve \/ SelfPromote \/ SelfProfile \/ DiscoveryFails
  BY <1>4 DEF CreateMembership, SelfObserve, SelfPromote, SelfProfile, DiscoveryFails, Advance
<1>5. CASE CreateElection
  BY <1>5 DEF CreateElection, StartElection
<1>6. CASE (\E n \in Nodes : Hear(n)) \/ LivenessPass
  BY <1>6, <1>2 DEF Hear, LivenessPass, lifecycleVars
<1>7. CASE Time \/ HeartbeatCheck
  BY <1>7 DEF Time, HeartbeatCheck, lifecycleVars, electionVars
<1>8. CASE HeartbeatPromote \/ JoinModels \/ JoinRole
  BY <1>8, <1>2 DEF HeartbeatPromote, JoinModels, JoinRole
<1>9. CASE LeaveMembership
  BY <1>9 DEF LeaveMembership, Advance, electionVars
<1>10. CASE LeaveElection \/ JoinHeartbeat \/ ResetElection \/ ResetMembership
  BY <1>10 DEF LeaveElection, JoinHeartbeat, ResetElection, ResetMembership, Advance
<1>11. CASE HeartbeatThrows \/ Crash
  BY <1>11 DEF HeartbeatThrows, Crash
<1> QED
  BY <1>3, <1>4, <1>5, <1>6, <1>7, <1>8, <1>9, <1>10, <1>11 DEF Next

(***************************************************************************)
(* The uncaught exception that ends the process in the run of              *)
(* NeverTerminated has one way to happen: leave() is draining, with the    *)
(* election stopped and the heartbeat thread not yet joined.  stop(),      *)
(* which does not drain, never ends the process.                           *)
(***************************************************************************)
THEOREM OnlyDrainTerminates ==
    Spec => [][boot' = "terminated" => boot \in {"draining", "terminated"}]_vars
<1> DEFINE FromDrain == boot' = "terminated" => boot \in {"draining", "terminated"}
<1>1. Init => ElectionOutlivesHeartbeat
  BY DEF Init, ElectionOutlivesHeartbeat
<1>2. ASSUME ElectionOutlivesHeartbeat, [Next]_vars PROVE [FromDrain]_vars
  <2>1. CASE HeartbeatThrows
    BY <1>2, <2>1 DEF HeartbeatThrows, HeartbeatAlive, ElectionOutlivesHeartbeat
  <2>2. CASE CreateMembership \/ SelfObserve \/ SelfPromote \/ SelfProfile \/ DiscoveryFails
             \/ CreateElection \/ LeaveMembership \/ LeaveElection \/ JoinHeartbeat
             \/ ResetElection \/ ResetMembership \/ Crash
    BY <2>2 DEF CreateMembership, SelfObserve, SelfPromote, SelfProfile, DiscoveryFails,
                CreateElection, LeaveMembership, LeaveElection, JoinHeartbeat, ResetElection,
                ResetMembership, Crash, Advance
  <2>3. CASE (\E n \in Nodes : Hear(n)) \/ LivenessPass \/ Time \/ HeartbeatCheck
             \/ HeartbeatPromote \/ JoinModels \/ JoinRole
    <3>1. boot' = boot
      BY <2>3 DEF Hear, LivenessPass, Time, HeartbeatCheck, HeartbeatPromote, JoinModels,
                  JoinRole, lifecycleVars
    <3> QED
      BY <3>1
  <2> QED
    BY <1>2, <2>1, <2>2, <2>3 DEF Next
<1> QED
  BY <1>1, <1>2, ElectionLivesStep, PTL DEF Spec

-------------------------------------------------------------------------------
(***************************************************************************)
(* With a term store that keeps its contract.                              *)
(***************************************************************************)
Durable == StoreResults = {"stored"}

TermsCovered ==
    /\ \A a \in announced : a.term <= storedTerm /\ a.token <= tokens
    /\ electionRunning => currentTerm = storedTerm

(***************************************************************************)
(* A step appoints a leader with a fresh term and a fresh token, or it     *)
(* leaves the record of leaderships and the store alone.                   *)
(***************************************************************************)
Appoints ==
    /\ electionRunning /\ electionRunning'
    /\ leader' \in Nodes
    /\ currentTerm' = currentTerm + 1
    /\ tokens' = tokens + 1
    /\ fence'.term = currentTerm' /\ fence'.token = tokens'
    /\ storedTerm' = currentTerm'
    /\ announced' = announced \union
         {[leader |-> leader', term |-> currentTerm', token |-> tokens']}

Keeps ==
    /\ UNCHANGED <<storedTerm, tokens, announced>>
    /\ \/ electionRunning' = electionRunning /\ currentTerm' = currentTerm
       \/ ~electionRunning'
       \/ currentTerm' = storedTerm'
    /\ leader' = NoLeader \/ UNCHANGED <<leader, fence>>

LEMMA AppointsOrKeeps ==
    ASSUME ControlInv, Durable, [Next]_vars
    PROVE  Appoints \/ Keeps
<1>1. UNCHANGED electionVars => Keeps
  BY DEF electionVars, Keeps
<1>2. StartElection => Keeps
  BY DEF StartElection, LoadedTerms, Durable, Keeps
<1>3. StopElection \/ DestroyElection => Keeps
  BY DEF StopElection, DestroyElection, Keeps
<1>4. CASE Emits
  <2> DEFINE alive == InState(snapshot'.state, "alive")
  <2>1. CASE alive # {} /\ Appoint(Highest(alive), snapshot'.revision)
             /\ ~Ignores(snapshot') /\ UNCHANGED electionRunning
    <3>1. alive \in SUBSET Nodes
      BY DEF InState
    <3>2. Highest(alive) \in Nodes
      BY <2>1, <3>1, HighestIsMaximum
    <3>3. storedTerm' = currentTerm'
      BY <2>1 DEF Appoint, StoreTerm, Durable
    <3> QED
      BY <2>1, <3>2, <3>3 DEF Appoint, Ignores, Appoints
  <2>2. CASE /\ UNCHANGED <<electionRunning, currentTerm, fence, storedTerm, tokens, announced>>
             /\ leader' = NoLeader \/ leader' = leader
    BY <2>2 DEF Keeps
  <2> QED
    BY <1>1, <1>4, <2>1, <2>2 DEF Emits, UpdateMembership
<1> QED
  BY <1>1, <1>2, <1>3, <1>4, NotAheadFollows, StepKinds
     DEF ControlInv, Suspects, Quiet, Renews

LEMMA CoveredStep ==
    ASSUME ControlInv, Durable, TermsCovered, [Next]_vars
    PROVE  TermsCovered'
<1> USE DEF TermsCovered
<1>1. storedTerm \in Nat /\ tokens \in Nat
      /\ announced \subseteq [leader : Nat, term : Nat, token : Nat]
  BY DEF ControlInv, TypeOK, ElectionTypeOK
<1>2. CASE Appoints
  BY <1>1, <1>2, SMT DEF Appoints
<1>3. CASE Keeps
  BY <1>3, SMT DEF Keeps
<1> QED
  BY <1>2, <1>3, AppointsOrKeeps

LEMMA CoveredAlways ==
    ASSUME Durable
    PROVE  Spec => [](ControlInv /\ TermsCovered)
<1>1. Init => ControlInv /\ TermsCovered
  BY ControlInitially DEF TermsCovered, Init, ElectionInit
<1>2. ControlInv /\ TermsCovered /\ [Next]_vars => (ControlInv /\ TermsCovered)'
  BY ControlStep, CoveredStep
<1> QED
  BY <1>1, <1>2, PTL DEF Spec

(***************************************************************************)
(* With a durable term store no announcement ever carries a term that was  *)
(* already announced, across restarts and crashes.                         *)
(***************************************************************************)
THEOREM DurableTermsNeverRegress ==
    ASSUME Durable
    PROVE  Spec => TermsNeverRegress
<1> DEFINE Above == \A b \in announced' \ announced : \A a \in announced : a.term < b.term
<1>1. ASSUME ControlInv, TermsCovered, [Next]_vars PROVE [Above]_vars
  <2>1. storedTerm \in Nat /\ announced \subseteq [leader : Nat, term : Nat, token : Nat]
    BY <1>1 DEF ControlInv, TypeOK, ElectionTypeOK
  <2>2. CASE Appoints
    BY <1>1, <2>1, <2>2, SMT DEF Appoints, TermsCovered
  <2>3. CASE Keeps
    BY <2>3 DEF Keeps
  <2> QED
    BY <1>1, <2>2, <2>3, AppointsOrKeeps
<1> QED
  BY <1>1, CoveredAlways, PTL DEF Spec, TermsNeverRegress

(***************************************************************************)
(* With a durable term store a term has one leader and one token.          *)
(***************************************************************************)
THEOREM DurableOneLeaderPerTerm ==
    ASSUME Durable
    PROVE  Spec => []OneLeaderPerTerm
<1>1. Init => OneLeaderPerTerm
  BY DEF Init, ElectionInit, OneLeaderPerTerm
<1>2. ASSUME ControlInv, TermsCovered, OneLeaderPerTerm, [Next]_vars
      PROVE  OneLeaderPerTerm'
  <2>1. storedTerm \in Nat /\ announced \subseteq [leader : Nat, term : Nat, token : Nat]
    BY <1>2 DEF ControlInv, TypeOK, ElectionTypeOK
  <2>2. CASE Appoints
    <3>1. \A a \in announced : a.term # currentTerm'
      BY <1>2, <2>1, <2>2, SMT DEF Appoints, TermsCovered
    <3> QED
      BY <1>2, <2>2, <3>1, SMT DEF Appoints, OneLeaderPerTerm
  <2>3. CASE Keeps
    BY <1>2, <2>3 DEF Keeps, OneLeaderPerTerm
  <2> QED
    BY <1>2, <2>2, <2>3, AppointsOrKeeps
<1> QED
  BY <1>1, <1>2, CoveredAlways, PTL DEF Spec

(***************************************************************************)
(* With a durable term store the control plane implements the fenced lease *)
(* service of Leadership: initial states map to initial states, and every  *)
(* step grants, lapses or stutters.                                        *)
(***************************************************************************)
THEOREM DurableLeaseService ==
    ASSUME Durable
    PROVE  Spec => IsLeaseService
<1>1. Init => LeaseService!Init
  BY DEF Init, ElectionInit, LeaseService!Init, Lease
<1>2. ASSUME ControlInv, TermsCovered, [Next]_vars
      PROVE  [LeaseService!Next]_LeaseService!leadershipVars
  <2>1. storedTerm \in Nat /\ tokens \in Nat
        /\ announced \subseteq [leader : Nat, term : Nat, token : Nat]
    BY <1>2 DEF ControlInv, TypeOK, ElectionTypeOK
  <2>2. CASE Appoints
    <3>1. leader' # NoLeader
      BY <2>2, NodesAreNat DEF Appoints, NoLeader
    <3>2. Lease' = [leader |-> leader', term |-> currentTerm', token |-> tokens']
      BY <2>2, <3>1 DEF Appoints, Lease
    <3>3. Lease' # NoLease
      BY <3>1, <3>2 DEF NoLease
    <3>4. Lease'.term = storedTerm + 1 /\ storedTerm' = Lease'.term
      BY <1>2, <2>2, <3>2 DEF Appoints, TermsCovered
    <3>5. \A g \in announced : g.token # Lease'.token
      BY <1>2, <2>1, <2>2, <3>2, SMT DEF Appoints, TermsCovered
    <3>6. announced' = announced \union {Lease'}
      BY <2>2, <3>2 DEF Appoints
    <3> QED
      BY <2>1, <3>3, <3>4, <3>5, <3>6, SMT DEF LeaseService!Next, LeaseService!Grant
  <2>3. CASE Keeps
    <3>1. CASE leader' = NoLeader
      BY <2>3, <3>1 DEF Keeps, Lease, LeaseService!Next, LeaseService!Lapse
    <3>2. CASE UNCHANGED <<leader, fence>>
      BY <2>3, <3>2 DEF Keeps, Lease, LeaseService!leadershipVars
    <3> QED
      BY <2>3, <3>1, <3>2 DEF Keeps
  <2> QED
    BY <1>2, <2>2, <2>3, AppointsOrKeeps
<1> QED
  BY <1>1, <1>2, CoveredAlways, PTL DEF Spec, IsLeaseService, LeaseService!Spec
===============================================================================
