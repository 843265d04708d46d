------------------------------- MODULE Election -------------------------------
(***************************************************************************)
(* BullyElection (src/cluster/bully_election.cpp): one node's opinion of   *)
(* who leads, drawn from the membership snapshots it is given.  The        *)
(* highest alive id leads; every new choice takes a new term and a new     *)
(* fencing token.                                                          *)
(***************************************************************************)
EXTENDS Naturals, FiniteSets

CONSTANT
    StoreResults   \* what ElectionTermStore::store_term may come to:
                   \* {"stored"} is a store that keeps its contract, {"lost"}
                   \* the InMemoryTermStore of edge_runtime.cpp (load_term is
                   \* always 0), both a store whose failures the election
                   \* does not look at

ASSUME StoreAssumption ==
    /\ StoreResults # {}
    /\ StoreResults \subseteq {"stored", "lost"}

VARIABLES
    electionRunning,       \* running_
    leader,                \* state_.leader_id, NoLeader when empty
    currentTerm,           \* current_term_
    fence,                 \* state_.fence
    lastSnapshotRevision,  \* last_snapshot_revision_
    storedTerm,            \* the term the store would return
    tokens,                \* fencing tokens drawn so far
    announced              \* every leadership the callback was ever told of

electionVars == <<electionRunning, leader, currentTerm, fence,
                  lastSnapshotRevision, storedTerm, tokens, announced>>

NoLeader == 0

Fences == [term : Nat, token : Nat, revision : Nat]
NoFence == [term |-> 0, token |-> 0, revision |-> 0]

ElectionInit ==
    /\ electionRunning = FALSE
    /\ leader = NoLeader
    /\ currentTerm = 0
    /\ fence = NoFence
    /\ lastSnapshotRevision = 0
    /\ storedTerm = 0
    /\ tokens = 0
    /\ announced = {}

(***************************************************************************)
(* make_bully_election() and start(): a failing load_term leaves the fresh *)
(* object's term 0.                                                        *)
(***************************************************************************)
LoadedTerms == {storedTerm} \union (IF "lost" \in StoreResults THEN {0} ELSE {})

MutantStartElectionAtZero ==
    /\ electionRunning' = TRUE
    /\ currentTerm' = 0
    /\ leader' = NoLeader
    /\ fence' = NoFence
    /\ lastSnapshotRevision' = 0
    /\ UNCHANGED <<storedTerm, tokens, announced>>

StartElection ==
    /\ electionRunning' = TRUE
    /\ currentTerm' \in LoadedTerms
    /\ leader' = NoLeader
    /\ fence' = NoFence
    /\ lastSnapshotRevision' = 0
    /\ UNCHANGED <<storedTerm, tokens, announced>>

(***************************************************************************)
(* store_term(): its Result is discarded by the caller.                    *)
(***************************************************************************)
MutantStoreTermBeforeIncrement(term) ==
    \E result \in StoreResults :
        storedTerm' = IF result = "stored" THEN currentTerm ELSE storedTerm

StoreTerm(term) ==
    \E result \in StoreResults :
        storedTerm' = IF result = "stored" THEN term ELSE storedTerm

Highest(ids) == CHOOSE n \in ids : \A m \in ids : m <= n

(***************************************************************************)
(* The part of update_membership() that appoints a leader.  Tokens are 64  *)
(* random bits in the code: here each one drawn is new.                    *)
(***************************************************************************)
MutantAppointOldFence(n, snapRevision) ==
    /\ leader' = n
    /\ currentTerm' = currentTerm + 1
    /\ tokens' = tokens + 1
    /\ fence' = [term |-> currentTerm, token |-> tokens', revision |-> snapRevision]
    /\ StoreTerm(currentTerm')
    /\ announced' = announced \union
         {[leader |-> leader', term |-> currentTerm', token |-> tokens']}

MutantAppointSameTerm(n, snapRevision) ==
    /\ leader' = n
    /\ currentTerm' = IF leader = NoLeader THEN currentTerm + 1 ELSE currentTerm
    /\ tokens' = tokens + 1
    /\ fence' = [term |-> currentTerm', token |-> tokens', revision |-> snapRevision]
    /\ StoreTerm(currentTerm')
    /\ announced' = announced \union
         {[leader |-> leader', term |-> currentTerm', token |-> tokens']}

Appoint(n, snapRevision) ==
    /\ leader' = n
    /\ currentTerm' = currentTerm + 1
    /\ tokens' = tokens + 1
    /\ fence' = [term |-> currentTerm', token |-> tokens', revision |-> snapRevision]
    /\ StoreTerm(currentTerm')
    /\ announced' = announced \union
         {[leader |-> leader', term |-> currentTerm', token |-> tokens']}

Ignores(snap) == ~electionRunning \/ snap.revision < lastSnapshotRevision

(***************************************************************************)
(* update_membership(): a stopped election returns, an older revision      *)
(* throws kDataLoss (its caller swallows it).  Otherwise the highest alive *)
(* id is appointed unless it leads already; with nobody alive the leader   *)
(* is dropped and the fence stays as it is.                                *)
(***************************************************************************)
MutantUpdateMembershipKeepsLast(snap, alive) ==
    \/ /\ Ignores(snap)
       /\ UNCHANGED electionVars
    \/ /\ ~Ignores(snap)
       /\ lastSnapshotRevision' = snap.revision
       /\ UNCHANGED electionRunning
       /\ IF IF alive = {} THEN TRUE ELSE leader = Highest(alive)
          THEN UNCHANGED <<leader, currentTerm, fence, storedTerm, tokens, announced>>
          ELSE Appoint(Highest(alive), snap.revision)

UpdateMembership(snap, alive) ==
    \/ /\ Ignores(snap)
       /\ UNCHANGED electionVars
    \/ /\ ~Ignores(snap)
       /\ lastSnapshotRevision' = snap.revision
       /\ UNCHANGED electionRunning
       /\ \/ /\ alive = {}
             /\ leader' = NoLeader
             /\ UNCHANGED <<currentTerm, fence, storedTerm, tokens, announced>>
          \/ /\ alive # {}
             /\ leader = Highest(alive)
             /\ UNCHANGED <<leader, currentTerm, fence, storedTerm, tokens, announced>>
          \/ /\ alive # {}
             /\ leader # Highest(alive)
             /\ Appoint(Highest(alive), snap.revision)

(***************************************************************************)
(* stop(): state_ survives, current() throws from here on.                 *)
(***************************************************************************)
StopElection ==
    /\ electionRunning' = FALSE
    /\ UNCHANGED <<leader, currentTerm, fence, lastSnapshotRevision, storedTerm,
                   tokens, announced>>

(***************************************************************************)
(* The object is gone: election_.reset(), or the process died.  The term   *)
(* store and what was announced remain.                                    *)
(***************************************************************************)
DestroyElection ==
    /\ electionRunning' = FALSE
    /\ leader' = NoLeader
    /\ currentTerm' = 0
    /\ fence' = NoFence
    /\ lastSnapshotRevision' = 0
    /\ UNCHANGED <<storedTerm, tokens, announced>>

ElectionTypeOK ==
    /\ electionRunning \in BOOLEAN
    /\ leader \in Nat
    /\ currentTerm \in Nat
    /\ fence \in Fences
    /\ lastSnapshotRevision \in Nat
    /\ storedTerm \in Nat
    /\ tokens \in Nat
    /\ announced \subseteq [leader : Nat, term : Nat, token : Nat]
===============================================================================
