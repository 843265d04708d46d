------------------------------ MODULE Leadership ------------------------------
(***************************************************************************)
(* What leader election promises the rest of the runtime, without saying   *)
(* how (include/socrates/cluster/leader_election.h and the fence rules of  *)
(* docs/ENGINE_BLUEPRINT.md): at any time at most one lease is out, every  *)
(* lease ever granted carries a term above all earlier ones and a token    *)
(* never used before, and a lease may lapse at any time.                   *)
(***************************************************************************)
EXTENDS Naturals

CONSTANT NoLease

VARIABLES
    lease,    \* the lease that is out: [leader, term, token], or NoLease
    granted,  \* every lease granted so far
    floor     \* the highest term granted

leadershipVars == <<lease, granted, floor>>

Init ==
    /\ lease = NoLease
    /\ granted = {}
    /\ floor = 0

Grant ==
    /\ lease' # NoLease
    /\ lease'.term > floor
    /\ \A g \in granted : g.token # lease'.token
    /\ granted' = granted \union {lease'}
    /\ floor' = lease'.term

Lapse ==
    /\ lease' = NoLease
    /\ UNCHANGED <<granted, floor>>

Next == Grant \/ Lapse

Spec == Init /\ [][Next]_leadershipVars
===============================================================================
