------------------------------ MODULE StageProofs ------------------------------
(***************************************************************************)
(* Proofs about StageExecution, for any number of workers, any plans, any  *)
(* backends and artifacts and either transport.                            *)
(***************************************************************************)
EXTENDS StageExecution, TLAPS

(* Zenon proves every leaf that cites no other prover; SMT is cited where  *)
(* arithmetic, records or function updates take part.                      *)
USE ZenonT(20)

PlanStages == UNION {{p[i] : i \in DOMAIN p} : p \in Plans}

(***************************************************************************)
(* What the worker threads rely on without saying so: a worker stays       *)
(* inside its plan, and inside a pass it has a token left to produce.      *)
(***************************************************************************)
InPlan ==
    /\ plan \in [Workers -> Plans]
    /\ \A w \in Workers : at[w] \in DOMAIN plan[w]
    /\ loads \in Seq(PlanStages)

InBudget ==
    \A w \in Workers : pc[w] \notin {"loop", "ended"} => tokens[w] < MaxTokens

(***************************************************************************)
(* Between acquire() and the end of load_model the shard is leased and no  *)
(* session has it yet.                                                     *)
(***************************************************************************)
LoadingIsNew ==
    \A w \in Workers :
        pc[w] = "load" =>
            /\ Stage(w).shard \in leases
            /\ \A i \in DOMAIN loads : loads[i].shard # Stage(w).shard

StageInv ==
    /\ TypeOK
    /\ InPlan
    /\ InBudget
    /\ LoadingIsNew
    /\ SessionsOwnShards

LEMMA StageOfPlan ==
    ASSUME InPlan, NEW w \in Workers
    PROVE  /\ Stage(w) \in PlanStages
           /\ Len(plan[w]) \in Nat \ {0}
           /\ DOMAIN plan[w] = 1..Len(plan[w])
           /\ at[w] \in 1..Len(plan[w])
<1>1. plan[w] \in Plans /\ at[w] \in DOMAIN plan[w]
  BY DEF InPlan
<1>2. Len(plan[w]) \in Nat \ {0} /\ DOMAIN plan[w] = 1..Len(plan[w])
  BY <1>1, StageAssumption
<1>3. Stage(w) \in PlanStages
  BY <1>1, SMT DEF Stage, PlanStages
<1> QED
  BY <1>1, <1>2, <1>3

LEMMA Initially ==
    ASSUME Init
    PROVE  StageInv
<1> USE DEF Init
<1>1. TypeOK
  BY StageAssumption, SMT DEF TypeOK, PcStates
<1>2. InPlan
  <2>1. \A w \in Workers : plan[w] \in Plans
    OBVIOUS
  <2>2. ASSUME NEW w \in Workers PROVE 1 \in DOMAIN plan[w]
    <3>1. Len(plan[w]) \in Nat \ {0} /\ DOMAIN plan[w] = 1..Len(plan[w])
      BY <2>1, StageAssumption
    <3> QED
      BY <3>1, SMT
  <2>3. loads \in Seq(PlanStages)
    BY SMT
  <2> QED
    BY <2>2, <2>3 DEF InPlan
<1>3. InBudget /\ LoadingIsNew /\ SessionsOwnShards
  BY SMT DEF InBudget, LoadingIsNew, SessionsOwnShards
<1> QED
  BY <1>1, <1>2, <1>3 DEF StageInv

(***************************************************************************)
(* TypeOK in two parts: the workers with their mutexes, and the flags.     *)
(***************************************************************************)
LocksHeld ==
    /\ pc \in [Workers -> PcStates]
    /\ at \in [Workers -> Nat \ {0}]
    /\ tokens \in [Workers -> 0..MaxTokens]
    /\ leases \subseteq Artifacts
    /\ \A w \in Workers : (sessionsLock = w) = (pc[w] \in {"acquire", "load"})
    /\ \A w \in Workers : (wireLock = w) = (pc[w] = "await")

LEMMA LockStep ==
    ASSUME LocksHeld, InPlan, InBudget, NEW w \in Workers,
           Cancel(w) \/ LocalWork(w) \/ CallFails(w) \/ CallWaits(w) \/ ConnectionLost(w)
    PROVE  LocksHeld'
<1> USE StageAssumption DEF LocksHeld, PcStates, Step, local, locks, Unlock
<1>1. CASE Cancel(w)
  BY <1>1 DEF Cancel
<1>2. CASE BeginPass(w)
  BY <1>2, SMT DEF BeginPass
<1>3. CASE LeaveLoop(w)
  BY <1>3, SMT DEF LeaveLoop
<1>16. CASE StopMidPass(w)
  BY <1>16, SMT DEF StopMidPass
<1>4. CASE GoLocal(w)
  BY <1>4, SMT DEF GoLocal
<1>17. CASE GoRemote(w)
  BY <1>17, SMT DEF GoRemote
<1>5. CASE FindLoaded(w)
  BY <1>5, SMT DEF FindLoaded
<1>6. CASE FindMissing(w)
  BY <1>6, SMT DEF FindMissing
<1>7. CASE Acquire(w)
  BY <1>7 DEF Acquire, Grants
<1>8. CASE RefuseLease(w)
  <2>1. sessionsLock = w /\ \A v \in Workers : v # w => pc[v] \notin {"acquire", "load"}
    BY <1>8 DEF RefuseLease
  <2>2. \A v \in Workers : (sessionsLock' = v) = (pc'[v] \in {"acquire", "load"})
    BY <1>8, <2>1, SMT DEF RefuseLease
  <2>3. \A v \in Workers : (wireLock' = v) = (pc'[v] = "await")
    BY <1>8 DEF RefuseLease
  <2> QED
    BY <1>8, <2>2, <2>3 DEF RefuseLease
<1>9. CASE LoadModel(w)
  <2>1. sessionsLock = w /\ \A v \in Workers : v # w => pc[v] \notin {"acquire", "load"}
    BY <1>9 DEF LoadModel
  <2>2. \A v \in Workers : (sessionsLock' = v) = (pc'[v] \in {"acquire", "load"})
    BY <1>9, <2>1, SMT DEF LoadModel
  <2>3. \A v \in Workers : (wireLock' = v) = (pc'[v] = "await")
    BY <1>9 DEF LoadModel
  <2> QED
    BY <1>9, <2>2, <2>3 DEF LoadModel
<1>10. CASE LoadFails(w)
  <2>1. sessionsLock = w /\ \A v \in Workers : v # w => pc[v] \notin {"acquire", "load"}
    BY <1>10 DEF LoadFails
  <2>2. \A v \in Workers : (sessionsLock' = v) = (pc'[v] \in {"acquire", "load"})
    BY <1>10, <2>1, SMT DEF LoadFails
  <2>3. \A v \in Workers : (wireLock' = v) = (pc'[v] = "await")
    BY <1>10 DEF LoadFails
  <2> QED
    BY <1>10, <2>2, <2>3 DEF LoadFails
<1>11. CASE RunLayers(w)
  <2>1. at[w] \in Nat /\ tokens[w] < MaxTokens
    BY <1>11 DEF RunLayers, InBudget
  <2>2. tokens[w] + 1 \in 0..MaxTokens /\ at[w] + 1 \in Nat \ {0}
    BY <2>1, SMT
  <2>3. at' \in [Workers -> Nat \ {0}]
    BY <1>11, <2>2, SMT DEF RunLayers
  <2>4. tokens' \in [Workers -> 0..MaxTokens]
    BY <1>11, <2>2, SMT DEF RunLayers
  <2>5. pc[w] = "run" /\ (pc' = [pc EXCEPT ![w] = "stage"] \/ pc' = [pc EXCEPT ![w] = "loop"])
    BY <1>11 DEF RunLayers
  <2>6. UNCHANGED <<sessionsLock, wireLock, leases>>
    BY <1>11 DEF RunLayers
  <2>7. \A v \in Workers : (sessionsLock' = v) = (pc'[v] \in {"acquire", "load"})
    BY <2>5, <2>6, SMT
  <2>8. \A v \in Workers : (wireLock' = v) = (pc'[v] = "await")
    <3>1. \A v \in Workers : (wireLock = v) = (pc[v] = "await")
      OBVIOUS
    <3>2. \A v \in Workers : (pc'[v] = "await") = (pc[v] = "await")
      BY <2>5
    <3> QED
      BY <2>6, <3>1, <3>2
  <2>9. pc' \in [Workers -> PcStates]
    BY <2>5
  <2> QED
    BY <2>3, <2>4, <2>6, <2>7, <2>8, <2>9
<1>12. CASE RunFails(w)
  BY <1>12, SMT DEF RunFails
<1>13. CASE CallFails(w)
  BY <1>13, SMT DEF CallFails
<1>14. CASE CallWaits(w)
  <2>1. \A v \in Workers : (wireLock' = v) = (pc'[v] = "await")
    BY <1>14 DEF CallWaits
  <2>2. \A v \in Workers : (sessionsLock' = v) = (pc'[v] \in {"acquire", "load"})
    BY <1>14, SMT DEF CallWaits
  <2> QED
    BY <1>14, <2>1, <2>2 DEF CallWaits
<1>15. CASE ConnectionLost(w)
  <2>1. wireLock = w /\ \A v \in Workers : v # w => pc[v] # "await"
    BY <1>15, SMT DEF ConnectionLost
  <2>2. \A v \in Workers : (wireLock' = v) = (pc'[v] = "await")
    BY <1>15, <2>1, SMT DEF ConnectionLost
  <2>3. \A v \in Workers : (sessionsLock' = v) = (pc'[v] \in {"acquire", "load"})
    BY <1>15, SMT DEF ConnectionLost
  <2> QED
    BY <1>15, <2>2, <2>3 DEF ConnectionLost
<1> QED
  BY <1>1, <1>2, <1>3, <1>4, <1>5, <1>6, <1>7, <1>8, <1>9, <1>10, <1>11, <1>12,
     <1>13, <1>14, <1>15, <1>16, <1>17 DEF LocalWork

LEMMA FlagStep ==
    ASSUME TypeOK, LoadingIsNew, NEW w \in Workers,
           Cancel(w) \/ LocalWork(w) \/ CallFails(w) \/ CallWaits(w) \/ ConnectionLost(w)
    PROVE  stopped' \in [Workers -> {"no", "inactive", "token"}] /\ failed' \subseteq leases'
<1> USE DEF TypeOK
<1>1. CASE Cancel(w)
  <2>1. PICK how \in {"inactive", "token"} : stopped' = [stopped EXCEPT ![w] = how]
    BY <1>1 DEF Cancel
  <2>2. stopped' \in [Workers -> {"no", "inactive", "token"}]
    BY <2>1
  <2> QED
    BY <1>1, <2>2 DEF Cancel
<1>2. CASE LoadFails(w)
  BY <1>2 DEF LoadFails, Step, LoadingIsNew
<1>3. CASE Acquire(w)
  BY <1>3 DEF Acquire
<1>4. CASE UNCHANGED <<stopped, failed, leases>>
  BY <1>4
<1> QED
  BY <1>1, <1>2, <1>3, <1>4 DEF LocalWork, BeginPass, LeaveLoop, StopMidPass, GoLocal,
       GoRemote, FindLoaded, FindMissing, RefuseLease, LoadModel, RunLayers, RunFails,
       CallFails, CallWaits, ConnectionLost

LEMMA TypeStep ==
    ASSUME TypeOK, InPlan, InBudget, LoadingIsNew, NEW w \in Workers,
           Cancel(w) \/ LocalWork(w) \/ CallFails(w) \/ CallWaits(w) \/ ConnectionLost(w)
    PROVE  TypeOK'
<1>1. LocksHeld
  BY DEF TypeOK, LocksHeld
<1>2. LocksHeld'
  BY <1>1, LockStep
<1> QED
  BY <1>2, FlagStep DEF TypeOK, LocksHeld

LEMMA PlanKept ==
    ASSUME NEW w \in Workers,
           Cancel(w) \/ LocalWork(w) \/ CallFails(w) \/ CallWaits(w) \/ ConnectionLost(w)
    PROVE  plan' = plan
  BY DEF local, LocalWork, Cancel, BeginPass, LeaveLoop, StopMidPass, GoLocal, GoRemote,
         FindLoaded, FindMissing, Acquire, RefuseLease, LoadModel, LoadFails, RunLayers,
         RunFails, CallFails, CallWaits, ConnectionLost

LEMMA PlanStep ==
    ASSUME TypeOK, InPlan, NEW w \in Workers,
           Cancel(w) \/ LocalWork(w) \/ CallFails(w) \/ CallWaits(w) \/ ConnectionLost(w)
    PROVE  InPlan'
<1> USE DEF local, locks
<1>1. plan' = plan
  BY PlanKept
<1>2. \A v \in Workers : at'[v] \in DOMAIN plan[v]
  <2>1. at \in [Workers -> Nat \ {0}] /\ \A v \in Workers : at[v] \in DOMAIN plan[v]
    BY DEF TypeOK, InPlan
  <2>2. CASE UNCHANGED at
    BY <2>1, <2>2
  <2>3. CASE BeginPass(w)
    <3>1. 1 \in DOMAIN plan[w]
      BY StageOfPlan, SMT
    <3> QED
      BY <2>1, <2>3, <3>1 DEF BeginPass
  <2>4. CASE RunLayers(w) /\ at[w] < Len(plan[w])
    <3>1. at[w] + 1 \in DOMAIN plan[w]
      BY <2>4, StageOfPlan, SMT
    <3> QED
      BY <2>1, <2>4, <3>1 DEF RunLayers
  <2> QED
    BY <2>2, <2>3, <2>4 DEF LocalWork, Cancel, LeaveLoop, StopMidPass, GoLocal, GoRemote,
         FindLoaded, FindMissing, Acquire, RefuseLease, LoadModel, LoadFails, RunLayers,
         RunFails, CallFails, CallWaits, ConnectionLost
<1>3. loads' \in Seq(PlanStages)
  <2>1. CASE UNCHANGED loads
    BY <2>1 DEF InPlan
  <2>2. CASE LoadModel(w)
    BY <2>2, StageOfPlan, SMT DEF LoadModel, InPlan
  <2> QED
    BY <2>1, <2>2 DEF LocalWork, Cancel, BeginPass, LeaveLoop, StopMidPass, GoLocal, GoRemote,
         FindLoaded, FindMissing, Acquire, RefuseLease, LoadFails, RunLayers, RunFails,
         CallFails, CallWaits, ConnectionLost
<1> QED
  BY <1>1, <1>2, <1>3 DEF InPlan

LEMMA BudgetStep ==
    ASSUME TypeOK, InBudget, NEW w \in Workers,
           Cancel(w) \/ LocalWork(w) \/ CallFails(w) \/ CallWaits(w) \/ ConnectionLost(w)
    PROVE  InBudget'
<1> USE StageAssumption DEF InBudget, TypeOK, Step
<1>1. CASE BeginPass(w)
  BY <1>1 DEF BeginPass, MayPass
<1>2. CASE RunLayers(w)
  <2>1. CASE at[w] < Len(plan[w])
    BY <1>2, <2>1 DEF RunLayers
  <2>2. CASE ~(at[w] < Len(plan[w]))
    BY <1>2, <2>2, SMT DEF RunLayers
  <2> QED
    BY <2>1, <2>2
<1>3. CASE ~BeginPass(w) /\ ~RunLayers(w)
  <2>1. UNCHANGED tokens
    BY <1>3 DEF LocalWork, Cancel, LeaveLoop, StopMidPass, GoLocal, GoRemote, FindLoaded,
         FindMissing, Acquire, RefuseLease, LoadModel, LoadFails, RunFails,
         CallFails, CallWaits, ConnectionLost
  <2>2. \A v \in Workers : pc'[v] \notin {"loop", "ended"} => pc[v] \notin {"loop", "ended"}
    BY <1>3, SMT DEF LocalWork, Cancel, LeaveLoop, StopMidPass, GoLocal, GoRemote, FindLoaded,
         FindMissing, Acquire, RefuseLease, LoadModel, LoadFails, RunFails,
         CallFails, CallWaits, ConnectionLost
  <2> QED
    BY <2>1, <2>2
<1> QED
  BY <1>1, <1>2, <1>3

(***************************************************************************)
(* Only acquire() adds leases, only load_model adds a session, and only    *)
(* one worker at a time is between the two.                                *)
(***************************************************************************)
LEMMA OneLoader ==
    ASSUME TypeOK, NEW v \in Workers, NEW w \in Workers,
           pc[v] \in {"acquire", "load"}, pc[w] \in {"acquire", "load"}
    PROVE  v = w
  BY DEF TypeOK

LEMMA LoadStep ==
    ASSUME StageInv, NEW w \in Workers, LoadModel(w)
    PROVE  LoadingIsNew' /\ SessionsOwnShards'
<1> USE DEF StageInv
<1>1. pc[w] = "load" /\ pc' = [pc EXCEPT ![w] = "run"] /\ loads' = Append(loads, Stage(w))
      /\ leases' = leases
  BY DEF LoadModel, Step
<1>2. \A v \in Workers : pc'[v] # "load"
  BY <1>1, OneLoader DEF TypeOK
<1>3. Stage(w).shard \in leases /\ \A i \in DOMAIN loads : loads[i].shard # Stage(w).shard
  BY <1>1 DEF LoadingIsNew
<1>4. loads \in Seq(PlanStages) /\ Stage(w) \in PlanStages
  BY StageOfPlan DEF InPlan
<1>5. /\ DOMAIN loads' = 1..(Len(loads) + 1) /\ DOMAIN loads = 1..Len(loads)
      /\ Len(loads) \in Nat
      /\ \A i \in 1..Len(loads) : loads'[i] = loads[i]
      /\ loads'[Len(loads) + 1] = Stage(w)
  BY <1>1, <1>4, SMT
<1>6. SessionsOwnShards'
  BY <1>1, <1>3, <1>5, SMT DEF SessionsOwnShards
<1> QED
  BY <1>2, <1>6 DEF LoadingIsNew

LEMMA AcquireStep ==
    ASSUME StageInv, NEW w \in Workers, Acquire(w)
    PROVE  LoadingIsNew' /\ SessionsOwnShards'
<1> USE DEF StageInv
<1>1. /\ pc[w] = "acquire" /\ pc' = [pc EXCEPT ![w] = "load"]
      /\ loads' = loads /\ leases' = leases \union {Stage(w).shard}
      /\ plan' = plan /\ at' = at
      /\ Stage(w).shard \notin leases
  BY DEF Acquire, Step, Grants, local
<1>2. \A v \in Workers : pc'[v] = "load" => v = w
  BY <1>1, OneLoader DEF TypeOK
<1>3. \A i \in DOMAIN loads : loads[i].shard # Stage(w).shard
  BY <1>1 DEF SessionsOwnShards
<1>4. Stage(w)' = Stage(w)
  BY <1>1 DEF Stage
<1> QED
  BY <1>1, <1>2, <1>3, <1>4 DEF LoadingIsNew, SessionsOwnShards

LEMMA OtherStep ==
    ASSUME StageInv, NEW w \in Workers, ~LoadModel(w), ~Acquire(w),
           Cancel(w) \/ LocalWork(w) \/ CallFails(w) \/ CallWaits(w) \/ ConnectionLost(w)
    PROVE  /\ UNCHANGED <<loads, leases>>
           /\ \A v \in Workers : pc'[v] = "load" => pc[v] = "load" /\ at'[v] = at[v]
<1>0. pc \in [Workers -> PcStates] /\ at \in [Workers -> Nat \ {0}]
  BY DEF StageInv, TypeOK
<1> USE <1>0 DEF Step, locks, local
<1>1. CASE RunLayers(w)
  <2>1. pc[w] = "run" /\ pc' \in {[pc EXCEPT ![w] = "stage"], [pc EXCEPT ![w] = "loop"]}
    BY <1>1 DEF RunLayers
  <2>2. at' = at \/ at' = [at EXCEPT ![w] = @ + 1]
    BY <1>1 DEF RunLayers
  <2>3. UNCHANGED <<loads, leases>>
    BY <1>1 DEF RunLayers
  <2> QED
    BY <2>1, <2>2, <2>3
<1>2. CASE BeginPass(w)
  BY <1>2 DEF BeginPass
<1>3. CASE FindLoaded(w)
  BY <1>3 DEF FindLoaded
<1>4. CASE FindMissing(w)
  BY <1>4 DEF FindMissing
<1>5. CASE Cancel(w)
  BY <1>5 DEF Cancel
<1>6. CASE LeaveLoop(w)
  BY <1>6 DEF LeaveLoop
<1>7. CASE StopMidPass(w)
  BY <1>7 DEF StopMidPass
<1>8. CASE GoLocal(w)
  BY <1>8 DEF GoLocal
<1>9. CASE GoRemote(w)
  BY <1>9 DEF GoRemote
<1>10. CASE RefuseLease(w)
  BY <1>10 DEF RefuseLease
<1>11. CASE LoadFails(w)
  BY <1>11 DEF LoadFails
<1>12. CASE RunFails(w)
  BY <1>12 DEF RunFails
<1>13. CASE CallFails(w)
  BY <1>13 DEF CallFails
<1>14. CASE CallWaits(w)
  BY <1>14 DEF CallWaits
<1>15. CASE ConnectionLost(w)
  BY <1>15 DEF ConnectionLost
<1> QED
  BY <1>1, <1>2, <1>3, <1>4, <1>5, <1>6, <1>7, <1>8, <1>9, <1>10, <1>11, <1>12, <1>13,
     <1>14, <1>15 DEF LocalWork

LEMMA StageStep ==
    ASSUME StageInv, [Next]_vars
    PROVE  StageInv'
<1> USE DEF StageInv
<1>1. CASE UNCHANGED vars
  BY <1>1, SMT DEF vars, TypeOK, InPlan, InBudget, LoadingIsNew, SessionsOwnShards, Stage
<1>2. ASSUME NEW w \in Workers,
             Cancel(w) \/ LocalWork(w) \/ CallFails(w) \/ CallWaits(w) \/ ConnectionLost(w)
      PROVE  StageInv'
  <2>1. TypeOK' /\ InPlan' /\ InBudget'
    BY <1>2, TypeStep, PlanStep, BudgetStep
  <2>2. plan' = plan
    BY <1>2, PlanKept
  <2>3. LoadingIsNew' /\ SessionsOwnShards'
    <3>1. CASE LoadModel(w)
      BY <3>1, LoadStep
    <3>2. CASE Acquire(w)
      BY <3>2, AcquireStep
    <3>3. CASE ~LoadModel(w) /\ ~Acquire(w)
      <4>1. UNCHANGED <<loads, leases>>
        BY <1>2, <3>3, OtherStep
      <4>2. \A v \in Workers : pc'[v] = "load" => pc[v] = "load" /\ Stage(v)' = Stage(v)
        BY <1>2, <2>2, <3>3, OtherStep DEF Stage
      <4> QED
        BY <4>1, <4>2 DEF LoadingIsNew, SessionsOwnShards
    <3> QED
      BY <3>1, <3>2, <3>3
  <2> QED
    BY <2>1, <2>3
<1> QED
  BY <1>1, <1>2 DEF Next

LEMMA StageAlways == Spec => []StageInv
  BY Initially, StageStep, PTL DEF Spec

(***************************************************************************)
(* Stage execution keeps its types, and each of the two mutexes is held by *)
(* exactly the worker that is inside it (ensure_session_loaded, send_unary)*)
(* for any number of workers.                                              *)
(***************************************************************************)
THEOREM StagesTypeCorrect == Spec => []TypeOK
<1>1. StageInv => TypeOK
  BY DEF StageInv
<1> QED
  BY <1>1, StageAlways, PTL

(***************************************************************************)
(* Whatever loads fail and whoever is cancelled, every session of          *)
(* ensure_session_loaded has its own lease and no shard is loaded twice.   *)
(***************************************************************************)
THEOREM SessionsKeepTheirShards == Spec => []SessionsOwnShards
<1>1. StageInv => SessionsOwnShards
  BY DEF StageInv
<1> QED
  BY <1>1, StageAlways, PTL

-------------------------------------------------------------------------------
(***************************************************************************)
(* Why a lease is taken: a session holds it, a load of it failed, or the   *)
(* owner of sessions_mutex_ is loading it; and that owner looked at the    *)
(* cache itself.                                                           *)
(***************************************************************************)
LeasesAccounted ==
    \A s \in leases :
        \/ s \in failed
        \/ \E i \in DOMAIN loads : loads[i].shard = s
        \/ \E w \in Workers : pc[w] = "load" /\ Stage(w).shard = s

MissedCache == \A w \in Workers : pc[w] = "acquire" => ~Cached(Stage(w))

CauseInv == LeasesAccounted /\ MissedCache

LEMMA CauseLoads ==
    ASSUME StageInv, CauseInv, NEW w \in Workers, LoadModel(w)
    PROVE  CauseInv'
<1> USE DEF StageInv
<1>1. /\ pc[w] = "load" /\ pc' = [pc EXCEPT ![w] = "run"] /\ loads' = Append(loads, Stage(w))
      /\ leases' = leases /\ failed' = failed
  BY DEF LoadModel, Step
<1>2. loads \in Seq(PlanStages) /\ Stage(w) \in PlanStages
  BY StageOfPlan DEF InPlan
<1>3. /\ DOMAIN loads' = 1..(Len(loads) + 1) /\ DOMAIN loads = 1..Len(loads)
      /\ Len(loads) \in Nat
      /\ \A i \in 1..Len(loads) : loads'[i] = loads[i]
      /\ loads'[Len(loads) + 1] = Stage(w)
  BY <1>1, <1>2, SMT
<1>4. \A v \in Workers : pc[v] = "load" => v = w
  BY <1>1, OneLoader
<1>5. \A v \in Workers : pc'[v] # "acquire"
  BY <1>1, OneLoader DEF TypeOK
<1>6. \A i \in DOMAIN loads : i \in DOMAIN loads' /\ loads'[i] = loads[i]
  BY <1>3, SMT
<1>7. Len(loads) + 1 \in DOMAIN loads'
  BY <1>3, SMT
<1>8. LeasesAccounted'
  <2>1. SUFFICES ASSUME NEW s \in leases
                 PROVE  s \in failed \/ \E i \in DOMAIN loads' : loads'[i].shard = s
    BY <1>1 DEF LeasesAccounted
  <2>2. CASE \E i \in DOMAIN loads : loads[i].shard = s
    BY <1>6, <2>2
  <2>3. CASE Stage(w).shard = s
    BY <1>3, <1>7, <2>3
  <2> QED
    BY <1>4, <2>2, <2>3 DEF CauseInv, LeasesAccounted
<1> QED
  BY <1>5, <1>8 DEF CauseInv, MissedCache

LEMMA CauseFails ==
    ASSUME StageInv, CauseInv, NEW w \in Workers, LoadFails(w)
    PROVE  CauseInv'
<1> USE DEF StageInv
<1>1. /\ pc[w] = "load" /\ pc' = [pc EXCEPT ![w] = "ended"] /\ loads' = loads
      /\ leases' = leases /\ failed' = failed \union {Stage(w).shard}
  BY DEF LoadFails, Step
<1>2. \A v \in Workers : pc[v] = "load" => v = w
  BY <1>1, OneLoader
<1>3. \A v \in Workers : pc'[v] # "acquire"
  BY <1>1, OneLoader DEF TypeOK
<1>4. LeasesAccounted'
  BY <1>1, <1>2 DEF CauseInv, LeasesAccounted
<1> QED
  BY <1>3, <1>4 DEF CauseInv, MissedCache

LEMMA CauseAcquires ==
    ASSUME StageInv, CauseInv, NEW w \in Workers, Acquire(w)
    PROVE  CauseInv'
<1> USE DEF StageInv
<1>1. /\ pc[w] = "acquire" /\ pc' = [pc EXCEPT ![w] = "load"] /\ loads' = loads
      /\ leases' = leases \union {Stage(w).shard} /\ failed' = failed
      /\ plan' = plan /\ at' = at
  BY DEF Acquire, Step, local
<1>2. \A v \in Workers : pc[v] # "load" /\ pc'[v] # "acquire" /\ Stage(v)' = Stage(v)
  BY <1>1, OneLoader DEF TypeOK, Stage
<1>3. pc'[w] = "load" /\ Stage(w)' = Stage(w)
  BY <1>1, <1>2 DEF TypeOK
<1>4. LeasesAccounted'
  BY <1>1, <1>2, <1>3 DEF CauseInv, LeasesAccounted
<1> QED
  BY <1>2, <1>4 DEF CauseInv, MissedCache

LEMMA CauseRest ==
    ASSUME StageInv, CauseInv, NEW w \in Workers,
           ~LoadModel(w), ~LoadFails(w), ~Acquire(w),
           Cancel(w) \/ LocalWork(w) \/ CallFails(w) \/ CallWaits(w) \/ ConnectionLost(w)
    PROVE  CauseInv'
<1> USE DEF StageInv
<1>1. UNCHANGED <<loads, leases>> /\ plan' = plan
  BY OtherStep, PlanKept
<1>2. /\ failed' = failed
      /\ \A v \in Workers : pc[v] = "load" => pc'[v] = "load" /\ at'[v] = at[v]
      /\ \A v \in Workers : pc'[v] = "acquire" =>
             at'[v] = at[v] /\ (pc[v] = "acquire" \/ ~Cached(Stage(v)))
  <2>0. pc \in [Workers -> PcStates] /\ at \in [Workers -> Nat \ {0}]
    BY DEF TypeOK
  <2> USE <2>0 DEF Step, locks, local
  <2>1. CASE RunLayers(w)
    <3>1. pc[w] = "run" /\ pc' \in {[pc EXCEPT ![w] = "stage"], [pc EXCEPT ![w] = "loop"]}
      BY <2>1 DEF RunLayers
    <3>2. at' = at \/ at' = [at EXCEPT ![w] = @ + 1]
      BY <2>1 DEF RunLayers
    <3>3. failed' = failed
      BY <2>1 DEF RunLayers
    <3> QED
      BY <3>1, <3>2, <3>3
  <2>2. CASE BeginPass(w)
    BY <2>2 DEF BeginPass
  <2>3. CASE FindMissing(w)
    BY <2>3 DEF FindMissing
  <2>4. CASE FindLoaded(w)
    BY <2>4 DEF FindLoaded
  <2>5. CASE Cancel(w)
    BY <2>5 DEF Cancel
  <2>6. CASE LeaveLoop(w)
    BY <2>6 DEF LeaveLoop
  <2>7. CASE StopMidPass(w)
    BY <2>7 DEF StopMidPass
  <2>8. CASE GoLocal(w)
    BY <2>8 DEF GoLocal
  <2>9. CASE GoRemote(w)
    BY <2>9 DEF GoRemote
  <2>10. CASE RefuseLease(w)
    BY <2>10 DEF RefuseLease
  <2>11. CASE RunFails(w)
    BY <2>11 DEF RunFails
  <2>12. CASE CallFails(w)
    BY <2>12 DEF CallFails
  <2>13. CASE CallWaits(w)
    BY <2>13 DEF CallWaits
  <2>14. CASE ConnectionLost(w)
    BY <2>14 DEF ConnectionLost
  <2> QED
    BY <2>1, <2>2, <2>3, <2>4, <2>5, <2>6, <2>7, <2>8, <2>9, <2>10, <2>11, <2>12, <2>13,
       <2>14 DEF LocalWork
<1>3. \A v \in Workers : pc[v] = "load" => pc'[v] = "load" /\ Stage(v)' = Stage(v)
  BY <1>1, <1>2 DEF Stage
<1>4. LeasesAccounted'
  BY <1>1, <1>2, <1>3 DEF CauseInv, LeasesAccounted
<1>5. MissedCache'
  <2>1. SUFFICES ASSUME NEW v \in Workers, pc'[v] = "acquire" PROVE ~Cached(Stage(v))'
    BY DEF MissedCache
  <2>2. ~Cached(Stage(v)) /\ Stage(v)' = Stage(v)
    BY <1>1, <1>2, <2>1 DEF CauseInv, MissedCache, Stage
  <2> QED
    BY <1>1, <2>2 DEF Cached
<1> QED
  BY <1>4, <1>5 DEF CauseInv

LEMMA CauseStep ==
    ASSUME StageInv, CauseInv, [Next]_vars
    PROVE  CauseInv'
<1>1. CASE UNCHANGED vars
  BY <1>1 DEF vars, CauseInv, LeasesAccounted, MissedCache, Cached, Stage
<1>2. ASSUME NEW w \in Workers,
             Cancel(w) \/ LocalWork(w) \/ CallFails(w) \/ CallWaits(w) \/ ConnectionLost(w)
      PROVE  CauseInv'
  BY <1>2, CauseLoads, CauseFails, CauseAcquires, CauseRest
<1> QED
  BY <1>1, <1>2 DEF Next

LEMMA CauseGiven ==
    ASSUME StageInv, CauseInv
    PROVE  LeaseTakenForCause
<1>1. SUFFICES ASSUME NEW w \in Workers, pc[w] = "acquire", Stage(w).shard \in leases,
                      Stage(w).shard \notin failed
               PROVE  \E i \in DOMAIN loads :
                          /\ loads[i].shard = Stage(w).shard
                          /\ Key(loads[i]) # Key(Stage(w))
  BY DEF LeaseTakenForCause
<1>2. \A v \in Workers : pc[v] # "load"
  BY <1>1, OneLoader DEF StageInv
<1>3. PICK i \in DOMAIN loads : loads[i].shard = Stage(w).shard
  BY <1>1, <1>2 DEF CauseInv, LeasesAccounted
<1>4. ~(loads[i].id = Stage(w).id /\ loads[i].backend = Stage(w).backend)
  BY <1>1, <1>3 DEF CauseInv, MissedCache, Cached
<1> QED
  BY <1>3, <1>4, SMT DEF Key

(***************************************************************************)
(* However many workers miss the cache for one stage together, acquire()   *)
(* never refuses one of them because another is loading: a lease found     *)
(* taken belongs to a failed load or to a session of another key.          *)
(***************************************************************************)
THEOREM RefusalsHaveCause == Spec => []LeaseTakenForCause
<1>1. Init => CauseInv
  BY DEF Init, CauseInv, LeasesAccounted, MissedCache
<1>2. StageInv /\ CauseInv /\ [Next]_vars => CauseInv'
  BY CauseStep
<1>3. StageInv /\ CauseInv => LeaseTakenForCause
  BY CauseGiven
<1> QED
  BY <1>1, <1>2, <1>3, StageAlways, PTL DEF Spec
===============================================================================
