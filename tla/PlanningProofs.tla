---------------------------- MODULE PlanningProofs -----------------------------
(***************************************************************************)
(* Proofs about Planning, for any members, backends, manifests and direct  *)
(* inputs, and any number of restarts and crashes.                         *)
(***************************************************************************)
EXTENDS Planning, TLAPS, FiniteSetTheorems, WellFoundedInduction

(* Zenon proves every leaf that cites no other prover; SMT is cited where  *)
(* arithmetic, records or function updates take part.                      *)
USE ZenonT(20)

-------------------------------------------------------------------------------
(***************************************************************************)
(* What holds between the steps of a call.                                 *)
(***************************************************************************)
IsSeq(s) == s \in Seq(Range(s))

(* The first Len(stages) shards, in the order of the placement loop, have  *)
(* a stage each, numbered as they were placed.                             *)
PlacedSoFar ==
    /\ IsSeq(stages)
    /\ Len(stages) <= Len(job.shards)
    /\ \A i \in DOMAIN stages :
          /\ stages[i].ordinal = i - 1
          /\ stages[i].shard = OrderedShards(job.shards)[i].id
          /\ stages[i].layers = OrderedShards(job.shards)[i].layers

JobInv ==
    job # NoJob =>
        /\ Schedulable(job)
        /\ IsShardList(job.shards)
        /\ job.total \in Nat
        /\ job.reserve \in Nat
        /\ remaining \in [DOMAIN job.memory -> Nat]
        /\ PlacedSoFar

(* schedule_plan is at work on the manifest's own shards, whose plan will  *)
(* be saved.                                                               *)
SavesLater == job # NoJob /\ job.caller = "runtime" /\ job.model # "auto-generated"

(* No plan of this life is in the tables yet.                              *)
Fresh == \A r \in db.plans : r.id # lives

(* Stages numbered 0..k-1, each number once, for the manifest's shards.    *)
CompleteRows(rows) ==
    /\ \A r, s \in rows : r.ordinal = s.ordinal => r = s
    /\ {r.ordinal : r \in rows} = 0..(Len(manifest.shards) - 1)
    /\ {r.shard : r \in rows} = ShardIds(manifest)

CompletePlan(plan) ==
    /\ IsSeq(plan.stages)
    /\ \A i, j \in DOMAIN plan.stages :
          plan.stages[i].ordinal = plan.stages[j].ordinal => i = j
    /\ {plan.stages[i].ordinal : i \in DOMAIN plan.stages} = 0..(Len(manifest.shards) - 1)
    /\ {plan.stages[i].shard : i \in DOMAIN plan.stages} = ShardIds(manifest)

ManifestInv ==
    /\ manifest \in Manifests
    /\ published \in BOOLEAN
    /\ lives \in 1..MaxLives
    /\ ~published => Fresh /\ ~SavesLater
    /\ SavesLater => Fresh /\ job.model = "manifest" /\ job.shards = manifest.shards

IsTables(t) == t = [plans |-> t.plans, stages |-> t.stages]

TablesInv ==
    /\ IsTables(db)
    /\ \A r \in db.plans :
          /\ r.id \in 1..lives
          /\ CompleteRows(StagesOf(r.id))
    /\ \A s \in db.stages : \E r \in db.plans : r.id = s.plan
    /\ db.plans # {} => manifest.shards # <<>>

RowsOf(plan) == {StageRow(plan, i) : i \in DOMAIN plan.stages}

(* What save_plan has done to its copy of the tables after each statement. *)
SavingInv ==
    /\ step \in {"idle", "begin", "plan", "delete", "insert"}
    /\ step = "idle" => saving = NoPlan
    /\ step # "idle" =>
          /\ job = NoJob /\ published /\ Fresh
          /\ saving.id = lives
          /\ saving.model = "manifest"
          /\ CompletePlan(saving)
          /\ manifest.shards # <<>>
    /\ step = "plan" => work = db
    /\ step \in {"delete", "insert"} =>
          /\ IsTables(work)
          /\ work.plans = db.plans \union {PlanRow(saving)}
          /\ db.stages \subseteq work.stages
          /\ work.stages \subseteq db.stages \union RowsOf(saving)

StoreInv == JobInv /\ ManifestInv /\ TablesInv /\ SavingInv

-------------------------------------------------------------------------------
(***************************************************************************)
(* The orders of the scheduler.                                            *)
(***************************************************************************)

(* A rearrangement of 1..n that leaves none out repeats none.              *)
LEMMA OntoIsOneToOne ==
    ASSUME NEW n \in Nat, NEW S, IsFiniteSet(S), Cardinality(S) = n,
           NEW f \in [1..n -> S], Range(f) = S
    PROVE  \A i, j \in 1..n : f[i] = f[j] => i = j
<1>1. f \in Surjection(1..n, S)
  BY DEF Surjection, Range
<1>2. IsFiniteSet(1..n) /\ Cardinality(1..n) = n
  BY FS_Interval, SMT
<1>3. f \in Injection(1..n, S)
  BY <1>1, <1>2, FS_Surjection
<1> QED
  BY <1>3 DEF Injection, IsInjective

(* std::stable_sort loses no shard and repeats none: the places of the     *)
(* shards in the sorted list are a rearrangement of 1..n.                  *)
LEMMA SortRearranges ==
    ASSUME NEW shards, IsShardList(shards)
    PROVE  /\ DOMAIN OrderedShards(shards) = DOMAIN shards
           /\ \E p \in Bijection(DOMAIN shards, DOMAIN shards) :
                 \A k \in DOMAIN shards : OrderedShards(shards)[k] = shards[p[k]]
<1> DEFINE D == DOMAIN shards
           Before(i) == {j \in D : MoreSensitive(shards, j, i)}
           n == Len(shards)
<1>1. n \in Nat /\ D = 1..n
  BY SMT DEF IsShardList
<1>2. \A i \in D : shards[i].sensitivity \in Int
  BY DEF IsShardList
<1> HIDE DEF n
<1>20. IsFiniteSet(1..n) /\ Cardinality(1..n) = n
  BY <1>1, FS_Interval, SMT
<1>3. IsFiniteSet(D) /\ Cardinality(D) = n
  BY <1>1, <1>20
<1>4. ASSUME NEW i \in D
      PROVE  /\ IsFiniteSet(Before(i))
             /\ Cardinality(Before(i)) \in 0..(n - 1)
  <2>1. i \notin Before(i) /\ Before(i) \in SUBSET D
    BY <1>1, <1>2, SMT DEF MoreSensitive
  <2> HIDE DEF Before
  <2>2. IsFiniteSet(Before(i)) /\ Cardinality(Before(i)) <= n /\ Cardinality(Before(i)) # n
    BY <1>3, <2>1, FS_Subset
  <2>3. Cardinality(Before(i)) \in Nat
    BY <2>2, FS_CardinalityType
  <2> QED
    BY <1>1, <2>2, <2>3, SMT
<1>5. ASSUME NEW i \in D, NEW j \in D, MoreSensitive(shards, i, j)
      PROVE  Cardinality(Before(i)) # Cardinality(Before(j))
  <2>1. Before(i) \in SUBSET Before(j)
    BY <1>1, <1>2, <1>5, SMT DEF MoreSensitive
  <2>2. i \in Before(j) /\ i \notin Before(i)
    BY <1>1, <1>2, <1>5, SMT DEF MoreSensitive
  <2>3. IsFiniteSet(Before(j))
    BY <1>4
  <2> HIDE DEF Before
  <2> QED
    BY <2>1, <2>2, <2>3, FS_Subset
<1> DEFINE rank == [i \in D |-> Cardinality(Before(i)) + 1]
<1>6. rank \in [D -> D]
  <2> HIDE DEF Before
  <2>1. \A i \in D : Cardinality(Before(i)) + 1 \in 1..n
    BY <1>1, <1>4, SMT
  <2> QED
    BY <1>1, <2>1
<1>7. \A i, j \in D : rank[i] = rank[j] => i = j
  <2> SUFFICES ASSUME NEW i \in D, NEW j \in D, i # j
               PROVE  rank[i] # rank[j]
    OBVIOUS
  <2>1. MoreSensitive(shards, i, j) \/ MoreSensitive(shards, j, i)
    BY <1>1, <1>2, SMT DEF MoreSensitive
  <2>2. Cardinality(Before(i)) # Cardinality(Before(j))
    BY <1>5, <2>1
  <2> HIDE DEF Before
  <2>3. Cardinality(Before(i)) \in Nat /\ Cardinality(Before(j)) \in Nat
    BY <1>1, <1>4, SMT
  <2> QED
    BY <2>2, <2>3, SMT
<1> HIDE DEF rank
<1>8. rank \in Injection(D, D)
  BY <1>6, <1>7 DEF Injection, IsInjective
<1>9. rank \in Surjection(D, D)
  BY <1>3, <1>8, FS_Injection
<1> DEFINE Slot(k) == CHOOSE i \in D : Cardinality(Before(i)) = k - 1
           p == [k \in D |-> Slot(k)]
<1>10. ASSUME NEW k \in D
       PROVE  p[k] \in D /\ rank[p[k]] = k
  <2>1. PICK i \in D : rank[i] = k
    BY <1>9 DEF Surjection
  <2>2. Cardinality(Before(i)) = k - 1
    <3>2. rank[i] = Cardinality(Before(i)) + 1
      BY DEF rank
    <3> HIDE DEF Before
    <3>1. Cardinality(Before(i)) \in Nat
      BY <1>1, <1>4, SMT
    <3> QED
      BY <1>1, <2>1, <3>1, <3>2, SMT
  <2> HIDE DEF Before
  <2>3. p[k] \in D /\ Cardinality(Before(p[k])) = k - 1
    BY <2>2
  <2> HIDE DEF p
  <2>4. rank[p[k]] = Cardinality(Before(p[k])) + 1
    BY <2>3 DEF rank
  <2> QED
    BY <1>1, <2>3, <2>4, SMT
<1>11. \A k \in D : OrderedShards(shards)[k] = shards[p[k]]
  BY SMT DEF OrderedShards
<1>12. DOMAIN OrderedShards(shards) = D
  BY DEF OrderedShards
<1>13. p \in [D -> D] /\ \A k, l \in D : p[k] = p[l] => k = l
  <2> HIDE DEF Slot
  <2>1. p = [k \in D |-> p[k]]
    OBVIOUS
  <2> HIDE DEF p
  <2> QED
    BY <1>10, <2>1
<1> HIDE DEF p
<1>14. p \in Injection(D, D)
  BY <1>13 DEF Injection, IsInjective
<1>15. p \in Bijection(D, D)
  BY <1>3, <1>14, FS_Injection DEF Bijection
<1> QED
  BY <1>11, <1>12, <1>15

-------------------------------------------------------------------------------
(***************************************************************************)
(* The jobs the scheduler is given.                                        *)
(***************************************************************************)
IsJob(input) ==
    /\ IsShardList(input.shards)
    /\ input.total \in Nat
    /\ input.reserve \in Nat
    /\ IsMemory(input.memory)

LEMMA QuotientIsNatural ==
    ASSUME NEW a \in Nat, NEW b \in Nat \ {0}
    PROVE  a \div b \in Nat
  BY SMT

LEMMA ProductIsNatural ==
    ASSUME NEW a \in Nat, NEW b \in Nat
    PROVE  a * b \in Nat
  BY SMT

(* The generated shards have the types of a manifest's.                    *)
LEMMA AutoShardsTyped ==
    ASSUME NEW memory, IsMemory(memory), NEW order \in MemberOrders(DOMAIN memory)
    PROVE  IsShardList(AutoShards(order, memory))
<1> DEFINE S == DOMAIN memory
           n == Cardinality(S)
           shards == AutoShards(order, memory)
<1>1. n \in Nat /\ order \in [1..n -> S]
  BY FS_CardinalityType DEF MemberOrders, IsMemory
<1> HIDE DEF n
<1>2. Len(order) = n /\ DOMAIN order = 1..n
  BY <1>1, SMT
<1>3. DOMAIN shards = 1..n /\ Len(shards) = n /\ shards = [i \in 1..n |-> shards[i]]
  BY <1>1, <1>2, SMT DEF AutoShards
<1>4. ASSUME NEW i \in 1..n
      PROVE  /\ shards[i].peak \in Nat
             /\ shards[i].sensitivity \in Int
             /\ shards[i].layers \in Nat \X Nat
  <2>1. /\ shards[i].peak = memory[order[i]] \div 2
        /\ shards[i].sensitivity = 0
        /\ shards[i].layers = AutoRange(i, n)
    BY <1>2 DEF AutoShards
  <2>2. memory[order[i]] \in Nat
    BY <1>1 DEF IsMemory
  <2>3. shards[i].peak \in Nat
    BY <2>1, <2>2, QuotientIsNatural, SMT
  <2>4. AutoLayers \div n \in Nat /\ AutoLayers \in Nat
    BY <1>1, QuotientIsNatural, PlanningAssumption, SMT
  <2>5. (i - 1) * (AutoLayers \div n) \in Nat
    <3>1. i - 1 \in Nat
      BY <1>1, SMT
    <3> QED
      BY <2>4, <3>1, ProductIsNatural
  <2>6. i * (AutoLayers \div n) \in Nat
    <3>1. i \in Nat
      BY <1>1, SMT
    <3> QED
      BY <2>4, <3>1, ProductIsNatural
  <2>7. AutoRange(i, n) \in Nat \X Nat
    BY <2>4, <2>5, <2>6 DEF AutoRange
  <2> QED
    BY <2>1, <2>3, <2>7, SMT
<1> HIDE DEF shards
<1>5. shards \in Seq(Range(shards))
  BY <1>1, <1>3, SMT DEF Range
<1> QED
  BY <1>3, <1>4, <1>5 DEF IsShardList, shards

(* Every job schedule_plan builds is well typed; it is about the           *)
(* manifest's shards or called auto-generated.                             *)
LEMMA RuntimeJobs ==
    ASSUME IsShardList(manifest.shards), manifest.total \in Nat,
           NEW readable \in BOOLEAN, NEW memory \in Memories, NEW fence \in Fences,
           NEW input \in JobsFor(readable, memory, fence)
    PROVE  /\ IsJob(input)
           /\ input.caller = "runtime"
           /\ input.model # "auto-generated" =>
                  /\ input.model = "manifest"
                  /\ input.shards = manifest.shards
                  /\ Publishes(readable)
<1>1. IsMemory(memory)
  BY PlanningAssumption
<1>2. CASE input = ManifestJob(memory, fence) /\ Publishes(readable)
  BY <1>1, <1>2 DEF ManifestJob, IsJob
<1>3. ASSUME NEW order \in MemberOrders(DOMAIN memory),
             input = AutoJob(order, memory, fence)
      PROVE  IsJob(input) /\ input.caller = "runtime" /\ input.model = "auto-generated"
  BY <1>1, <1>3, AutoShardsTyped, PlanningAssumption DEF AutoJob, IsJob
<1> QED
  BY <1>2, <1>3 DEF JobsFor

(* The call begins: nothing is placed.                                     *)
LEMMA JobBegins ==
    ASSUME NEW input, IsJob(input), Schedulable(input), BeginPlan(input)
    PROVE  JobInv'
<1>1. /\ job' = input /\ stages' = <<>> /\ remaining' = input.memory
      /\ input.memory \in [DOMAIN input.memory -> Nat]
  BY DEF BeginPlan, IsJob, IsMemory
<1>2. Len(input.shards) \in Nat
  BY SMT DEF IsJob, IsShardList
<1>3. PlacedSoFar'
  BY <1>1, <1>2, SMT DEF PlacedSoFar, IsSeq
<1> QED
  BY <1>1, <1>3 DEF JobInv, IsJob, Schedulable

LEMMA JobEnds ==
    ASSUME EndPlan
    PROVE  JobInv'
  BY DEF EndPlan, JobInv

(* A placement appends the next shard of the sorted list.                  *)
LEMMA JobPlaces ==
    ASSUME JobInv, NEW n \in Nodes, PlaceShard(n)
    PROVE  JobInv'
<1>1. /\ job # NoJob /\ job' = job
      /\ Len(stages) < Len(job.shards)
      /\ n \in Candidates(Shard)
      /\ remaining' = [remaining EXCEPT ![n] = @ - Required(Shard)]
      /\ stages' = Append(stages, Assignment(Shard, n))
  BY DEF PlaceShard, Placing
<1>2. /\ Schedulable(job) /\ IsShardList(job.shards) /\ job.total \in Nat
      /\ job.reserve \in Nat /\ remaining \in [DOMAIN job.memory -> Nat] /\ PlacedSoFar
  BY <1>1 DEF JobInv
<1>3. n \in DOMAIN remaining /\ remaining[n] >= Required(Shard)
  BY <1>1 DEF Candidates, Accepting, Accepts
<1> DEFINE k == Len(stages) + 1
<1>4. /\ Len(job.shards) \in Nat /\ DOMAIN job.shards = 1..Len(job.shards)
      /\ Len(stages) \in Nat /\ DOMAIN stages = 1..Len(stages)
  BY <1>2, SMT DEF IsShardList, PlacedSoFar, IsSeq
<1>5. k \in DOMAIN job.shards
  BY <1>1, <1>4, SMT
<1>6. Shard = OrderedShards(job.shards)[k]
  BY DEF Shard
<1>7. Shard.peak \in Nat
  <2>1. PICK p \in Bijection(DOMAIN job.shards, DOMAIN job.shards) :
           \A i \in DOMAIN job.shards : OrderedShards(job.shards)[i] = job.shards[p[i]]
    BY <1>2, SortRearranges
  <2>2. p[k] \in DOMAIN job.shards
    BY <1>5, <2>1 DEF Bijection, Injection
  <2> QED
    BY <1>2, <1>5, <1>6, <2>1, <2>2 DEF IsShardList
<1>8. Required(Shard) \in Nat
  BY <1>2, <1>7, SchedulerAssumption, SMT DEF Required
<1>9. remaining' \in [DOMAIN job.memory -> Nat]
  BY <1>1, <1>2, <1>3, <1>8, SMT
<1>10. PlacedSoFar'
  <2> DEFINE a == Assignment(Shard, n)
  <2>1. a.ordinal = k - 1 /\ a.shard = Shard.id /\ a.layers = Shard.layers
    BY <1>4, SMT DEF Assignment
  <2> HIDE DEF a
  <2>2. stages \in Seq(Range(stages)) /\ stages' = Append(stages, a)
    BY <1>1, <1>2 DEF PlacedSoFar, IsSeq, a
  <2>3. /\ Len(stages') = k /\ DOMAIN stages' = 1..k
        /\ stages'[k] = a
        /\ \A i \in 1..Len(stages) : stages'[i] = stages[i]
    BY <1>4, <2>2, SMT
  <2>4. stages' \in Seq(Range(stages'))
    <3>1. stages' \in Seq(Range(stages) \union {a})
      BY <2>2, SMT
    <3>2. \A i \in 1..k : stages'[i] \in Range(stages')
      BY <2>3 DEF Range
    <3> QED
      BY <2>3, <3>1, <3>2, SMT
  <2>5. \A i \in 1..k : i = k \/ i \in 1..Len(stages)
    BY <1>4, SMT
  <2>6. \A i \in 1..k : /\ stages'[i].ordinal = i - 1
                        /\ stages'[i].shard = OrderedShards(job.shards)[i].id
                        /\ stages'[i].layers = OrderedShards(job.shards)[i].layers
    BY <1>2, <1>4, <1>6, <2>1, <2>3, <2>5 DEF PlacedSoFar
  <2>7. Len(stages') <= Len(job.shards)
    BY <1>1, <1>4, <2>3, SMT
  <2> QED
    BY <1>1, <2>3, <2>4, <2>6, <2>7 DEF PlacedSoFar, IsSeq
<1> QED
  BY <1>1, <1>2, <1>9, <1>10 DEF JobInv

(* The order of the finished plan is a rearrangement of the placed stages: *)
(* they keep their numbers and together hold the shards of the job.        *)
LEMMA FinishedPlan ==
    ASSUME JobInv, Placed, NEW order \in FinalOrders
    PROVE  /\ order \in Bijection(DOMAIN stages, DOMAIN stages)
           /\ IsSeq(InOrder(order))
           /\ Len(InOrder(order)) = Len(job.shards)
           /\ DOMAIN InOrder(order) = DOMAIN stages
           /\ DOMAIN stages = 1..Len(job.shards)
           /\ \A i, j \in DOMAIN stages :
                 InOrder(order)[i].ordinal = InOrder(order)[j].ordinal => i = j
           /\ {InOrder(order)[i].ordinal : i \in DOMAIN stages}
                 = 0..(Len(job.shards) - 1)
           /\ {InOrder(order)[i].shard : i \in DOMAIN stages} = ShardIds(job)
<1> DEFINE n == Len(job.shards)
           s == InOrder(order)
<1>1. IsShardList(job.shards) /\ PlacedSoFar /\ Len(stages) = n
  BY DEF JobInv, Placed
<1>2. n \in Nat /\ DOMAIN job.shards = 1..n
  BY <1>1, SMT DEF IsShardList
<1>3. DOMAIN stages = 1..n
  BY <1>1, SMT DEF PlacedSoFar, IsSeq
<1> HIDE DEF n
<1>4. order \in [1..n -> 1..n] /\ Range(order) = 1..n
  BY <1>3 DEF FinalOrders
<1>5. \A i, j \in 1..n : order[i] = order[j] => i = j
  <2>1. IsFiniteSet(1..n) /\ Cardinality(1..n) = n
    BY <1>2, FS_Interval, SMT
  <2> QED
    BY <1>2, <1>4, <2>1, OntoIsOneToOne
<1>6. order \in Bijection(1..n, 1..n)
  BY <1>4, <1>5 DEF Bijection, Injection, Surjection, IsInjective, Range
<1>7. /\ DOMAIN s = 1..n /\ Len(s) = n /\ s = [i \in 1..n |-> s[i]]
      /\ \A i \in 1..n : s[i] = stages[order[i]]
  BY <1>2, <1>3, SMT DEF InOrder
<1> HIDE DEF s
<1>8. IsSeq(s)
  BY <1>2, <1>7, SMT DEF IsSeq, Range
<1>9. \A i \in 1..n : s[i].ordinal = order[i] - 1
  BY <1>1, <1>3, <1>4, <1>7 DEF PlacedSoFar
<1>10. \A i, j \in 1..n : s[i].ordinal = s[j].ordinal => i = j
  BY <1>2, <1>4, <1>5, <1>9, SMT
<1>11. {s[i].ordinal : i \in 1..n} = 0..(n - 1)
  <2>1. ASSUME NEW i \in 1..n
        PROVE  s[i].ordinal \in 0..(n - 1)
    <3>1. order[i] \in 1..n
      BY <1>4
    <3> QED
      BY <1>2, <1>9, <3>1, SMT
  <2>2. ASSUME NEW m \in 0..(n - 1)
        PROVE  \E i \in 1..n : s[i].ordinal = m
    <3>1. m + 1 \in 1..n
      BY <1>2, SMT
    <3>2. PICK i \in 1..n : order[i] = m + 1
      BY <1>4, <3>1 DEF Range
    <3> QED
      BY <1>2, <1>9, <3>2, SMT
  <2> QED
    BY <2>1, <2>2
<1>12. {s[i].shard : i \in 1..n} = ShardIds(job)
  <2>1. PICK p \in Bijection(1..n, 1..n) :
           \A k \in 1..n : OrderedShards(job.shards)[k] = job.shards[p[k]]
    BY <1>1, <1>2, SortRearranges, SMT
  <2>2. \A i \in 1..n : order[i] \in 1..n /\ p[order[i]] \in 1..n
    BY <1>4, <2>1 DEF Bijection, Injection
  <2>3. ASSUME NEW i \in 1..n
        PROVE  s[i].shard = job.shards[p[order[i]]].id
    <3>1. s[i].shard = OrderedShards(job.shards)[order[i]].id
      BY <1>1, <1>3, <1>7, <2>2 DEF PlacedSoFar
    <3> QED
      BY <2>1, <2>2, <3>1
  <2>4. \A j \in 1..n : \E i \in 1..n : p[order[i]] = j
    <3> SUFFICES ASSUME NEW j \in 1..n
                 PROVE  \E i \in 1..n : p[order[i]] = j
      OBVIOUS
    <3>1. PICK k \in 1..n : p[k] = j
      BY <2>1 DEF Bijection, Surjection
    <3>2. PICK i \in 1..n : order[i] = k
      BY <1>6, <3>1 DEF Bijection, Surjection
    <3> QED
      BY <3>1, <3>2
  <2>5. ShardIds(job) = {job.shards[j].id : j \in 1..n}
    BY <1>2 DEF ShardIds
  <2>6. \A i \in 1..n : s[i].shard \in ShardIds(job)
    BY <2>2, <2>3, <2>5
  <2>7. ASSUME NEW j \in 1..n
        PROVE  \E i \in 1..n : s[i].shard = job.shards[j].id
    BY <2>3, <2>4, SMT
  <2>8. {s[i].shard : i \in 1..n} \subseteq ShardIds(job)
    BY <2>6
  <2>9. ShardIds(job) \subseteq {s[i].shard : i \in 1..n}
    BY <2>5, <2>7
  <2> QED
    BY <2>8, <2>9
<1> QED
  BY <1>3, <1>6, <1>7, <1>8, <1>10, <1>11, <1>12 DEF n, s

-------------------------------------------------------------------------------
(***************************************************************************)
(* The tables.                                                             *)
(***************************************************************************)
LEMMA StoreInitially == Init => StoreInv
<1> SUFFICES ASSUME Init PROVE StoreInv
  OBVIOUS
<1> USE DEF Init, SchedulerInit, StoreInit, EmptyTables
<1>1. JobInv
  BY DEF JobInv
<1>2. ManifestInv
  <2>1. Fresh /\ ~SavesLater
    BY DEF Fresh, SavesLater
  <2>2. lives \in 1..MaxLives
    BY PlanningAssumption, SMT
  <2> QED
    BY <2>1, <2>2 DEF ManifestInv
<1>3. TablesInv
  BY DEF TablesInv, IsTables
<1>4. SavingInv
  BY DEF SavingInv
<1> QED
  BY <1>1, <1>2, <1>3, <1>4 DEF StoreInv

(* The tables stay as they are while nothing is committed, however many    *)
(* lives pass.                                                             *)
LEMMA SameTables ==
    ASSUME TablesInv, lives \in Nat, UNCHANGED <<db, manifest>>,
           lives' = lives \/ lives' = lives + 1
    PROVE  TablesInv'
<1>1. \A r \in db.plans : r.id \in 1..lives'
  BY SMT DEF TablesInv
<1>2. ASSUME NEW r \in db.plans
      PROVE  CompleteRows(StagesOf(r.id))'
  BY DEF TablesInv, CompleteRows, StagesOf, ShardIds
<1> QED
  BY <1>1, <1>2 DEF TablesInv, IsTables

LEMMA SameSaving ==
    ASSUME SavingInv, UNCHANGED <<job, published, db, work, saving, step, lives, manifest>>
    PROVE  SavingInv'
<1>1. (CompletePlan(saving)' <=> CompletePlan(saving))
  BY SMT DEF CompletePlan, ShardIds
<1>2. (Fresh' <=> Fresh)
  BY DEF Fresh
<1>3. RowsOf(saving)' = RowsOf(saving) /\ PlanRow(saving)' = PlanRow(saving)
  BY DEF RowsOf, StageRow, PlanRow
<1> QED
  BY <1>1, <1>2, <1>3 DEF SavingInv, IsTables

LEMMA IdleSaving ==
    ASSUME step' = "idle", saving' = NoPlan
    PROVE  SavingInv'
  BY DEF SavingInv

LEMMA SameManifest ==
    ASSUME ManifestInv, UNCHANGED <<job, published, lives, manifest>>, db'.plans = db.plans
    PROVE  ManifestInv'
  BY DEF ManifestInv, Fresh, SavesLater

LEMMA SameJob ==
    ASSUME JobInv, UNCHANGED <<job, stages, remaining>>
    PROVE  JobInv'
  BY DEF JobInv, PlacedSoFar

(* schedule_plan: the manifest is published at most once a life, and only  *)
(* the call that publishes it goes on to save.                             *)
LEMMA StoreSchedule ==
    ASSUME StoreInv, NEW readable \in BOOLEAN, NEW memory \in Memories, NEW fence \in Fences,
           SchedulePlan(readable, memory, fence)
    PROVE  StoreInv'
<1>1. JobInv /\ ManifestInv /\ TablesInv /\ SavingInv
  BY DEF StoreInv
<1>2. /\ job = NoJob /\ step = "idle" /\ saving = NoPlan
      /\ published' = (published \/ Publishes(readable))
      /\ UNCHANGED <<db, work, saving, step, manifest, lives>>
  BY <1>1 DEF SchedulePlan, Idle, storeVars, SavingInv
<1>3. PICK input \in JobsFor(readable, memory, fence) :
         IF Schedulable(input) THEN BeginPlan(input) ELSE UNCHANGED schedulerVars
  BY DEF SchedulePlan
<1>4. IsShardList(manifest.shards) /\ manifest.total \in Nat /\ lives \in Nat
  BY <1>1, ShardsAssumption, SMT DEF ManifestInv
<1>5. IsJob(input) /\ input.caller = "runtime"
      /\ (input.model # "auto-generated" =>
             input.model = "manifest" /\ input.shards = manifest.shards /\ Publishes(readable))
  BY <1>4, RuntimeJobs
<1>6. JobInv'
  <2>1. CASE Schedulable(input)
    BY <1>3, <1>5, <2>1, JobBegins
  <2>2. CASE ~Schedulable(input)
    BY <1>1, <1>3, <2>2, SameJob DEF schedulerVars
  <2> QED
    BY <2>1, <2>2
<1>7. job' = input \/ job' = NoJob
  BY <1>2, <1>3 DEF BeginPlan, schedulerVars
<1>8. ManifestInv'
  <2>1. SavesLater' => /\ input.model = "manifest" /\ input.shards = manifest.shards
                       /\ ~published /\ published' /\ job' = input
    BY <1>2, <1>5, <1>7 DEF SavesLater, Publishes
  <2>2. published' \in BOOLEAN /\ (~published' => ~published)
    BY <1>1, <1>2 DEF ManifestInv, Publishes
  <2>3. ~published => Fresh'
    BY <1>1, <1>2 DEF ManifestInv, Fresh
  <2> QED
    BY <1>1, <1>2, <2>1, <2>2, <2>3 DEF ManifestInv
<1>9. TablesInv'
  BY <1>1, <1>2, <1>4, SameTables
<1>10. SavingInv'
  BY <1>2, IdleSaving
<1> QED
  BY <1>6, <1>8, <1>9, <1>10 DEF StoreInv

LEMMA StoreDirect ==
    ASSUME StoreInv, NEW input \in Inputs, CreatePlanDirectly(input)
    PROVE  StoreInv'
<1>1. JobInv /\ ManifestInv /\ TablesInv /\ SavingInv
  BY DEF StoreInv
<1>2. /\ job = NoJob /\ step = "idle" /\ saving = NoPlan
      /\ UNCHANGED <<db, work, saving, step, manifest, published, lives>>
      /\ IF Schedulable(input) THEN BeginPlan(input) ELSE UNCHANGED schedulerVars
  BY <1>1 DEF CreatePlanDirectly, Idle, storeVars, SavingInv
<1>3. IsJob(input) /\ input.caller # "runtime" /\ lives \in Nat
  BY <1>1, ShardsAssumption, SMT DEF IsJob, ManifestInv
<1>4. JobInv'
  <2>1. CASE Schedulable(input)
    BY <1>2, <1>3, <2>1, JobBegins
  <2>2. CASE ~Schedulable(input)
    BY <1>1, <1>2, <2>2, SameJob DEF schedulerVars
  <2> QED
    BY <2>1, <2>2
<1>5. job' = input \/ job' = NoJob
  BY <1>2 DEF BeginPlan, schedulerVars
<1>6. ManifestInv'
  BY <1>1, <1>2, <1>3, <1>5 DEF ManifestInv, Fresh, SavesLater
<1>7. TablesInv'
  BY <1>1, <1>2, <1>3, SameTables
<1>8. SavingInv'
  BY <1>2, IdleSaving
<1> QED
  BY <1>4, <1>6, <1>7, <1>8 DEF StoreInv

LEMMA StorePlace ==
    ASSUME StoreInv, NEW n \in Nodes, Place(n)
    PROVE  StoreInv'
<1>1. JobInv /\ ManifestInv /\ TablesInv /\ SavingInv /\ lives \in Nat
  BY SMT DEF StoreInv, ManifestInv
<1>2. UNCHANGED <<db, work, saving, step, manifest, published, lives, job>>
  BY DEF Place, PlaceShard, storeVars, planningVars
<1>3. JobInv'
  BY <1>1, JobPlaces DEF Place
<1>4. ManifestInv' /\ TablesInv' /\ SavingInv'
  BY <1>1, <1>2, SameManifest, SameTables, SameSaving
<1> QED
  BY <1>3, <1>4 DEF StoreInv

LEMMA StoreFails ==
    ASSUME StoreInv, PlanFails
    PROVE  StoreInv'
<1>1. JobInv /\ ManifestInv /\ TablesInv /\ SavingInv /\ lives \in Nat
  BY SMT DEF StoreInv, ManifestInv
<1>2. /\ UNCHANGED <<db, work, saving, step, manifest, published, lives>>
      /\ job # NoJob /\ job' = NoJob
  BY DEF PlanFails, CannotPlace, Placing, Placed, EndPlan, storeVars,
     planningVars
<1>3. JobInv'
  BY JobEnds DEF PlanFails
<1>4. ManifestInv'
  BY <1>1, <1>2 DEF ManifestInv, Fresh, SavesLater
<1>5. step' = "idle" /\ saving' = NoPlan
  BY <1>1, <1>2 DEF SavingInv
<1> QED
  BY <1>1, <1>2, <1>3, <1>4, <1>5, SameTables, IdleSaving DEF StoreInv

(* A plan that goes to the store has every shard of the manifest.          *)
LEMMA StoreMakes ==
    ASSUME StoreInv, MakePlan
    PROVE  StoreInv'
<1>1. JobInv /\ ManifestInv /\ TablesInv /\ SavingInv /\ lives \in Nat
  BY SMT DEF StoreInv, ManifestInv
<1>2. /\ UNCHANGED <<db, work, manifest, published, lives>>
      /\ Placed /\ job # NoJob /\ job' = NoJob /\ step = "idle" /\ saving = NoPlan
  BY <1>1 DEF MakePlan, Placed, EndPlan, storeVars, SavePlan, SavingInv
<1>3. JobInv'
  BY JobEnds DEF MakePlan
<1>4. ManifestInv'
  BY <1>1, <1>2 DEF ManifestInv, Fresh, SavesLater
<1>5. TablesInv'
  BY <1>1, <1>2, SameTables
<1>6. SavingInv'
  <2>1. PICK order \in FinalOrders :
           /\ made' = Issued(order)
           /\ IF job.caller = "runtime" /\ job.model # "auto-generated"
              THEN SavePlan(made')
              ELSE UNCHANGED storeVars
    BY DEF MakePlan
  <2>2. CASE ~SavesLater
    <3>1. step' = "idle" /\ saving' = NoPlan
      BY <1>2, <2>1, <2>2 DEF SavesLater, storeVars
    <3> QED
      BY <3>1, IdleSaving
  <2>3. CASE SavesLater
    <3>1. step' = "begin" /\ saving' = Issued(order)
      BY <2>1, <2>3 DEF SavesLater, SavePlan
    <3>2. /\ saving'.id = lives /\ saving'.model = job.model
          /\ saving'.stages = InOrder(order)
      BY <3>1 DEF Issued
    <3>3. /\ Fresh /\ published
          /\ job.model = "manifest" /\ job.shards = manifest.shards
          /\ manifest.shards # <<>>
      BY <1>1, <1>2, <2>3 DEF ManifestInv, JobInv, Schedulable
    <3>4. CompletePlan(saving)'
      <4>1. /\ IsSeq(saving'.stages)
            /\ \A i, j \in DOMAIN saving'.stages :
                  saving'.stages[i].ordinal = saving'.stages[j].ordinal => i = j
            /\ {saving'.stages[i].ordinal : i \in DOMAIN saving'.stages}
                  = 0..(Len(job.shards) - 1)
            /\ {saving'.stages[i].shard : i \in DOMAIN saving'.stages} = ShardIds(job)
        BY <1>1, <1>2, <3>2, FinishedPlan, SMT
      <4>2. ShardIds(manifest)' = ShardIds(job) /\ Len(manifest.shards)' = Len(job.shards)
        BY <1>2, <3>3 DEF ShardIds
      <4> QED
        BY <4>1, <4>2 DEF CompletePlan, IsSeq
    <3>5. Fresh'
      BY <1>2, <3>3 DEF Fresh
    <3> QED
      BY <1>2, <3>1, <3>2, <3>3, <3>4, <3>5 DEF SavingInv
  <2> QED
    BY <2>2, <2>3
<1> QED
  BY <1>3, <1>4, <1>5, <1>6 DEF StoreInv

(* A plan with every stage of the manifest has every row of it.            *)
LEMMA RowsComplete ==
    ASSUME CompletePlan(saving)
    PROVE  CompleteRows(RowsOf(saving))
<1> DEFINE D == DOMAIN saving.stages
           Row(i) == StageRow(saving, i)
<1>1. RowsOf(saving) = {Row(i) : i \in D}
  BY DEF RowsOf
<1>2. \A i \in D : /\ Row(i).ordinal = saving.stages[i].ordinal
                   /\ Row(i).shard = saving.stages[i].shard
  BY DEF StageRow
<1>3. /\ \A i, j \in D : saving.stages[i].ordinal = saving.stages[j].ordinal => i = j
      /\ {saving.stages[i].ordinal : i \in D} = 0..(Len(manifest.shards) - 1)
      /\ {saving.stages[i].shard : i \in D} = ShardIds(manifest)
  BY DEF CompletePlan
<1> HIDE DEF D, Row
<1>4. \A r, s \in RowsOf(saving) : r.ordinal = s.ordinal => r = s
  BY <1>1, <1>2, <1>3, SMT
<1>5. {r.ordinal : r \in RowsOf(saving)} = {saving.stages[i].ordinal : i \in D}
  BY <1>1, <1>2, SMT
<1>6. {r.shard : r \in RowsOf(saving)} = {saving.stages[i].shard : i \in D}
  BY <1>1, <1>2, SMT
<1> QED
  BY <1>3, <1>4, <1>5, <1>6 DEF CompleteRows

(* What a statement of save_plan leaves alone.                             *)
LEMMA StatementKeeps ==
    ASSUME StoreInv, StoreStep, db' = db, UNCHANGED <<schedulerVars, planningVars>>, SavingInv'
    PROVE  StoreInv'
<1>1. JobInv /\ ManifestInv /\ TablesInv /\ lives \in Nat
  BY SMT DEF StoreInv, ManifestInv
<1>2. UNCHANGED <<job, stages, remaining, manifest, published, lives>>
  BY DEF schedulerVars, planningVars
<1>3. JobInv'
  BY <1>1, <1>2, SameJob
<1>4. ManifestInv' /\ TablesInv'
  BY <1>1, <1>2, SameManifest, SameTables
<1> QED
  BY <1>3, <1>4 DEF StoreInv

(* Before COMMIT a statement changes only the transaction's copy, and the  *)
(* rows it takes out of it are none: no plan has this one's id.            *)
LEMMA SavingStatement ==
    ASSUME StoreInv, SaveBegin \/ SavePlanRow \/ SaveDeleteStages \/ SaveStage,
           UNCHANGED <<schedulerVars, planningVars>>
    PROVE  SavingInv'
<1>1. TablesInv /\ SavingInv
  BY DEF StoreInv
<1>2. UNCHANGED <<job, manifest, published, lives, db, saving>> /\ step # "idle"
  BY DEF schedulerVars, planningVars, SaveBegin, SavePlanRow,
     SaveDeleteStages, SaveStage
<1>3. /\ (CompletePlan(saving)' <=> CompletePlan(saving))
      /\ (Fresh' <=> Fresh)
      /\ RowsOf(saving)' = RowsOf(saving)
      /\ PlanRow(saving)' = PlanRow(saving)
  <2>1. (CompletePlan(saving)' <=> CompletePlan(saving))
    BY <1>2, SMT DEF CompletePlan, ShardIds
  <2>2. (Fresh' <=> Fresh)
    BY <1>2 DEF Fresh
  <2>3. RowsOf(saving)' = RowsOf(saving) /\ PlanRow(saving)' = PlanRow(saving)
    BY <1>2 DEF RowsOf, StageRow, PlanRow
  <2> QED
    BY <2>1, <2>2, <2>3
<1>4. /\ job' = NoJob /\ published' /\ Fresh' /\ Fresh
      /\ saving'.id = lives' /\ saving.id = lives
      /\ saving'.model = "manifest"
      /\ CompletePlan(saving)'
      /\ manifest'.shards # <<>>
  BY <1>1, <1>2, <1>3 DEF SavingInv
<1>5. CASE SaveBegin
  <2>1. step' = "plan" /\ work' = db'
    BY <1>5 DEF SaveBegin
  <2> QED
    BY <1>4, <2>1 DEF SavingInv
<1>6. SUFFICES ASSUME ~SaveBegin
               PROVE  /\ step' \in {"delete", "insert"}
                      /\ IsTables(work')
                      /\ work'.plans = db.plans \union {PlanRow(saving)}
                      /\ db.stages \subseteq work'.stages
                      /\ work'.stages \subseteq db.stages \union RowsOf(saving)
  <2>1. CASE SaveBegin
    BY <1>5, <2>1
  <2>2. CASE ~SaveBegin
    <3>1. /\ step' \in {"delete", "insert"}
          /\ IsTables(work)'
          /\ work'.plans = db'.plans \union {PlanRow(saving)'}
          /\ db'.stages \subseteq work'.stages
          /\ work'.stages \subseteq db'.stages \union RowsOf(saving)'
      BY <1>2, <1>3, <1>6, <2>2 DEF IsTables
    <3> QED
      BY <1>4, <3>1 DEF SavingInv
  <2> QED
    BY <2>1, <2>2
<1>7. CASE SavePlanRow
  <2>1. /\ step = "plan" /\ step' = "delete"
        /\ work' = [work EXCEPT !.plans = {r \in @ : r.id # saving.id} \cup {PlanRow(saving)}]
    BY <1>7 DEF SavePlanRow
  <2>2. work = db /\ work = [plans |-> db.plans, stages |-> db.stages]
    BY <1>1, <2>1 DEF SavingInv, TablesInv, IsTables
  <2>3. {r \in db.plans : r.id # saving.id} = db.plans
    BY <1>4 DEF Fresh
  <2>4. work' = [plans |-> db.plans \cup {PlanRow(saving)}, stages |-> db.stages]
    BY <2>1, <2>2, <2>3
  <2>5. work'.plans = db.plans \union {PlanRow(saving)} /\ work'.stages = db.stages
    BY <2>4
  <2> QED
    BY <2>1, <2>4, <2>5 DEF IsTables
<1>8. CASE SaveDeleteStages
  <2>1. /\ step = "delete" /\ step' = "insert"
        /\ work' = [work EXCEPT !.stages = {r \in @ : r.plan # saving.id}]
    BY <1>8 DEF SaveDeleteStages
  <2>2. /\ work = [plans |-> work.plans, stages |-> work.stages]
        /\ work.plans = db.plans \union {PlanRow(saving)}
        /\ db.stages \subseteq work.stages
        /\ work.stages \subseteq db.stages \union RowsOf(saving)
    BY <1>1, <2>1 DEF SavingInv, IsTables
  <2>3. \A s \in db.stages : s.plan # saving.id
    BY <1>1, <1>4 DEF Fresh, TablesInv
  <2>4. work' = [plans |-> work.plans, stages |-> {r \in work.stages : r.plan # saving.id}]
    BY <2>1, <2>2
  <2>5. db.stages \subseteq work'.stages
    BY <2>2, <2>3, <2>4
  <2>6. work'.stages \subseteq work.stages
    BY <2>4
  <2> QED
    BY <2>1, <2>2, <2>4, <2>5, <2>6 DEF IsTables
<1>9. CASE SaveStage
  <2>1. PICK i \in Unsaved(saving) :
           work' = [work EXCEPT !.stages = @ \cup {StageRow(saving, i)}]
    BY <1>9 DEF SaveStage
  <2>2. step = "insert" /\ step' = "insert"
    BY <1>9 DEF SaveStage
  <2>3. /\ work = [plans |-> work.plans, stages |-> work.stages]
        /\ work.plans = db.plans \union {PlanRow(saving)}
        /\ db.stages \subseteq work.stages
        /\ work.stages \subseteq db.stages \union RowsOf(saving)
    BY <1>1, <2>2 DEF SavingInv, IsTables
  <2>4. work' = [plans |-> work.plans, stages |-> work.stages \cup {StageRow(saving, i)}]
    BY <2>1, <2>3
  <2>5. StageRow(saving, i) \in RowsOf(saving)
    BY <2>1 DEF Unsaved, RowsOf
  <2> QED
    BY <2>2, <2>3, <2>4, <2>5 DEF IsTables
<1> QED
  BY <1>6, <1>7, <1>8, <1>9

(* COMMIT installs the plan with all of its stages, next to every plan     *)
(* that was there.                                                         *)
LEMMA StoreCommits ==
    ASSUME StoreInv, SaveCommit, UNCHANGED <<schedulerVars, planningVars>>
    PROVE  StoreInv'
<1>1. JobInv /\ ManifestInv /\ TablesInv /\ SavingInv /\ lives \in Nat \ {0}
  BY SMT DEF StoreInv, ManifestInv
<1>2. /\ UNCHANGED <<job, stages, remaining, manifest, published, lives>>
      /\ step = "insert" /\ Unsaved(saving) = {}
      /\ db' = work /\ saving' = NoPlan /\ step' = "idle"
  BY DEF schedulerVars, planningVars, SaveCommit
<1>3. /\ job = NoJob /\ published /\ Fresh /\ saving.id = lives
      /\ CompletePlan(saving) /\ manifest.shards # <<>>
      /\ IsTables(work)
      /\ work.plans = db.plans \union {PlanRow(saving)}
      /\ db.stages \subseteq work.stages
      /\ work.stages \subseteq db.stages \union RowsOf(saving)
  BY <1>1, <1>2 DEF SavingInv
<1>4. JobInv' /\ SavingInv'
  BY <1>1, <1>2, SameJob, IdleSaving
<1>5. ManifestInv'
  BY <1>1, <1>2, <1>3 DEF ManifestInv, SavesLater
<1>6. db'.stages = db.stages \union RowsOf(saving)
  <2>1. RowsOf(saving) \subseteq work.stages
    BY <1>2 DEF Unsaved, RowsOf
  <2> QED
    BY <1>2, <1>3, <2>1
<1>7. \A s \in RowsOf(saving) : s.plan = lives
  BY <1>3, SMT DEF RowsOf, StageRow
<1>8. \A s \in db.stages : s.plan # lives /\ \E r \in db.plans : r.id = s.plan
  BY <1>1, <1>3 DEF Fresh, TablesInv
<1>9. PlanRow(saving).id = lives
  BY <1>3 DEF PlanRow
<1>10. db'.plans = db.plans \union {PlanRow(saving)} /\ IsTables(db')
  BY <1>2, <1>3
<1>11. ShardIds(manifest)' = ShardIds(manifest) /\ Len(manifest.shards)' = Len(manifest.shards)
  BY <1>2 DEF ShardIds
<1>12. ASSUME NEW r \in db'.plans
       PROVE  r.id \in 1..lives /\ CompleteRows(StagesOf(r.id))'
  <2>1. CASE r \in db.plans
    <3>1. r.id \in 1..lives /\ r.id # lives /\ CompleteRows(StagesOf(r.id))
      BY <1>1, <1>3, <2>1 DEF TablesInv, Fresh
    <3>2. {s \in db'.stages : s.plan = r.id} = {s \in db.stages : s.plan = r.id}
      BY <1>6, <1>7, <3>1
    <3>3. StagesOf(r.id)' = StagesOf(r.id)
      BY <3>2 DEF StagesOf
    <3>4. CompleteRows(StagesOf(r.id))'
      BY <1>11, <3>1, <3>3 DEF CompleteRows
    <3> QED
      BY <3>1, <3>4
  <2>2. CASE r = PlanRow(saving)
    <3>1. r.id = lives
      BY <1>9, <2>2
    <3>2. {s \in db'.stages : s.plan = lives} = RowsOf(saving)
      BY <1>6, <1>7, <1>8
    <3>3. CompleteRows(RowsOf(saving))
      BY <1>3, RowsComplete
    <3>4. lives \in 1..lives
      BY <1>1, SMT
    <3>5. StagesOf(r.id)' = RowsOf(saving)
      BY <3>1, <3>2 DEF StagesOf
    <3>6. CompleteRows(StagesOf(r.id))'
      BY <1>11, <3>3, <3>5 DEF CompleteRows
    <3> QED
      BY <3>1, <3>4, <3>6
  <2> QED
    BY <1>10, <2>1, <2>2
<1>13. ASSUME NEW s \in db'.stages
       PROVE  \E r \in db'.plans : r.id = s.plan
  BY <1>6, <1>7, <1>8, <1>9, <1>10
<1>14. TablesInv'
  BY <1>2, <1>3, <1>10, <1>12, <1>13 DEF TablesInv, IsTables
<1> QED
  BY <1>4, <1>5, <1>14 DEF StoreInv

LEMMA StoreStatement ==
    ASSUME StoreInv, Store
    PROVE  StoreInv'
<1>1. StoreStep /\ UNCHANGED <<schedulerVars, planningVars>>
  BY DEF Store
<1>2. CASE SaveBegin \/ SavePlanRow \/ SaveDeleteStages \/ SaveStage
  <2>1. db' = db
    BY <1>2 DEF SaveBegin, SavePlanRow, SaveDeleteStages, SaveStage
  <2>2. SavingInv'
    BY <1>1, <1>2, SavingStatement
  <2> QED
    BY <1>1, <2>1, <2>2, StatementKeeps
<1>3. CASE SaveCommit
  BY <1>1, <1>3, StoreCommits
<1>4. CASE Rollback
  <2>1. db' = db /\ step' = "idle" /\ saving' = NoPlan
    BY <1>4 DEF Rollback
  <2>2. SavingInv'
    BY <2>1, IdleSaving
  <2> QED
    BY <1>1, <2>1, <2>2, StatementKeeps
<1> QED
  BY <1>1, <1>2, <1>3, <1>4 DEF StoreStep

(* Token history, and what ends a life.                                    *)
LEMMA StoreAside ==
    ASSUME StoreInv,
           \/ \E p \in 0..MaxPosition : OfferToken(p)
           \/ Erase
           \/ UNCHANGED vars
    PROVE  StoreInv'
<1>1. JobInv /\ ManifestInv /\ TablesInv /\ SavingInv /\ lives \in Nat
  BY SMT DEF StoreInv, ManifestInv
<1>2. UNCHANGED <<db, work, saving, step, job, stages, remaining, manifest, published, lives>>
  BY DEF OfferToken, AppendToken, Erase, EraseTokenHistory, vars, storeVars,
     schedulerVars,
         planningVars
<1>3. JobInv' /\ ManifestInv'
  BY <1>1, <1>2, SameJob, SameManifest
<1>4. TablesInv' /\ SavingInv'
  BY <1>1, <1>2, SameTables, SameSaving
<1> QED
  BY <1>3, <1>4 DEF StoreInv

LEMMA StoreEndsLife ==
    ASSUME StoreInv, Crash \/ StopStart
    PROVE  StoreInv'
<1>1. JobInv /\ ManifestInv /\ TablesInv /\ SavingInv /\ lives \in Nat
  BY SMT DEF StoreInv, ManifestInv
<1>2. /\ db' = db /\ manifest' = manifest
      /\ lives < MaxLives /\ lives' = lives + 1 /\ published' = FALSE
      /\ job' = NoJob /\ step' = "idle" /\ saving' = NoPlan
  <2>1. CASE Crash
    BY <2>1 DEF Crash, StoreCrash, EndPlan
  <2>2. CASE StopStart
    BY <1>1, <2>2 DEF StopStart, Idle, storeVars, schedulerVars, SavingInv
  <2> QED
    BY <2>1, <2>2
<1>3. JobInv'
  BY <1>2 DEF JobInv
<1>4. ManifestInv'
  <2>1. \A r \in db.plans : r.id \in 1..lives
    BY <1>1 DEF TablesInv
  <2>2. Fresh'
    BY <1>1, <1>2, <2>1, SMT DEF Fresh
  <2>3. ~SavesLater'
    BY <1>2 DEF SavesLater
  <2>4. lives' \in 1..MaxLives
    BY <1>1, <1>2, PlanningAssumption, SMT
  <2> QED
    BY <1>1, <1>2, <2>2, <2>3, <2>4 DEF ManifestInv
<1>5. TablesInv' /\ SavingInv'
  BY <1>1, <1>2, SameTables, IdleSaving
<1> QED
  BY <1>3, <1>4, <1>5 DEF StoreInv

LEMMA StoreInvStep == StoreInv /\ [Next]_vars => StoreInv'
<1> SUFFICES ASSUME StoreInv, [Next]_vars PROVE StoreInv'
  OBVIOUS
<1>1. CASE \E readable \in BOOLEAN, memory \in Memories, fence \in Fences :
              SchedulePlan(readable, memory, fence)
  BY <1>1, StoreSchedule
<1>2. CASE \E input \in Inputs : CreatePlanDirectly(input)
  BY <1>2, StoreDirect
<1>3. CASE \E n \in Nodes : Place(n)
  BY <1>3, StorePlace
<1> QED
  BY <1>1, <1>2, <1>3, StoreFails, StoreMakes, StoreStatement, StoreAside,
     StoreEndsLife
  DEF Next

LEMMA AlwaysStoreInv == Spec => []StoreInv
  BY StoreInitially, StoreInvStep, PTL DEF Spec

-------------------------------------------------------------------------------
(***************************************************************************)
(* The types of Planning hold in every state.                              *)
(***************************************************************************)
Typed ==
    /\ lastNode \in Nodes \cup {NoNode}
    /\ history \subseteq 0..MaxPosition
    /\ blind \in BOOLEAN

(* What a step does to the token history: append_token's rule or, blindly, *)
(* no rule, an erasure, or nothing.                                        *)
LEMMA HistoryStep ==
    ASSUME [Next]_vars
    PROVE  \/ UNCHANGED <<history, blind>>
           \/ history' = {} /\ blind' = FALSE
           \/ \E p \in 0..MaxPosition :
                 /\ history' = history \cup {p}
                 /\ blind' = TRUE \/ (UNCHANGED blind /\ NextPosition(p))
<1>1. CASE \E p \in 0..MaxPosition : OfferToken(p)
  <2>1. PICK p \in 0..MaxPosition : OfferToken(p)
    BY <1>1
  <2>2. history' = history \cup {p}
    BY <2>1 DEF OfferToken, AppendToken
  <2>3. (NextPosition(p) /\ UNCHANGED blind) \/ blind' = TRUE
    BY <2>1 DEF OfferToken, AppendToken
  <2>4. CASE NextPosition(p) /\ UNCHANGED blind
    BY <2>2, <2>4
  <2>5. CASE blind' = TRUE
    BY <2>2, <2>5
  <2> QED
    BY <2>3, <2>4, <2>5
<1>2. CASE Erase
  BY <1>2 DEF Erase, EraseTokenHistory
<1>3. CASE Store
  BY <1>3 DEF Store, StoreStep, SaveBegin, SavePlanRow, SaveDeleteStages,
     SaveStage, SaveCommit,
              Rollback
<1>4. CASE MakePlan
  BY <1>4 DEF MakePlan, SavePlan, storeVars
<1>5. CASE \/ \E readable \in BOOLEAN, memory \in Memories, fence \in Fences :
                 SchedulePlan(readable, memory, fence)
           \/ \E input \in Inputs : CreatePlanDirectly(input)
  BY <1>5 DEF SchedulePlan, CreatePlanDirectly, storeVars
<1>6. CASE PlanFails \/ StopStart \/ \E n \in Nodes : Place(n)
  BY <1>6 DEF PlanFails, StopStart, Place, storeVars
<1>7. CASE Crash \/ UNCHANGED vars
  BY <1>7 DEF Crash, StoreCrash, vars, storeVars
<1> QED
  BY <1>1, <1>2, <1>3, <1>4, <1>5, <1>6, <1>7 DEF Next

LEMMA TypedStep == StoreInv /\ Typed /\ [Next]_vars => Typed'
<1> SUFFICES ASSUME StoreInv, Typed, [Next]_vars PROVE Typed'
  OBVIOUS
<1>1. lastNode' \in Nodes \cup {NoNode}
  <2>1. CASE UNCHANGED lastNode
    BY <2>1 DEF Typed
  <2>2. CASE \E readable \in BOOLEAN, memory \in Memories, fence \in Fences :
                SchedulePlan(readable, memory, fence)
    BY <2>2 DEF SchedulePlan, BeginPlan, schedulerVars, Typed
  <2>3. CASE \E input \in Inputs : CreatePlanDirectly(input)
    BY <2>3 DEF CreatePlanDirectly, BeginPlan, schedulerVars, Typed
  <2>4. CASE \E n \in Nodes : Place(n)
    BY <2>4 DEF Place, PlaceShard
  <2>5. CASE PlanFails \/ MakePlan \/ Crash
    BY <2>5 DEF PlanFails, MakePlan, Crash, EndPlan
  <2>6. CASE Store \/ Erase \/ StopStart \/ \E p \in 0..MaxPosition : OfferToken(p)
    BY <2>6, <2>1 DEF Store, Erase, StopStart, OfferToken, schedulerVars
  <2>7. CASE UNCHANGED vars
    BY <2>7, <2>1 DEF vars, schedulerVars
  <2> QED
    BY <2>2, <2>3, <2>4, <2>5, <2>6, <2>7 DEF Next
<1>2. history' \subseteq 0..MaxPosition
  <2>1. \/ history' = history
        \/ history' = {}
        \/ \E p \in 0..MaxPosition : history' = history \cup {p}
    BY HistoryStep
  <2> QED
    BY <2>1 DEF Typed
<1>3. blind' \in BOOLEAN
  BY HistoryStep DEF Typed
<1> QED
  BY <1>1, <1>2, <1>3 DEF Typed

(***************************************************************************)
(* Planning's state is well typed, for any members and inputs: memory left *)
(* is never negative, and the store only ever works on a plan of this or   *)
(* an earlier life made from the manifest.                                 *)
(***************************************************************************)
THEOREM PlanningTyped == Spec => []TypeOK
<1>1. Init => Typed
  BY DEF Init, SchedulerInit, StoreInit, Typed
<1>2. StoreInv /\ Typed => TypeOK
  <2> SUFFICES ASSUME StoreInv, Typed PROVE TypeOK
    OBVIOUS
  <2>1. job # NoJob => /\ Schedulable(job)
                       /\ remaining \in [DOMAIN job.memory -> Nat]
                       /\ Len(stages) <= Len(job.shards)
    BY DEF StoreInv, JobInv, PlacedSoFar
  <2>2. published \in BOOLEAN /\ lives \in 1..MaxLives
    BY DEF StoreInv, ManifestInv
  <2>3. /\ step \in {"idle", "begin", "plan", "delete", "insert"}
        /\ step = "idle" => saving = NoPlan
        /\ step # "idle" => saving.model = "manifest" /\ saving.id = lives
    BY DEF StoreInv, SavingInv
  <2>4. lives \in 1..lives
    BY <2>2, PlanningAssumption, SMT
  <2> QED
    BY <2>1, <2>2, <2>3, <2>4 DEF TypeOK, Typed
<1> QED
  BY <1>1, <1>2, AlwaysStoreInv, TypedStep, PTL DEF Spec

-------------------------------------------------------------------------------
(***************************************************************************)
(* The token history.                                                      *)
(***************************************************************************)
LEMMA ContiguousStep ==
    ASSUME Typed, HistoryContiguous, [Next]_vars
    PROVE  HistoryContiguous'
<1>1. CASE UNCHANGED <<history, blind>> \/ history' = {} \/ blind' = TRUE
  BY <1>1 DEF HistoryContiguous
<1>2. CASE ~blind /\ \E p \in 0..MaxPosition : NextPosition(p) /\ history' = history \cup {p}
  <2>1. PICK p \in 0..MaxPosition : NextPosition(p) /\ history' = history \cup {p}
    BY <1>2
  <2>2. p \in Nat /\ \A q \in history : q \in Nat
    BY PositionAssumption, SMT DEF Typed
  <2>3. CASE history = {}
    BY <2>1, <2>2, <2>3, SMT DEF HistoryContiguous
  <2>4. CASE history # {}
    <3>1. PICK m \in history : p = m + 1 /\ \A q \in history : q <= m
      BY <2>1, <2>4 DEF NextPosition
    <3>2. ASSUME NEW a \in history', NEW b \in history', NEW k \in a..b
          PROVE  k \in history'
      <4>1. m \in Nat /\ a \in Nat /\ b \in Nat /\ k \in Nat /\ a <= k /\ k <= b
        BY <2>1, <2>2, SMT
      <4>2. CASE a \in history /\ b \in history
        BY <1>2, <2>1, <3>2, <4>2 DEF HistoryContiguous
      <4>3. CASE a = p /\ b \in history
        BY <3>1, <4>1, <4>3, SMT
      <4>4. CASE b = p /\ k = p
        BY <2>1, <4>4
      <4>5. CASE b = p /\ k # p /\ a \in history
        <5>1. k \in a..m
          BY <3>1, <4>1, <4>5, SMT
        <5> QED
          BY <1>2, <2>1, <4>5, <5>1 DEF HistoryContiguous
      <4>6. CASE a = p /\ b = p
        BY <2>1, <4>1, <4>6, SMT
      <4> QED
        BY <2>1, <4>2, <4>3, <4>4, <4>5, <4>6
    <3> QED
      BY <3>2 DEF HistoryContiguous
  <2> QED
    BY <2>3, <2>4
<1>3. CASE blind /\ blind' = blind
  BY <1>3 DEF HistoryContiguous
<1> QED
  BY <1>1, <1>2, <1>3, HistoryStep

(***************************************************************************)
(* The stored history of a request has no hole, whatever positions         *)
(* append_token is offered and however often the runtime crashes, as long  *)
(* as its SELECT has not failed since the last erasure.                    *)
(***************************************************************************)
THEOREM HistoryHasNoHole == Spec => []HistoryContiguous
<1>1. Init => Typed /\ HistoryContiguous
  BY DEF Init, SchedulerInit, StoreInit, Typed, HistoryContiguous
<1>2. StoreInv /\ Typed /\ HistoryContiguous /\ [Next]_vars => Typed' /\ HistoryContiguous'
  BY TypedStep, ContiguousStep
<1> QED
  BY <1>1, <1>2, AlwaysStoreInv, PTL DEF Spec

-------------------------------------------------------------------------------
(***************************************************************************)
(* The stored plans.                                                       *)
(***************************************************************************)
(* The rows of a complete plan are as many as the manifest has shards.     *)
LEMMA RowCount ==
    ASSUME NEW rows, CompleteRows(rows), IsShardList(manifest.shards)
    PROVE  IsFiniteSet(rows) /\ Cardinality(rows) = Len(manifest.shards)
<1> DEFINE n == Len(manifest.shards)
           f == [r \in rows |-> r.ordinal]
<1>1. n \in Nat
  BY SMT DEF IsShardList
<1>2. /\ \A r, s \in rows : r.ordinal = s.ordinal => r = s
      /\ {r.ordinal : r \in rows} = 0..(n - 1)
  BY DEF CompleteRows
<1> HIDE DEF n
<1>3. IsFiniteSet(0..(n - 1)) /\ Cardinality(0..(n - 1)) = n
  BY <1>1, FS_Interval, SMT
<1>4. f \in Bijection(rows, 0..(n - 1))
  <2>1. \A r \in rows : f[r] \in 0..(n - 1)
    BY <1>2
  <2>2. \A r, s \in rows : f[r] = f[s] => r = s
    BY <1>2
  <2>3. \A k \in 0..(n - 1) : \E r \in rows : f[r] = k
    BY <1>2
  <2> HIDE DEF f
  <2>4. f \in [rows -> 0..(n - 1)]
    BY <2>1 DEF f
  <2> QED
    BY <2>2, <2>3, <2>4 DEF Bijection, Injection, Surjection, IsInjective
<1>5. f \in Injection(rows, 0..(n - 1)) /\ f \in Surjection(rows, 0..(n - 1))
  BY <1>4 DEF Bijection
<1> HIDE DEF f
<1>6. IsFiniteSet(rows)
  BY <1>3, <1>5, FS_Injection
<1>7. Cardinality(rows) = Cardinality(0..(n - 1))
  <2>1. ExistsBijection(rows, 0..(n - 1))
    BY <1>4 DEF ExistsBijection
  <2> QED
    BY <1>6, <2>1, FS_Bijection
<1> QED
  BY <1>3, <1>6, <1>7 DEF n

LEMMA StoreInvWhole == StoreInv => StoredPlansWhole /\ StoredPlanIsComplete
<1> SUFFICES ASSUME StoreInv PROVE StoredPlansWhole /\ StoredPlanIsComplete
  OBVIOUS
<1>1. TablesInv /\ manifest \in Manifests
  BY DEF StoreInv, ManifestInv
<1>2. IsShardList(manifest.shards)
  BY <1>1, ShardsAssumption
<1>3. ASSUME NEW r \in db.plans
      PROVE  /\ Cardinality(StagesOf(r.id)) = Len(manifest.shards)
             /\ {s.ordinal : s \in StagesOf(r.id)} = 0..(Len(manifest.shards) - 1)
             /\ {s.shard : s \in StagesOf(r.id)} = ShardIds(manifest)
             /\ StagesOf(r.id) # {}
  <2>1. CompleteRows(StagesOf(r.id)) /\ manifest.shards # <<>>
    BY <1>1 DEF TablesInv
  <2>2. Len(manifest.shards) \in Nat \ {0}
    BY <1>2, <2>1, SMT DEF IsShardList
  <2>3. 0 \in 0..(Len(manifest.shards) - 1)
    BY <2>2, SMT
  <2>4. StagesOf(r.id) # {}
    BY <2>1, <2>3 DEF CompleteRows
  <2> QED
    BY <1>2, <2>1, <2>4, RowCount DEF CompleteRows
<1>4. StoredPlansWhole
  BY <1>1, <1>3 DEF StoredPlansWhole, TablesInv
<1>5. StoredPlanIsComplete
  BY <1>3 DEF StoredPlanIsComplete
<1> QED
  BY <1>4, <1>5

(***************************************************************************)
(* save_plan is all or nothing: with any statement failing and a crash     *)
(* between any two, a plan row has all its stages and no stage is left     *)
(* without its plan.                                                       *)
(***************************************************************************)
THEOREM PlansStoredWhole == Spec => []StoredPlansWhole
  BY AlwaysStoreInv, StoreInvWhole, PTL

(***************************************************************************)
(* A plan in the tables assigns exactly the manifest's shards, whatever    *)
(* save_plan calls failed or were cut short before.                        *)
(***************************************************************************)
THEOREM StoredPlansComplete == Spec => []StoredPlanIsComplete
  BY AlwaysStoreInv, StoreInvWhole, PTL

LEMMA TablesGrow ==
    ASSUME StoreInv, [Next]_vars
    PROVE  [db.plans \subseteq db'.plans /\ db.stages \subseteq db'.stages]_storeVars
<1>1. CASE Store /\ SaveCommit
  <2>1. db' = work /\ step = "insert"
    BY <1>1 DEF SaveCommit
  <2> QED
    BY <2>1 DEF StoreInv, SavingInv
<1>2. CASE ~(Store /\ SaveCommit)
  <2>1. db' = db
    <3>1. CASE Store
      BY <1>2, <3>1 DEF Store, StoreStep, SaveBegin, SavePlanRow,
         SaveDeleteStages, SaveStage,
                        Rollback
    <3>2. CASE Erase \/ \E p \in 0..MaxPosition : OfferToken(p)
      BY <3>2 DEF OfferToken, AppendToken, Erase, EraseTokenHistory
    <3>3. CASE MakePlan
      BY <3>3 DEF MakePlan, SavePlan, storeVars
    <3>4. CASE \/ \E readable \in BOOLEAN, memory \in Memories, fence \in Fences :
                     SchedulePlan(readable, memory, fence)
               \/ \E input \in Inputs : CreatePlanDirectly(input)
      BY <3>4 DEF SchedulePlan, CreatePlanDirectly, storeVars
    <3>5. CASE PlanFails \/ StopStart \/ \E n \in Nodes : Place(n)
      BY <3>5 DEF PlanFails, StopStart, Place, storeVars
    <3>6. CASE Crash \/ UNCHANGED vars
      BY <3>6 DEF Crash, StoreCrash, vars, storeVars
    <3> QED
      BY <3>1, <3>2, <3>3, <3>4, <3>5, <3>6 DEF Next
  <2> QED
    BY <2>1
<1> QED
  BY <1>1, <1>2

(***************************************************************************)
(* No step takes a committed plan or stage out of the tables: the rows     *)
(* save_plan deletes before inserting are never another plan's.            *)
(***************************************************************************)
THEOREM StoreOnlyGrows == Spec => StoreKeepsPlans
  BY AlwaysStoreInv, TablesGrow, PTL DEF Spec, StoreKeepsPlans

-------------------------------------------------------------------------------
(***************************************************************************)
(* What schedule_core returns: every shard and every layer is in exactly   *)
(* one stage.                                                              *)
(***************************************************************************)
(* Ranges that follow one another from 0 to the end cover every number     *)
(* below the end once.                                                     *)
LEMMA ChainCovers ==
    ASSUME NEW n \in Nat \ {0}, NEW first \in [1..n -> Nat], NEW last \in [1..n -> Nat],
           \A i, j \in 1..n : i < j => first[i] <= first[j],
           \A i \in 1..n : first[i] = IF i = 1 THEN 0 ELSE last[i - 1],
           NEW l \in Nat, l < last[n]
    PROVE  \E i \in 1..n :
              /\ first[i] <= l /\ l < last[i]
              /\ \A j \in 1..n : first[j] <= l /\ l < last[j] => j = i
<1> DEFINE T == {i \in 1..n : l < last[i]}
<1>1. T \subseteq Nat /\ n \in T
  BY SMT
<1>2. PICK i \in T : \A j \in T : ~(<<j, i>> \in OpToRel(<, Nat))
  <2> HIDE DEF T
  <2> QED
    BY <1>1, WFMin, NatLessThanWellFounded, ZenonT(30)
<1>3. \A j \in T : ~(j < i)
  <2> HIDE DEF T
  <2> QED
    BY <1>1, <1>2, ZenonT(30) DEF OpToRel
<1>4. i \in 1..n /\ l < last[i]
  OBVIOUS
<1>5. first[i] <= l
  <2>1. CASE i = 1
    BY <2>1, SMT
  <2>2. CASE i # 1
    <3>1. i - 1 \in 1..n /\ i - 1 < i
      BY <1>4, <2>2, SMT
    <3>2. ~(l < last[i - 1])
      BY <1>3, <3>1
    <3>3. last[i - 1] \in Nat /\ first[i] = last[i - 1]
      BY <1>4, <2>2, <3>1
    <3> QED
      BY <3>2, <3>3, SMT
  <2> QED
    BY <2>1, <2>2
<1>6. ASSUME NEW a \in 1..n, NEW b \in 1..n, a < b, l < last[a]
      PROVE  ~(first[b] <= l)
  <2>1. a + 1 \in 1..n /\ a + 1 # 1 /\ (a + 1) - 1 = a
    BY <1>6, SMT
  <2>2. first[a + 1] = last[a]
    BY <2>1
  <2>3. first[a + 1] <= first[b]
    BY <1>6, <2>1, SMT
  <2>4. first[b] \in Nat /\ last[a] \in Nat
    OBVIOUS
  <2> QED
    BY <1>6, <2>2, <2>3, <2>4, SMT
<1>7. ASSUME NEW j \in 1..n, first[j] <= l, l < last[j]
      PROVE  j = i
  BY <1>4, <1>5, <1>6, <1>7, SMT
<1> QED
  BY <1>4, <1>5, <1>7

LEMMA LayersTyped ==
    ASSUME JobInv, Placed, NEW m \in LayerStages
    PROVE  stages[m].layers \in Nat \X Nat
<1>1. PlacedSoFar /\ IsShardList(job.shards) /\ Len(stages) = Len(job.shards)
  BY DEF JobInv, Placed
<1>2. DOMAIN stages = DOMAIN job.shards
  BY <1>1, SMT DEF PlacedSoFar, IsSeq, IsShardList
<1>3. m \in DOMAIN job.shards /\ stages[m].layers # <<>>
  BY <1>2 DEF LayerStages, HasLayers
<1>4. stages[m].layers = OrderedShards(job.shards)[m].layers
  BY <1>1, <1>2, <1>3 DEF PlacedSoFar
<1>5. PICK p \in Bijection(DOMAIN job.shards, DOMAIN job.shards) :
         \A k \in DOMAIN job.shards : OrderedShards(job.shards)[k] = job.shards[p[k]]
  BY <1>1, SortRearranges
<1>6. p[m] \in DOMAIN job.shards
  BY <1>3, <1>5 DEF Bijection, Injection
<1>7. stages[m].layers = job.shards[p[m]].layers
  BY <1>3, <1>4, <1>5
<1> QED
  BY <1>1, <1>3, <1>6, <1>7 DEF IsShardList

(* The layers of the placed shards, tested for contiguity, are each in     *)
(* exactly one of them.                                                    *)
LEMMA LayersOnce ==
    ASSUME JobInv, Placed, NEW lo \in LayerOrders, Contiguous(lo), LayerStages # {},
           NEW l \in 0..(job.total - 1)
    PROVE  \E k \in LayerStages :
              /\ stages[k].layers[1] <= l /\ l < stages[k].layers[2]
              /\ \A m \in LayerStages :
                    stages[m].layers[1] <= l /\ l < stages[m].layers[2] => m = k
<1> DEFINE c == Cardinality(LayerStages)
           Start(i) == stages[lo[i]].layers[1]
           End(i) == stages[lo[i]].layers[2]
           first == [i \in 1..c |-> Start(i)]
           last == [i \in 1..c |-> End(i)]
<1>1. /\ PlacedSoFar /\ IsShardList(job.shards) /\ job.total \in Nat
      /\ Len(stages) = Len(job.shards)
  BY DEF JobInv, Placed
<1>2. Len(job.shards) \in Nat /\ DOMAIN job.shards = 1..Len(job.shards)
      /\ DOMAIN stages = 1..Len(job.shards)
  BY <1>1, SMT DEF PlacedSoFar, IsSeq, IsShardList
<1>3. IsFiniteSet(LayerStages) /\ c \in Nat \ {0}
  <2>1. IsFiniteSet(DOMAIN stages)
    BY <1>2, FS_Interval, SMT
  <2>2. IsFiniteSet(LayerStages)
    BY <2>1, FS_Subset DEF LayerStages
  <2>3. c \in Nat /\ c # 0
    BY <2>2, FS_CardinalityType, FS_EmptySet
  <2> QED
    BY <2>2, <2>3
<1>4. \A m \in LayerStages : stages[m].layers \in Nat \X Nat
  BY LayersTyped
<1> HIDE DEF c
<1>5. /\ lo \in [1..c -> LayerStages] /\ Range(lo) = LayerStages /\ Sorted(lo)
      /\ DOMAIN lo = 1..c
  BY DEF LayerOrders, c
<1>6. Len(lo) = c /\ lo # <<>>
  <2>1. Len(lo) = c
    BY <1>3, <1>5, SMT
  <2> QED
    BY <1>3, <2>1
<1>7. \A i \in 1..c : Start(i) \in Nat /\ End(i) \in Nat
  BY <1>4, <1>5
<1>8. \A i, j \in 1..c : i < j => Start(i) <= Start(j)
  BY <1>5 DEF Sorted
<1>9. \A i \in 1..c : Start(i) = IF i = 1 THEN 0 ELSE End(i - 1)
  BY <1>5 DEF Contiguous
<1>10. End(c) = job.total
  BY <1>6 DEF Contiguous
<1>11. l \in Nat /\ l < job.total
  BY <1>1, SMT
<1> HIDE DEF Start, End
<1>12. PICK i \in 1..c : /\ Start(i) <= l /\ l < End(i)
                         /\ \A j \in 1..c : Start(j) <= l /\ l < End(j) => j = i
  <2>1. first \in [1..c -> Nat] /\ last \in [1..c -> Nat]
    BY <1>7
  <2>2. \A i, j \in 1..c : i < j => first[i] <= first[j]
    BY <1>8
  <2>3. \A i \in 1..c : first[i] = IF i = 1 THEN 0 ELSE last[i - 1]
    <3> SUFFICES ASSUME NEW i \in 1..c
                 PROVE  first[i] = IF i = 1 THEN 0 ELSE last[i - 1]
      OBVIOUS
    <3>1. i # 1 => i - 1 \in 1..c
      BY <1>3, SMT
    <3> QED
      BY <1>9, <3>1
  <2>4. l < last[c]
    BY <1>3, <1>10, <1>11, SMT
  <2>5. \A i \in 1..c : first[i] = Start(i) /\ last[i] = End(i)
    OBVIOUS
  <2> HIDE DEF first, last
  <2>6. \E i \in 1..c : /\ first[i] <= l /\ l < last[i]
                        /\ \A j \in 1..c : first[j] <= l /\ l < last[j] => j = i
    BY <1>3, <1>11, <2>1, <2>2, <2>3, <2>4, ChainCovers
  <2> QED
    BY <2>5, <2>6
<1>13. lo[i] \in LayerStages
  BY <1>5
<1>14. ASSUME NEW m \in LayerStages, stages[m].layers[1] <= l, l < stages[m].layers[2]
       PROVE  m = lo[i]
  <2>1. PICK j \in 1..c : lo[j] = m
    BY <1>5 DEF Range
  <2>2. Start(j) <= l /\ l < End(j)
    BY <1>14, <2>1 DEF Start, End
  <2> QED
    BY <1>12, <2>1, <2>2
<1> QED
  BY <1>12, <1>13, <1>14 DEF Start, End

LEMMA MadeCovers ==
    ASSUME JobInv, MakePlan
    PROVE  made' # NoPlan => CoversShards(made)' /\ CoversLayers(made)'
<1>1. PICK lo \in LayerOrders : Contiguous(lo)
  BY DEF MakePlan
<1>2. PICK order \in FinalOrders : made' = Issued(order)
  BY DEF MakePlan
<1>3. Placed /\ job # NoJob
  BY DEF MakePlan, Placed
<1> DEFINE plan == Issued(order)
<1>4. plan.stages = InOrder(order) /\ plan.basis = job
  BY DEF Issued
<1>5. /\ order \in Bijection(DOMAIN stages, DOMAIN stages)
      /\ Len(plan.stages) = Len(job.shards)
      /\ DOMAIN plan.stages = DOMAIN stages
      /\ {plan.stages[i].shard : i \in DOMAIN stages} = ShardIds(job)
  BY <1>3, <1>4, FinishedPlan
<1>6. \A i \in DOMAIN stages : plan.stages[i] = stages[order[i]]
  BY <1>4 DEF InOrder
<1> HIDE DEF plan
<1>7. CoversShards(plan)
  BY <1>4, <1>5 DEF CoversShards
<1>8. ASSUME NEW h \in DOMAIN plan.stages, HasLayers(plan.stages[h]),
             NEW l \in 0..(job.total - 1)
      PROVE  Cardinality(HoldingLayer(plan, l)) = 1
  <2>1. \A i \in DOMAIN stages : order[i] \in DOMAIN stages
    BY <1>5 DEF Bijection, Injection
  <2>2. order[h] \in LayerStages
    BY <1>5, <1>6, <1>8, <2>1 DEF LayerStages
  <2>3. PICK k \in LayerStages :
           /\ stages[k].layers[1] <= l /\ l < stages[k].layers[2]
           /\ \A m \in LayerStages :
                 stages[m].layers[1] <= l /\ l < stages[m].layers[2] => m = k
    BY <1>1, <1>3, <2>2, LayersOnce
  <2>4. k \in DOMAIN stages /\ HasLayers(stages[k])
    BY DEF LayerStages
  <2>5. PICK x \in DOMAIN stages : order[x] = k
    BY <1>5, <2>4 DEF Bijection, Surjection
  <2>6. x \in HoldingLayer(plan, l)
    BY <1>5, <1>6, <2>3, <2>4, <2>5 DEF HoldingLayer
  <2>7. ASSUME NEW y \in HoldingLayer(plan, l)
        PROVE  y = x
    <3>1. /\ y \in DOMAIN stages /\ HasLayers(stages[order[y]])
          /\ stages[order[y]].layers[1] <= l /\ l < stages[order[y]].layers[2]
      BY <1>5, <1>6 DEF HoldingLayer
    <3>2. order[y] = k
      BY <2>1, <2>3, <3>1 DEF LayerStages
    <3> QED
      BY <1>5, <2>5, <3>1, <3>2 DEF Bijection, Injection, IsInjective
  <2>8. HoldingLayer(plan, l) = {x}
    BY <2>6, <2>7
  <2> QED
    BY <2>8, FS_Singleton
<1>9. CoversLayers(plan)
  BY <1>4, <1>8 DEF CoversLayers
<1>10. made' = plan
  BY <1>2 DEF plan
<1> QED
  BY <1>7, <1>9, <1>10 DEF CoversShards, CoversLayers, ShardIds, HoldingLayer

(* Only schedule_core's successful return leaves a plan behind.            *)
LEMMA MadeByPlanner ==
    ASSUME [Next]_vars
    PROVE  MakePlan \/ made' = NoPlan \/ made' = made
<1>1. CASE \/ \E readable \in BOOLEAN, memory \in Memories, fence \in Fences :
                 SchedulePlan(readable, memory, fence)
           \/ \E input \in Inputs : CreatePlanDirectly(input)
           \/ Crash
  BY <1>1 DEF SchedulePlan, CreatePlanDirectly, Crash
<1>2. CASE PlanFails \/ StopStart \/ Store \/ Erase
  BY <1>2 DEF PlanFails, StopStart, Store, Erase, planningVars
<1>3. CASE (\E n \in Nodes : Place(n)) \/ (\E p \in 0..MaxPosition : OfferToken(p))
  BY <1>3 DEF Place, OfferToken, planningVars
<1>4. CASE UNCHANGED vars
  BY <1>4 DEF vars, planningVars
<1> QED
  BY <1>1, <1>2, <1>3, <1>4 DEF Next

(***************************************************************************)
(* A plan create_plan returns has every shard of its input in one stage    *)
(* and every layer of the model in one of them, for any members, memory,   *)
(* shards and ranges, and however ties are broken in the sorts.            *)
(***************************************************************************)
THEOREM PlansComplete == Spec => []PlanIsComplete
<1>1. Init => PlanIsComplete
  BY DEF Init, PlanIsComplete
<1>2. StoreInv /\ PlanIsComplete /\ [Next]_vars => PlanIsComplete'
  <2> SUFFICES ASSUME StoreInv, PlanIsComplete, [Next]_vars
               PROVE  PlanIsComplete'
    OBVIOUS
  <2>1. CASE MakePlan
    BY <2>1, MadeCovers DEF StoreInv, PlanIsComplete
  <2>2. CASE made' = NoPlan
    BY <2>2 DEF PlanIsComplete
  <2>3. CASE made' = made
    BY <2>3 DEF PlanIsComplete, CoversShards, CoversLayers, ShardIds,
       HoldingLayer
  <2> QED
    BY <2>1, <2>2, <2>3, MadeByPlanner
<1> QED
  BY <1>1, <1>2, AlwaysStoreInv, PTL DEF Spec

-------------------------------------------------------------------------------
(***************************************************************************)
(* The order of the stages: what the final sort of schedule_core gives     *)
(* once the ranges are known to chain up.                                  *)
(***************************************************************************)
RunsInOrder(plan) ==
    \A k, l \in 0..(plan.basis.total - 1) :
        \A i \in HoldingLayer(plan, k), j \in HoldingLayer(plan, l) :
            k < l => i <= j

LEMMA MadeInOrder ==
    ASSUME JobInv, MakePlan
    PROVE  RunsInOrder(made)'
<1>1. PICK lo \in LayerOrders : Contiguous(lo)
  BY DEF MakePlan
<1>2. PICK order \in FinalOrders : made' = Issued(order)
  BY DEF MakePlan
<1>3. Placed /\ job # NoJob
  BY DEF MakePlan, Placed
<1> DEFINE plan == Issued(order)
<1>4. plan.stages = InOrder(order) /\ plan.basis = job
  BY DEF Issued
<1>5. /\ order \in Bijection(DOMAIN stages, DOMAIN stages)
      /\ DOMAIN plan.stages = DOMAIN stages
  BY <1>3, <1>4, FinishedPlan
<1>6. \A i \in DOMAIN stages : plan.stages[i] = stages[order[i]]
  BY <1>4 DEF InOrder
<1>7. DOMAIN stages \subseteq Nat /\ job.total \in Nat
  <2>1. IsSeq(stages) /\ job.total \in Nat
    BY <1>3 DEF JobInv, PlacedSoFar
  <2> QED
    BY <2>1, SMT DEF IsSeq
<1> HIDE DEF plan
<1>8. ASSUME NEW k \in 0..(job.total - 1), NEW i \in HoldingLayer(plan, k)
      PROVE  /\ i \in DOMAIN stages /\ order[i] \in LayerStages
             /\ stages[order[i]].layers[1] <= k /\ k < stages[order[i]].layers[2]
  BY <1>5, <1>6, <1>8 DEF HoldingLayer, LayerStages, Bijection, Injection
<1>9. ASSUME NEW k \in 0..(job.total - 1), NEW l \in 0..(job.total - 1), k < l,
             NEW i \in HoldingLayer(plan, k), NEW j \in HoldingLayer(plan, l), j < i
      PROVE  FALSE
  <2>1. i \in DOMAIN stages /\ order[i] \in LayerStages /\ j \in DOMAIN stages
        /\ order[j] \in LayerStages
    BY <1>8, <1>9
  <2> DEFINE start(x) == stages[order[x]].layers[1]
             end(x) == stages[order[x]].layers[2]
  <2>2. start(i) <= k /\ k < end(i) /\ start(j) <= l /\ l < end(j)
    BY <1>8, <1>9
  <2>3. start(i) \in Nat /\ start(j) \in Nat /\ end(i) \in Nat /\ end(j) \in Nat
    <3>1. stages[order[i]].layers \in Nat \X Nat /\ stages[order[j]].layers \in Nat \X Nat
      BY <1>3, <2>1, LayersTyped
    <3> QED
      BY <3>1
  <2>4. ~(start(i) < start(j))
    <3>1. ~ByLayerStart(stages[order[i]], stages[order[j]])
      BY <1>9, <2>1 DEF FinalOrders
    <3> QED
      BY <2>1, <3>1 DEF ByLayerStart, LayerStages
  <2> HIDE DEF start, end
  <2>5. start(j) <= k /\ k < end(j)
    BY <1>7, <1>9, <2>2, <2>3, <2>4, SMT
  <2>6. PICK m \in LayerStages :
           \A x \in LayerStages :
              stages[x].layers[1] <= k /\ k < stages[x].layers[2] => x = m
    BY <1>1, <1>3, <2>1, LayersOnce
  <2>7. order[i] = m /\ order[j] = m
    BY <2>1, <2>2, <2>5, <2>6 DEF start, end
  <2>8. i = j
    BY <1>5, <2>1, <2>7 DEF Bijection, Injection, IsInjective
  <2> QED
    BY <1>7, <1>9, <2>1, <2>8, SMT
<1>10. ASSUME NEW k \in 0..(job.total - 1), NEW l \in 0..(job.total - 1), k < l,
              NEW i \in HoldingLayer(plan, k), NEW j \in HoldingLayer(plan, l)
       PROVE  i <= j
  <2>1. ~(j < i)
    BY <1>9, <1>10
  <2>2. i \in Nat /\ j \in Nat
    BY <1>7, <1>8
  <2> QED
    BY <2>1, <2>2, SMT
<1>11. RunsInOrder(plan)
  BY <1>4, <1>10 DEF RunsInOrder
<1>12. made' = plan
  BY <1>2 DEF plan
<1> QED
  BY <1>11, <1>12 DEF RunsInOrder, HoldingLayer

(* The active plan is the one just made, the one before, or none.          *)
LEMMA ActiveByPlanner ==
    ASSUME [Next]_vars
    PROVE  (MakePlan /\ current' = made') \/ current' = NoPlan \/ current' = current
<1>1. CASE \/ \E readable \in BOOLEAN, memory \in Memories, fence \in Fences :
                 SchedulePlan(readable, memory, fence)
           \/ \E input \in Inputs : CreatePlanDirectly(input)
           \/ Crash
  BY <1>1 DEF SchedulePlan, CreatePlanDirectly, Crash
<1>2. CASE PlanFails \/ StopStart \/ Store \/ Erase
  BY <1>2 DEF PlanFails, StopStart, Store, Erase, planningVars
<1>3. CASE (\E n \in Nodes : Place(n)) \/ (\E p \in 0..MaxPosition : OfferToken(p))
  BY <1>3 DEF Place, OfferToken, planningVars
<1>4. CASE UNCHANGED vars
  BY <1>4 DEF vars, planningVars
<1>5. CASE MakePlan
  BY <1>5 DEF MakePlan
<1> QED
  BY <1>1, <1>2, <1>3, <1>4, <1>5 DEF Next

(***************************************************************************)
(* The stages of the active plan hold the layers in the order in which     *)
(* execute_pipeline_pass runs them, for any shards, sensitivities and      *)
(* members, however ties are broken in the sorts.  It is the part of       *)
(* "ordered" that the code keeps: stages without layers come first, the    *)
(* output stage too.                                                       *)
(***************************************************************************)
THEOREM ActiveLayersInOrder == Spec => []LayersRunInOrder
<1>1. Init => LayersRunInOrder
  BY DEF Init, LayersRunInOrder
<1>2. StoreInv /\ LayersRunInOrder /\ [Next]_vars => LayersRunInOrder'
  <2> SUFFICES ASSUME StoreInv, LayersRunInOrder, [Next]_vars
               PROVE  LayersRunInOrder'
    OBVIOUS
  <2>1. CASE MakePlan /\ current' = made'
    <3>1. RunsInOrder(made)'
      BY <2>1, MadeInOrder DEF StoreInv
    <3> QED
      BY <2>1, <3>1 DEF LayersRunInOrder, RunsInOrder, HoldingLayer
  <2>2. CASE current' = NoPlan
    BY <2>2 DEF LayersRunInOrder
  <2>3. CASE current' = current
    BY <2>3 DEF LayersRunInOrder, HoldingLayer
  <2> QED
    BY <2>1, <2>2, <2>3, ActiveByPlanner
<1> QED
  BY <1>1, <1>2, AlwaysStoreInv, PTL DEF Spec

-------------------------------------------------------------------------------
(***************************************************************************)
(* Sums over finite sets.  MapThenSumSet takes the elements one by one, in *)
(* the order of CHOOSE; the sum does not depend on that order.  Induction  *)
(* is on the number of elements, by way of a least counterexample.         *)
(***************************************************************************)
Pick(s) == CHOOSE x \in s : TRUE

IsSum(g, f, S) ==
    g = [s \in SUBSET S |-> IF s = {} THEN 0 ELSE f[Pick(s)] + g[s \ {Pick(s)}]]

Summable(f, S) == IsFiniteSet(S) /\ \A x \in S : f[x] \in Nat

Total(f, S) == (CHOOSE g : IsSum(g, f, S))[S]

LEMMA LeastElement ==
    ASSUME NEW T \in SUBSET Nat, T # {}
    PROVE  \E n \in T : \A m \in T : n <= m
<1>1. PICK n \in T : \A m \in T : ~(<<m, n>> \in OpToRel(<, Nat))
  BY WFMin, NatLessThanWellFounded, ZenonT(30)
<1>2. \A m \in T : ~(m < n)
  BY <1>1, ZenonT(30) DEF OpToRel
<1> QED
  BY <1>2, SMT

(* A part of a finite set, and what is left when its first element goes.   *)
LEMMA PickedPart ==
    ASSUME NEW S, IsFiniteSet(S), NEW s \in SUBSET S
    PROVE  /\ Cardinality(s) \in Nat
           /\ IsFiniteSet(s)
           /\ s # {} => Pick(s) \in s
           /\ \A x \in s : /\ s \ {x} \in SUBSET S
                           /\ Cardinality(s \ {x}) = Cardinality(s) - 1
           /\ (Cardinality(s) = 0) <=> (s = {})
<1>1. IsFiniteSet(s) /\ Cardinality(s) \in Nat
  BY FS_Subset, FS_CardinalityType
<1>2. \A x \in s : Cardinality(s \ {x}) = Cardinality(s) - 1
  BY <1>1, FS_RemoveElement
<1>3. (Cardinality(s) = 0) <=> (s = {})
  BY <1>1, FS_EmptySet
<1>4. s # {} => Pick(s) \in s
  BY DEF Pick
<1> QED
  BY <1>1, <1>2, <1>3, <1>4

(* The recursion of MapThenSumSet has a solution.                          *)
LEMMA SumExists ==
    ASSUME NEW S, NEW f, Summable(f, S)
    PROVE  \E g : IsSum(g, f, S)
<1>0. IsFiniteSet(S) /\ \A x \in S : f[x] \in Nat
  BY DEF Summable
<1> DEFINE Next1(g, s) == IF s = {} THEN 0 ELSE f[Pick(s)] + g[s \ {Pick(s)}]
           Good(n) == \E g \in [SUBSET S -> Nat] :
                         \A s \in SUBSET S : Cardinality(s) <= n => g[s] = Next1(g, s)
           T == {n \in Nat : ~Good(n)}
<1>1. Good(0)
  <2> DEFINE g == [s \in SUBSET S |-> 0]
  <2>1. g \in [SUBSET S -> Nat]
    OBVIOUS
  <2>2. ASSUME NEW s \in SUBSET S, Cardinality(s) <= 0
        PROVE  s = {}
    BY <1>0, <2>2, PickedPart, SMT
  <2>3. \A s \in SUBSET S : Cardinality(s) <= 0 => g[s] = Next1(g, s)
    BY <2>2
  <2> QED
    BY <2>1, <2>3
<1>2. ASSUME NEW n \in Nat, Good(n)
      PROVE  Good(n + 1)
  <2>1. PICK g \in [SUBSET S -> Nat] :
           \A s \in SUBSET S : Cardinality(s) <= n => g[s] = Next1(g, s)
    BY <1>2
  <2> DEFINE h == [s \in SUBSET S |-> Next1(g, s)]
  <2>2. h \in [SUBSET S -> Nat]
    <3>1. ASSUME NEW s \in SUBSET S
          PROVE  Next1(g, s) \in Nat
      <4>1. CASE s = {}
        BY <4>1
      <4>2. CASE s # {}
        <5>1. Pick(s) \in S /\ s \ {Pick(s)} \in SUBSET S
          BY <1>0, <4>2, PickedPart
        <5>2. f[Pick(s)] \in Nat /\ g[s \ {Pick(s)}] \in Nat
          BY <1>0, <5>1
        <5> QED
          BY <4>2, <5>2, SMT
      <4> QED
        BY <4>1, <4>2
    <3> QED
      BY <3>1
  <2>3. ASSUME NEW s \in SUBSET S, Cardinality(s) <= n
        PROVE  h[s] = g[s]
    BY <2>1, <2>3
  <2>4. ASSUME NEW s \in SUBSET S, Cardinality(s) <= n + 1, s # {}
        PROVE  h[s \ {Pick(s)}] = g[s \ {Pick(s)}]
    <3>1. s \ {Pick(s)} \in SUBSET S /\ Cardinality(s \ {Pick(s)}) <= n
      BY <1>0, <2>4, PickedPart, SMT
    <3> QED
      BY <2>3, <3>1
  <2>5. \A s \in SUBSET S : Cardinality(s) <= n + 1 => h[s] = Next1(h, s)
    BY <2>4
  <2> HIDE DEF h
  <2> QED
    BY <2>2, <2>5
<1>3. \A n \in Nat : Good(n)
  <2> HIDE DEF Good
  <2> SUFFICES ASSUME T # {} PROVE FALSE
    OBVIOUS
  <2>1. PICK n \in T : \A m \in T : n <= m
    BY LeastElement
  <2>2. n # 0 /\ n \in Nat
    BY <1>1
  <2>3. n - 1 \in Nat /\ ~(n <= n - 1) /\ (n - 1) + 1 = n
    BY <2>2, SMT
  <2>4. Good(n - 1)
    BY <2>1, <2>3
  <2> QED
    BY <1>2, <2>3, <2>4
<1>4. Cardinality(S) \in Nat
  BY <1>0, FS_CardinalityType
<1>5. PICK g \in [SUBSET S -> Nat] :
         \A s \in SUBSET S : Cardinality(s) <= Cardinality(S) => g[s] = Next1(g, s)
  BY <1>3, <1>4
<1>6. \A s \in SUBSET S : Cardinality(s) <= Cardinality(S)
  BY <1>0, FS_Subset
<1>7. \A s \in SUBSET S : g[s] = Next1(g, s)
  BY <1>5, <1>6
<1>8. g = [s \in SUBSET S |-> Next1(g, s)]
  <2> HIDE DEF Next1
  <2> QED
    BY <1>7
<1> QED
  BY <1>8 DEF IsSum

LEMMA SumTyped ==
    ASSUME NEW S, NEW f, Summable(f, S), NEW g, IsSum(g, f, S)
    PROVE  /\ g[{}] = 0
           /\ \A s \in SUBSET S : /\ g[s] \in Nat
                                  /\ s # {} => g[s] = f[Pick(s)] + g[s \ {Pick(s)}]
<1>0. IsFiniteSet(S) /\ \A x \in S : f[x] \in Nat
  BY DEF Summable
<1>1. \A s \in SUBSET S : g[s] = IF s = {} THEN 0 ELSE f[Pick(s)] + g[s \ {Pick(s)}]
  BY DEF IsSum
<1>2. g[{}] = 0
  BY <1>1
<1> DEFINE T == {n \in Nat : \E s \in SUBSET S : Cardinality(s) = n /\ g[s] \notin Nat}
<1>3. ASSUME NEW s \in SUBSET S, g[s] \notin Nat
      PROVE  FALSE
  <2>1. T # {}
    BY <1>0, <1>3, PickedPart
  <2>2. PICK n \in T : \A m \in T : n <= m
    <3> HIDE DEF T
    <3>1. T \subseteq Nat
      BY DEF T
    <3> QED
      BY <2>1, <3>1, LeastElement
  <2>3. PICK u \in SUBSET S : Cardinality(u) = n /\ g[u] \notin Nat
    OBVIOUS
  <2>4. u # {}
    BY <1>2, <2>3, SMT
  <2>5. /\ Pick(u) \in S /\ u \ {Pick(u)} \in SUBSET S
        /\ Cardinality(u \ {Pick(u)}) = n - 1 /\ n - 1 \in Nat
    <3>1. Cardinality(u \ {Pick(u)}) \in Nat /\ Pick(u) \in u /\ u \ {Pick(u)} \in SUBSET S
      BY <1>0, <2>4, PickedPart, SMT
    <3> QED
      BY <1>0, <2>3, <2>4, <3>1, PickedPart, SMT
  <2>6. g[u] = f[Pick(u)] + g[u \ {Pick(u)}]
    BY <1>1, <2>4
  <2>7. g[u \ {Pick(u)}] \notin Nat
    BY <1>0, <2>3, <2>5, <2>6, SMT
  <2>8. n - 1 \in T /\ ~(n <= n - 1)
    BY <2>5, <2>7, SMT
  <2> QED
    BY <2>2, <2>8
<1> QED
  BY <1>1, <1>2, <1>3

(* Any element may be taken out first.                                     *)
LEMMA SumRemove ==
    ASSUME NEW S, NEW f, Summable(f, S), NEW g, IsSum(g, f, S),
           NEW s \in SUBSET S, NEW y \in s
    PROVE  g[s] = f[y] + g[s \ {y}]
<1>0. IsFiniteSet(S) /\ \A x \in S : f[x] \in Nat
  BY DEF Summable
<1>1. \A u \in SUBSET S : /\ g[u] \in Nat
                          /\ u # {} => g[u] = f[Pick(u)] + g[u \ {Pick(u)}]
  BY SumTyped, SMT
<1> DEFINE Bad(u) == \E x \in u : g[u] # f[x] + g[u \ {x}]
           T == {n \in Nat : \E u \in SUBSET S : Cardinality(u) = n /\ Bad(u)}
<1> SUFFICES ASSUME T # {} PROVE FALSE
  <2>1. Cardinality(s) \in Nat
    BY <1>0, PickedPart
  <2> QED
    BY <2>1
<1>2. PICK n \in T : \A m \in T : n <= m
  <2> HIDE DEF T
  <2>1. T \subseteq Nat
    BY DEF T
  <2> QED
    BY <2>1, LeastElement
<1>3. PICK u \in SUBSET S : Cardinality(u) = n /\ Bad(u)
  OBVIOUS
<1>4. PICK x \in u : g[u] # f[x] + g[u \ {x}]
  BY <1>3
<1> DEFINE p == Pick(u)
<1>5. p \in u /\ g[u] = f[p] + g[u \ {p}] /\ p # x
  BY <1>0, <1>1, <1>4, PickedPart
<1> HIDE DEF p
<1>6. ASSUME NEW z \in u
      PROVE  /\ u \ {z} \in SUBSET S
             /\ \A w \in u \ {z} : g[u \ {z}] = f[w] + g[(u \ {z}) \ {w}]
  <2>1. u \ {z} \in SUBSET S /\ Cardinality(u \ {z}) = n - 1 /\ Cardinality(u \ {z}) \in Nat
    <3>1. u \ {z} \in SUBSET S
      OBVIOUS
    <3> QED
      BY <1>0, <1>3, <3>1, PickedPart, SMT
  <2>2. n - 1 \notin T
    BY <1>2, <2>1, SMT
  <2>3. ~Bad(u \ {z})
    BY <2>1, <2>2
  <2> QED
    BY <2>1, <2>3
<1>7. (u \ {p}) \ {x} = (u \ {x}) \ {p} /\ x \in u \ {p} /\ p \in u \ {x}
  BY <1>5
<1> DEFINE r == (u \ {p}) \ {x}
<1>8. g[u \ {p}] = f[x] + g[r] /\ g[u \ {x}] = f[p] + g[r]
  BY <1>5, <1>6, <1>7
<1>9. r \in SUBSET S /\ g[r] \in Nat /\ f[x] \in Nat /\ f[p] \in Nat
  BY <1>0, <1>1, <1>5
<1> HIDE DEF r
<1>10. g[u] = f[p] + (f[x] + g[r])
  BY <1>5, <1>8
<1>11. f[p] + (f[x] + g[r]) = f[x] + (f[p] + g[r])
  BY <1>9, SMT
<1> QED
  BY <1>4, <1>8, <1>10, <1>11

(* Sums of the same numbers are the same, whatever the elements.           *)
LEMMA SumsAgree ==
    ASSUME NEW S, NEW f, Summable(f, S), NEW g, IsSum(g, f, S),
           NEW U, NEW e, Summable(e, U), NEW h, IsSum(h, e, U),
           NEW b \in Bijection(S, U), \A x \in S : e[b[x]] = f[x]
    PROVE  g[S] = h[U]
<1>0. IsFiniteSet(S) /\ \A x \in S : f[x] \in Nat
  BY DEF Summable
<1> DEFINE Image(s) == {b[x] : x \in s}
           T == {n \in Nat : \E s \in SUBSET S : Cardinality(s) = n /\ g[s] # h[Image(s)]}
<1>1. /\ \A x \in S : b[x] \in U
      /\ \A x, y \in S : b[x] = b[y] => x = y
      /\ \A y \in U : \E x \in S : b[x] = y
  BY DEF Bijection, Injection, Surjection, IsInjective
<1>2. Image(S) = U
  BY <1>1, SMT
<1> SUFFICES ASSUME T # {} PROVE FALSE
  <2>1. Cardinality(S) \in Nat /\ S \in SUBSET S
    BY <1>0, FS_CardinalityType
  <2> HIDE DEF Image
  <2> QED
    BY <1>2, <2>1
<1>3. PICK n \in T : \A m \in T : n <= m
  <2> HIDE DEF T
  <2>1. T \subseteq Nat
    BY DEF T
  <2> QED
    BY <2>1, LeastElement
<1>4. PICK s \in SUBSET S : Cardinality(s) = n /\ g[s] # h[Image(s)]
  OBVIOUS
<1>5. s # {}
  <2>1. g[{}] = 0 /\ h[{}] = 0
    BY SumTyped
  <2>2. Image({}) = {}
    OBVIOUS
  <2> QED
    BY <1>4, <2>1, <2>2
<1>6. PICK x \in s : TRUE
  BY <1>5
<1>7. g[s] = f[x] + g[s \ {x}]
  BY SumRemove, SMT
<1>8. h[Image(s)] = e[b[x]] + h[Image(s) \ {b[x]}]
  <2>1. Image(s) \in SUBSET U /\ b[x] \in Image(s)
    BY <1>1, SMT
  <2> HIDE DEF Image
  <2> QED
    BY <2>1, SumRemove, SMT
<1>9. Image(s) \ {b[x]} = Image(s \ {x})
  BY <1>1, SMT
<1>10. g[s \ {x}] = h[Image(s \ {x})]
  <2>1. s \ {x} \in SUBSET S /\ Cardinality(s \ {x}) = n - 1 /\ Cardinality(s \ {x}) \in Nat
    <3>1. s \ {x} \in SUBSET S
      OBVIOUS
    <3> QED
      BY <1>0, <1>4, <3>1, PickedPart, SMT
  <2> HIDE DEF Image
  <2>2. n - 1 \notin T
    <3>1. n \in Nat
      OBVIOUS
    <3> HIDE DEF T
    <3> QED
      BY <1>3, <2>1, <3>1, SMT
  <2> QED
    BY <2>1, <2>2
<1>11. e[b[x]] = f[x]
  OBVIOUS
<1> HIDE DEF Image
<1> QED
  BY <1>4, <1>7, <1>8, <1>9, <1>10, <1>11

LEMMA TotalsAgree ==
    ASSUME NEW S, NEW f, Summable(f, S), NEW U, NEW e, Summable(e, U),
           NEW b \in Bijection(S, U), \A x \in S : e[b[x]] = f[x]
    PROVE  Total(f, S) = Total(e, U)
<1> DEFINE g == CHOOSE z : IsSum(z, f, S)
           h == CHOOSE z : IsSum(z, e, U)
<1>1. IsSum(g, f, S)
  BY SumExists
<1>2. IsSum(h, e, U)
  BY SumExists
<1>3. Total(f, S) = g[S] /\ Total(e, U) = h[U]
  BY DEF Total
<1> HIDE DEF g, h
<1> QED
  BY <1>1, <1>2, <1>3, SumsAgree, SMT

LEMMA TotalIsSum ==
    ASSUME NEW S, NEW f, Summable(f, S), NEW g, IsSum(g, f, S)
    PROVE  Total(f, S) = g[S] /\ Total(f, S) \in Nat
<1> DEFINE h == CHOOSE z : IsSum(z, f, S)
           b == [x \in S |-> x]
<1>1. IsSum(h, f, S)
  BY SumExists
<1>2. Total(f, S) = h[S]
  BY DEF Total
<1>3. b \in Bijection(S, S) /\ \A x \in S : f[b[x]] = f[x]
  BY DEF Bijection, Injection, Surjection, IsInjective
<1> HIDE DEF h, b
<1>4. h[S] = g[S]
  BY <1>1, <1>3, SumsAgree, SMT
<1>5. h[S] \in Nat
  BY <1>1, SumTyped
<1> QED
  BY <1>2, <1>4, <1>5

LEMMA TotalEmpty ==
    ASSUME NEW f
    PROVE  Total(f, {}) = 0
<1>1. Summable(f, {})
  BY FS_EmptySet DEF Summable
<1>2. PICK g : IsSum(g, f, {})
  BY <1>1, SumExists
<1> QED
  BY <1>1, <1>2, SumTyped, TotalIsSum, SMT

LEMMA TotalRemove ==
    ASSUME NEW U, NEW f, Summable(f, U), NEW x \in U
    PROVE  Total(f, U) = f[x] + Total(f, U \ {x})
<1> DEFINE S == U \ {x}
<1>1. Summable(f, U) /\ Summable(f, S)
  BY FS_Subset DEF Summable
<1>2. S \in SUBSET U /\ U \ {x} = S
  OBVIOUS
<1> HIDE DEF S
<1>3. PICK g : IsSum(g, f, U)
  BY <1>1, SumExists
<1> DEFINE h == [s \in SUBSET S |-> g[s]]
<1>4. \A s \in SUBSET S : g[s] = IF s = {} THEN 0 ELSE f[Pick(s)] + g[s \ {Pick(s)}]
  BY <1>2, <1>3 DEF IsSum
<1>5. \A s \in SUBSET S : h[s \ {Pick(s)}] = g[s \ {Pick(s)}]
  OBVIOUS
<1>6. IsSum(h, f, S)
  BY <1>4, <1>5 DEF IsSum
<1>7. h[S] = g[S]
  OBVIOUS
<1> HIDE DEF h
<1>8. Total(f, S) = g[S]
  BY <1>1, <1>6, <1>7, TotalIsSum
<1>9. Total(f, U) = g[U]
  BY <1>1, <1>3, TotalIsSum
<1>10. g[U] = f[x] + g[U \ {x}]
  <2>1. U \in SUBSET U
    OBVIOUS
  <2> QED
    BY <1>1, <1>2, <1>3, <2>1, SumRemove, SMT
<1> QED
  BY <1>2, <1>8, <1>9, <1>10

(* The two sums of PlanFits are such totals.                               *)
HeldBy(plan, n) ==
    {i \in DOMAIN plan.basis.shards :
        \E j \in DOMAIN plan.stages :
            /\ plan.stages[j].node = n
            /\ plan.stages[j].shard = plan.basis.shards[i].id}

NeedOf(plan) == [i \in DOMAIN plan.basis.shards |->
                    plan.basis.shards[i].peak + plan.basis.reserve]

StagesAt(list, n) == {j \in DOMAIN list : list[j].node = n}

ReservedOf(list) == [j \in DOMAIN list |-> list[j].reserved]

LEMMA NeedsTotal ==
    ASSUME NEW plan, NEW n, Summable(NeedOf(plan), HeldBy(plan, n))
    PROVE  Needs(plan, n) = Total(NeedOf(plan), HeldBy(plan, n))
<1> DEFINE S == HeldBy(plan, n)
           f == NeedOf(plan)
           Body(g, s) ==
               IF s = {} THEN 0
               ELSE plan.basis.shards[Pick(s)].peak + plan.basis.reserve + g[s \ {Pick(s)}]
           iter == CHOOSE g : g = [s \in SUBSET S |-> Body(g, s)]
<1>1. Needs(plan, n) = iter[S]
  BY DEF Needs, MapThenSumSet, MapThenFoldSet, HeldBy, Pick
<1>2. \A s \in SUBSET S : s # {} => Pick(s) \in DOMAIN plan.basis.shards
  BY DEF Pick, HeldBy
<1>3. ASSUME NEW g, NEW s \in SUBSET S
      PROVE  Body(g, s) = IF s = {} THEN 0 ELSE f[Pick(s)] + g[s \ {Pick(s)}]
  BY <1>2 DEF NeedOf
<1>4. ASSUME NEW g
      PROVE  IsSum(g, f, S) <=> g = [s \in SUBSET S |-> Body(g, s)]
  <2> HIDE DEF S, f
  <2>1. [s \in SUBSET S |-> Body(g, s)]
           = [s \in SUBSET S |-> IF s = {} THEN 0 ELSE f[Pick(s)] + g[s \ {Pick(s)}]]
    <3> HIDE DEF Body
    <3> QED
      BY <1>3
  <2> QED
    BY <2>1 DEF IsSum
<1>5. PICK g : IsSum(g, f, S)
  BY SumExists
<1>6. iter = [s \in SUBSET S |-> Body(iter, s)]
  <2> HIDE DEF Body, S, f
  <2>1. g = [s \in SUBSET S |-> Body(g, s)]
    BY <1>4, <1>5
  <2> QED
    BY <2>1
<1> HIDE DEF iter
<1>7. IsSum(iter, f, S)
  BY <1>4, <1>6
<1> QED
  BY <1>1, <1>7, TotalIsSum

LEMMA ReservesTotal ==
    ASSUME NEW plan, NEW n, Summable(ReservedOf(plan.stages), StagesAt(plan.stages, n))
    PROVE  Reserves(plan, n) = Total(ReservedOf(plan.stages), StagesAt(plan.stages, n))
<1> DEFINE S == StagesAt(plan.stages, n)
           f == ReservedOf(plan.stages)
           Body(g, s) ==
               IF s = {} THEN 0 ELSE plan.stages[Pick(s)].reserved + g[s \ {Pick(s)}]
           iter == CHOOSE g : g = [s \in SUBSET S |-> Body(g, s)]
<1>1. Reserves(plan, n) = iter[S]
  BY DEF Reserves, MapThenSumSet, MapThenFoldSet, StagesAt, Pick
<1>2. \A s \in SUBSET S : s # {} => Pick(s) \in DOMAIN plan.stages
  BY DEF Pick, StagesAt
<1>3. ASSUME NEW g, NEW s \in SUBSET S
      PROVE  Body(g, s) = IF s = {} THEN 0 ELSE f[Pick(s)] + g[s \ {Pick(s)}]
  BY <1>2 DEF ReservedOf
<1>4. ASSUME NEW g
      PROVE  IsSum(g, f, S) <=> g = [s \in SUBSET S |-> Body(g, s)]
  <2> HIDE DEF S, f
  <2>1. [s \in SUBSET S |-> Body(g, s)]
           = [s \in SUBSET S |-> IF s = {} THEN 0 ELSE f[Pick(s)] + g[s \ {Pick(s)}]]
    <3> HIDE DEF Body
    <3> QED
      BY <1>3
  <2> QED
    BY <2>1 DEF IsSum
<1>5. PICK g : IsSum(g, f, S)
  BY SumExists
<1>6. iter = [s \in SUBSET S |-> Body(iter, s)]
  <2> HIDE DEF Body, S, f
  <2>1. g = [s \in SUBSET S |-> Body(g, s)]
    BY <1>4, <1>5
  <2> QED
    BY <2>1
<1> HIDE DEF iter
<1>7. IsSum(iter, f, S)
  BY <1>4, <1>6
<1> QED
  BY <1>1, <1>7, TotalIsSum

-------------------------------------------------------------------------------
(***************************************************************************)
(* Memory.  What is left on a node and what its stages reserve add up to   *)
(* what the node reported, from the first placement to the last.           *)
(***************************************************************************)
Distinct(shards) ==
    \A i, j \in DOMAIN shards : shards[i].id = shards[j].id => i = j

Unwrapped(shards, reserve) ==
    \A i \in DOMAIN shards : shards[i].peak + reserve < Width

(* The code assumes this of its inputs and does not test it: shard ids are *)
(* unique, and the sum of peak and reserve fits its 64 bits.               *)
SoundInputs ==
    /\ \A m \in Manifests : Distinct(m.shards) /\ Unwrapped(m.shards, 0)
    /\ \A input \in Inputs :
          Distinct(input.shards) /\ Unwrapped(input.shards, input.reserve)
    /\ \A memory \in Memories : \A n \in DOMAIN memory : memory[n] < Width

Suited(shard, stage) ==
    \E b \in Range(Backends[stage.node]) : b.kind = stage.backend /\ Suits(shard, b)

ReservedAt(n) == Total(ReservedOf(stages), StagesAt(stages, n))

FitInv ==
    job # NoJob =>
        /\ IsMemory(job.memory)
        /\ Distinct(job.shards) /\ Unwrapped(job.shards, job.reserve)
        /\ \A i \in DOMAIN stages :
              /\ stages[i].node \in DOMAIN job.memory
              /\ stages[i].reserved = OrderedShards(job.shards)[i].peak + job.reserve
              /\ Suited(OrderedShards(job.shards)[i], stages[i])
        /\ \A n \in DOMAIN job.memory : remaining[n] + ReservedAt(n) = job.memory[n]

LEMMA HalfIsLess ==
    ASSUME NEW a \in Nat, NEW b \in Nat, a < b
    PROVE  (a \div 2) + 0 < b
  BY SMT

(* The generated shards are named by their nodes.                          *)
LEMMA AutoShardsSound ==
    ASSUME NEW memory, IsMemory(memory), \A n \in DOMAIN memory : memory[n] < Width,
           NEW order \in MemberOrders(DOMAIN memory)
    PROVE  Distinct(AutoShards(order, memory)) /\ Unwrapped(AutoShards(order, memory), 0)
<1> DEFINE S == DOMAIN memory
           n == Cardinality(S)
           shards == AutoShards(order, memory)
<1>1. /\ IsFiniteSet(S) /\ n \in Nat /\ order \in [1..n -> S] /\ Range(order) = S
      /\ \A m \in S : memory[m] \in Nat
  BY FS_CardinalityType DEF MemberOrders, IsMemory
<1>2. \A i, j \in 1..n : order[i] = order[j] => i = j
  BY <1>1, OntoIsOneToOne
<1> HIDE DEF n
<1>3. /\ DOMAIN shards = 1..n
      /\ \A i \in 1..n : shards[i].id = order[i] /\ shards[i].peak = memory[order[i]] \div 2
  BY <1>1 DEF AutoShards
<1> HIDE DEF shards
<1>4. Distinct(shards)
  BY <1>2, <1>3, SMT DEF Distinct
<1>5. ASSUME NEW i \in 1..n
      PROVE  shards[i].peak + 0 < Width
  <2>1. memory[order[i]] \in Nat /\ memory[order[i]] < Width /\ Width \in Nat
    BY <1>1, SchedulerAssumption
  <2> QED
    BY <1>3, <2>1, HalfIsLess
<1>6. Unwrapped(shards, 0)
  BY <1>3, <1>5 DEF Unwrapped
<1> QED
  BY <1>4, <1>6 DEF shards

LEMMA RuntimeJobsSound ==
    ASSUME SoundInputs, manifest \in Manifests,
           NEW readable \in BOOLEAN, NEW memory \in Memories, NEW fence \in Fences,
           NEW input \in JobsFor(readable, memory, fence)
    PROVE  Distinct(input.shards) /\ Unwrapped(input.shards, input.reserve)
<1>1. CASE input = ManifestJob(memory, fence)
  BY <1>1 DEF ManifestJob, SoundInputs
<1>2. ASSUME NEW order \in MemberOrders(DOMAIN memory),
             input = AutoJob(order, memory, fence)
      PROVE  Distinct(input.shards) /\ Unwrapped(input.shards, input.reserve)
  <2>1. IsMemory(memory) /\ \A n \in DOMAIN memory : memory[n] < Width
    BY PlanningAssumption DEF SoundInputs
  <2>2. input.shards = AutoShards(order, memory) /\ input.reserve = 0
    BY <1>2 DEF AutoJob
  <2> QED
    BY <2>1, <2>2, AutoShardsSound
<1> QED
  BY <1>1, <1>2 DEF JobsFor

LEMMA FitBegins ==
    ASSUME NEW input, IsJob(input), Distinct(input.shards),
           Unwrapped(input.shards, input.reserve), BeginPlan(input)
    PROVE  FitInv'
<1>1. job' = input /\ stages' = <<>> /\ remaining' = input.memory
  BY DEF BeginPlan
<1>2. IsMemory(input.memory) /\ \A n \in DOMAIN input.memory : input.memory[n] \in Nat
  BY DEF IsJob, IsMemory
<1>3. ASSUME NEW n \in DOMAIN input.memory
      PROVE  remaining'[n] + ReservedAt(n)' = input.memory[n]
  <2>1. StagesAt(<<>>, n) = {}
    BY SMT DEF StagesAt
  <2>2. ReservedAt(n)' = 0
    BY <1>1, <2>1, TotalEmpty DEF ReservedAt
  <2> QED
    BY <1>1, <1>2, <2>2, SMT
<1> QED
  BY <1>1, <1>2, <1>3, SMT DEF FitInv

(* What the next shard needs, without a wrap.                              *)
LEMMA NextShard ==
    ASSUME JobInv, FitInv, Placing
    PROVE  /\ Shard.peak \in Nat
           /\ Required(Shard) = Shard.peak + job.reserve
           /\ Required(Shard) \in Nat
<1>1. /\ job # NoJob /\ IsShardList(job.shards) /\ job.reserve \in Nat /\ PlacedSoFar
      /\ Len(stages) < Len(job.shards) /\ Unwrapped(job.shards, job.reserve)
  BY DEF Placing, JobInv, FitInv
<1> DEFINE k == Len(stages) + 1
<1>2. k \in DOMAIN job.shards
  BY <1>1, SMT DEF IsShardList, PlacedSoFar, IsSeq
<1>3. PICK p \in Bijection(DOMAIN job.shards, DOMAIN job.shards) :
         \A i \in DOMAIN job.shards : OrderedShards(job.shards)[i] = job.shards[p[i]]
  BY <1>1, SortRearranges
<1>4. p[k] \in DOMAIN job.shards /\ Shard = job.shards[p[k]]
  BY <1>2, <1>3 DEF Bijection, Injection, Shard
<1>5. Shard.peak \in Nat /\ Shard.peak + job.reserve < Width
  BY <1>1, <1>4 DEF IsShardList, Unwrapped
<1>6. PICK x \in Nat : x = Shard.peak + job.reserve
  BY <1>1, <1>5, SMT
<1>7. x % Width = x
  BY <1>5, <1>6, SchedulerAssumption, SMT
<1> QED
  BY <1>5, <1>6, <1>7 DEF Required

(* The backend recorded for a stage is one the shard accepts.              *)
LEMMA FoundBackendSuits ==
    ASSUME NEW shard, NEW n \in Nodes, CompatibleAt(shard, n) # {}
    PROVE  \E b \in Range(Backends[n]) :
              b.kind = FindCompatibleBackend(shard, n) /\ Suits(shard, b)
<1> DEFINE C == CompatibleAt(shard, n)
<1>1. DOMAIN Backends[n] \subseteq Nat
  BY BackendsAssumption, SMT
<1>2. C \subseteq Nat /\ C \subseteq DOMAIN Backends[n]
  BY <1>1 DEF CompatibleAt
<1>3. \E x \in C : \A y \in C : x <= y
  <2> HIDE DEF C
  <2> QED
    BY <1>2, LeastElement DEF C
<1>4. Min(C) \in C
  <2> HIDE DEF C
  <2> QED
    BY <1>3 DEF Min
<1>5. Suits(shard, Backends[n][Min(C)])
  BY <1>4 DEF CompatibleAt
<1>6. Backends[n][Min(C)] \in Range(Backends[n])
  BY <1>2, <1>4 DEF Range
<1> QED
  BY <1>5, <1>6 DEF FindCompatibleBackend

LEMMA SameTotal ==
    ASSUME NEW S, NEW f, Summable(f, S), NEW e, \A x \in S : e[x] = f[x]
    PROVE  Total(e, S) = Total(f, S)
<1> DEFINE b == [x \in S |-> x]
<1>1. b \in Bijection(S, S) /\ \A x \in S : e[b[x]] = f[x]
  BY DEF Bijection, Injection, Surjection, IsInjective
<1>2. Summable(e, S)
  BY DEF Summable
<1> HIDE DEF b
<1> QED
  BY <1>1, <1>2, TotalsAgree, SMT

LEMMA IntervalFinite ==
    ASSUME NEW k \in Nat
    PROVE  IsFiniteSet(1..k)
  BY FS_Interval, SMT

(* The stages of a node can be added up.                                   *)
LEMMA StagesSummable ==
    ASSUME NEW list, NEW k \in Nat, DOMAIN list = 1..k,
           \A i \in 1..k : list[i].reserved \in Nat, NEW n
    PROVE  Summable(ReservedOf(list), StagesAt(list, n))
<1>1. IsFiniteSet(1..k)
  BY IntervalFinite
<1>2. StagesAt(list, n) \subseteq 1..k
  BY DEF StagesAt
<1>3. IsFiniteSet(StagesAt(list, n))
  BY <1>1, <1>2, FS_Subset
<1>4. \A i \in 1..k : ReservedOf(list)[i] \in Nat
  BY DEF ReservedOf
<1> QED
  BY <1>2, <1>3, <1>4 DEF Summable

(* A placement moves what it reserves from one side of the sum to the      *)
(* other.                                                                  *)
LEMMA FitPlaces ==
    ASSUME JobInv, FitInv, NEW n \in Nodes, PlaceShard(n)
    PROVE  FitInv'
<1>1. /\ Placing /\ job # NoJob /\ job' = job
      /\ n \in Candidates(Shard)
      /\ remaining' = [remaining EXCEPT ![n] = @ - Required(Shard)]
      /\ stages' = Append(stages, Assignment(Shard, n))
  BY DEF PlaceShard, Placing
<1>2. /\ remaining \in [DOMAIN job.memory -> Nat] /\ PlacedSoFar /\ IsShardList(job.shards)
      /\ job.reserve \in Nat /\ IsMemory(job.memory)
      /\ Distinct(job.shards) /\ Unwrapped(job.shards, job.reserve)
  BY <1>1 DEF JobInv, FitInv
<1>3. n \in DOMAIN job.memory /\ remaining[n] >= Required(Shard) /\ CompatibleAt(Shard, n) # {}
  <2>1. n \in Accepting(Shard)
    BY <1>1 DEF Candidates
  <2> QED
    BY <1>2, <2>1 DEF Accepting, Accepts
<1>4. /\ Shard.peak \in Nat
      /\ Required(Shard) = Shard.peak + job.reserve
      /\ Required(Shard) \in Nat
  BY <1>1, NextShard
<1> DEFINE k == Len(stages) + 1
           a == Assignment(Shard, n)
<1>5. Len(stages) \in Nat /\ DOMAIN stages = 1..Len(stages)
  BY <1>2, SMT DEF PlacedSoFar, IsSeq
<1>6. a.node = n /\ a.reserved = Required(Shard) /\ a.backend = FindCompatibleBackend(Shard, n)
  BY DEF Assignment
<1>7. Shard = OrderedShards(job.shards)[k]
  BY DEF Shard
<1> HIDE DEF a
<1>8. /\ DOMAIN stages' = 1..k /\ k \in Nat
      /\ stages'[k] = a
      /\ \A i \in 1..Len(stages) : stages'[i] = stages[i]
  <2>1. stages \in Seq(Range(stages)) /\ stages' = Append(stages, a)
    BY <1>1, <1>2 DEF PlacedSoFar, IsSeq, a
  <2> QED
    BY <1>5, <2>1, SMT
<1>9. \A i \in 1..k : i = k \/ i \in 1..Len(stages)
  BY <1>5, SMT
<1>10. Suited(Shard, a)
  BY <1>3, <1>6, FoundBackendSuits DEF Suited
<1>11. ASSUME NEW i \in 1..k
       PROVE  /\ stages'[i].node \in DOMAIN job.memory
              /\ stages'[i].reserved = OrderedShards(job.shards)[i].peak + job.reserve
              /\ Suited(OrderedShards(job.shards)[i], stages'[i])
  <2>1. CASE i = k
    BY <1>3, <1>4, <1>6, <1>7, <1>8, <1>10, <2>1
  <2>2. CASE i \in 1..Len(stages)
    BY <1>1, <1>5, <1>8, <2>2 DEF FitInv
  <2> QED
    BY <1>9, <2>1, <2>2
<1>12. \A i \in 1..Len(stages) : stages[i].reserved \in Nat
  <2> SUFFICES ASSUME NEW i \in 1..Len(stages) PROVE stages[i].reserved \in Nat
    OBVIOUS
  <2>1. PICK p \in Bijection(DOMAIN job.shards, DOMAIN job.shards) :
           \A j \in DOMAIN job.shards : OrderedShards(job.shards)[j] = job.shards[p[j]]
    BY <1>2, SortRearranges
  <2>2. i \in DOMAIN job.shards
    BY <1>2, <1>5, SMT DEF IsShardList, PlacedSoFar
  <2>3. p[i] \in DOMAIN job.shards /\ OrderedShards(job.shards)[i] = job.shards[p[i]]
    BY <2>1, <2>2 DEF Bijection, Injection
  <2>4. OrderedShards(job.shards)[i].peak \in Nat
    BY <1>2, <2>3 DEF IsShardList
  <2>5. stages[i].reserved = OrderedShards(job.shards)[i].peak + job.reserve
    BY <1>1, <1>5 DEF FitInv
  <2> QED
    BY <1>2, <2>4, <2>5, SMT
<1>13. \A i \in 1..k : stages'[i].reserved \in Nat
  BY <1>4, <1>6, <1>8, <1>9, <1>12
<1> DEFINE f == ReservedOf(stages)
           e == ReservedOf(stages')
<1>14. e[k] = Required(Shard) /\ \A i \in 1..Len(stages) : e[i] = f[i]
  BY <1>5, <1>6, <1>8, <1>9, SMT DEF ReservedOf
<1> HIDE DEF k, f, e
<1>15. ASSUME NEW m \in DOMAIN job.memory
       PROVE  remaining'[m] + Total(e, StagesAt(stages', m)) = job.memory[m]
  <2> DEFINE S == StagesAt(stages, m)
  <2>1. Summable(f, S) /\ Summable(e, StagesAt(stages', m))
    BY <1>5, <1>8, <1>12, <1>13, StagesSummable DEF f, e
  <2>2. S \subseteq 1..Len(stages) /\ k \notin S
    BY <1>5, SMT DEF StagesAt, k
  <2>3. Total(e, S) = Total(f, S) /\ Total(f, S) \in Nat
    <3>1. \A x \in S : e[x] = f[x]
      BY <1>14, <2>2
    <3>2. \E g : IsSum(g, f, S)
      BY <2>1, SumExists
    <3> HIDE DEF S
    <3> QED
      BY <2>1, <3>1, <3>2, SameTotal, TotalIsSum
  <2>4. remaining[m] + Total(f, S) = job.memory[m] /\ remaining[m] \in Nat
    BY <1>1, <1>2 DEF FitInv, ReservedAt, f
  <2>5. CASE m = n
    <3> DEFINE U == StagesAt(stages', m)
    <3>1. k \in U /\ U \ {k} = S
      BY <1>5, <1>6, <1>8, <1>9, <2>2, <2>5, SMT DEF StagesAt, k
    <3>2. Total(e, U) = e[k] + Total(e, S)
      <4> HIDE DEF S, U
      <4> QED
        BY <2>1, <3>1, TotalRemove DEF U
    <3>3. remaining'[m] = remaining[m] - Required(Shard)
      BY <1>1, <1>2, <2>5
    <3> HIDE DEF S
    <3> QED
      BY <1>3, <1>4, <1>14, <2>3, <2>4, <2>5, <3>1, <3>2, <3>3, SMT
  <2>6. CASE m # n
    <3>1. StagesAt(stages', m) = S
      BY <1>5, <1>6, <1>8, <1>9, <2>6, SMT DEF StagesAt, k
    <3>2. remaining'[m] = remaining[m]
      BY <1>1, <1>2, <2>6
    <3> QED
      BY <2>3, <2>4, <3>1, <3>2
  <2> QED
    BY <2>5, <2>6
<1> QED
  BY <1>1, <1>2, <1>8, <1>11, <1>15 DEF FitInv, ReservedAt, e

(* The sorts of a finished plan change neither sum.                        *)
LEMMA MadeFits ==
    ASSUME JobInv, FitInv, Placed, NEW order \in FinalOrders, NEW plan, plan = Issued(order)
    PROVE  /\ \A n \in DOMAIN plan.basis.memory :
                 /\ Needs(plan, n) <= plan.basis.memory[n]
                 /\ Reserves(plan, n) = Needs(plan, n)
           /\ \A j \in DOMAIN plan.stages :
                 /\ plan.stages[j].node \in DOMAIN plan.basis.memory
                 /\ \E b \in Range(Backends[plan.stages[j].node]) :
                       b.kind = plan.stages[j].backend /\ Suits(ShardOf(plan, j), b)
<1> DEFINE c == Len(job.shards)
           shards == job.shards
<1>1. /\ job # NoJob /\ Len(stages) = c
      /\ IsShardList(shards) /\ job.reserve \in Nat /\ PlacedSoFar
      /\ remaining \in [DOMAIN job.memory -> Nat]
      /\ IsMemory(job.memory) /\ Distinct(shards)
  BY DEF Placed, JobInv, FitInv
<1>2. c \in Nat /\ DOMAIN shards = 1..c /\ DOMAIN stages = 1..c
  BY <1>1, SMT DEF IsShardList, PlacedSoFar, IsSeq
<1> HIDE DEF c
<1>3. plan.stages = InOrder(order) /\ plan.basis = job
  BY DEF Issued
<1>4. order \in Bijection(1..c, 1..c)
  BY <1>2, FinishedPlan
<1>5. \A i \in 1..c : order[i] \in 1..c
  BY <1>4 DEF Bijection, Injection
<1>51. \A i, j \in 1..c : order[i] = order[j] => i = j
  BY <1>4 DEF Bijection, Injection, IsInjective
<1>52. \A j \in 1..c : \E i \in 1..c : order[i] = j
  BY <1>4 DEF Bijection, Surjection
<1>6. DOMAIN plan.stages = 1..c /\ \A i \in 1..c : plan.stages[i] = stages[order[i]]
  BY <1>2, <1>3 DEF InOrder
<1>7. PICK p \in Bijection(1..c, 1..c) :
         \A i \in 1..c : OrderedShards(shards)[i] = shards[p[i]]
  BY <1>1, <1>2, SortRearranges, SMT
<1>8. \A i \in 1..c : p[i] \in 1..c
  BY <1>7 DEF Bijection, Injection
<1>81. \A i, j \in 1..c : p[i] = p[j] => i = j
  BY <1>7 DEF Bijection, Injection, IsInjective
<1>82. \A j \in 1..c : \E i \in 1..c : p[i] = j
  BY <1>7 DEF Bijection, Surjection
<1>9. ASSUME NEW i \in 1..c
      PROVE  /\ shards[p[i]].peak \in Nat
             /\ stages[i].shard = shards[p[i]].id
             /\ stages[i].reserved = shards[p[i]].peak + job.reserve
             /\ stages[i].reserved \in Nat
             /\ stages[i].node \in DOMAIN job.memory
             /\ Suited(shards[p[i]], stages[i])
  <2>1. OrderedShards(shards)[i] = shards[p[i]]
    BY <1>7
  <2>2. shards[p[i]].peak \in Nat
    <3>1. \A j \in 1..c : shards[j].peak \in Nat
      BY <1>1, <1>2 DEF IsShardList
    <3> QED
      BY <1>8, <3>1
  <2>3. stages[i].shard = shards[p[i]].id
    BY <1>1, <1>2, <2>1 DEF PlacedSoFar
  <2>4. /\ stages[i].reserved = shards[p[i]].peak + job.reserve
        /\ stages[i].node \in DOMAIN job.memory
        /\ Suited(shards[p[i]], stages[i])
    BY <1>1, <1>2, <2>1 DEF FitInv
  <2> QED
    BY <1>1, <2>2, <2>3, <2>4, SMT
<1> HIDE DEF shards
<1>10. plan.basis.shards = shards /\ plan.basis.reserve = job.reserve
       /\ plan.basis.memory = job.memory
  BY <1>3 DEF shards
<1>11. ASSUME NEW n \in DOMAIN job.memory
       PROVE  Needs(plan, n) <= job.memory[n] /\ Reserves(plan, n) = Needs(plan, n)
  <2> DEFINE f == ReservedOf(stages)
             S == StagesAt(stages, n)
             U == StagesAt(plan.stages, n)
             H == HeldBy(plan, n)
  <2>1. Summable(f, S)
    BY <1>2, <1>9, StagesSummable
  <2>2. Summable(ReservedOf(plan.stages), U)
    <3>1. \A i \in 1..c : plan.stages[i].reserved \in Nat
      BY <1>5, <1>6, <1>9
    <3>2. DOMAIN plan.stages = 1..c /\ c \in Nat
      BY <1>2, <1>6
    <3> QED
      BY <3>1, <3>2, StagesSummable
  <2>3. S \subseteq 1..c /\ U \subseteq 1..c /\ H \subseteq 1..c
    BY <1>2, <1>6, <1>10 DEF StagesAt, HeldBy
  <2>4. Summable(NeedOf(plan), H)
    <3>1. IsFiniteSet(H)
      BY <1>2, <2>3, FS_Interval, FS_Subset, SMT
    <3>2. ASSUME NEW i \in H
          PROVE  NeedOf(plan)[i] \in Nat
      <4>1. i \in 1..c /\ shards[i].peak \in Nat
        BY <1>1, <1>2, <2>3 DEF IsShardList
      <4>2. NeedOf(plan)[i] = shards[i].peak + job.reserve
        BY <1>2, <1>10, <4>1 DEF NeedOf
      <4> QED
        BY <1>1, <4>1, <4>2, SMT
    <3> HIDE DEF H
    <3> QED
      BY <3>1, <3>2 DEF Summable
  <2>5. \A i \in 1..c : i \in U <=> order[i] \in S
    <3> SUFFICES ASSUME NEW i \in 1..c PROVE i \in U <=> order[i] \in S
      OBVIOUS
    <3>1. /\ i \in DOMAIN plan.stages /\ order[i] \in DOMAIN stages
          /\ plan.stages[i] = stages[order[i]]
      BY <1>2, <1>5, <1>6
    <3> QED
      BY <3>1 DEF StagesAt
  <2>6. \A i \in 1..c : i \in S <=> p[i] \in H
    <3>1. ASSUME NEW i \in 1..c, i \in S
          PROVE  p[i] \in H
      <4>1. PICK j \in 1..c : order[j] = i
        BY <1>52
      <4>2. plan.stages[j].node = n /\ plan.stages[j].shard = shards[p[i]].id
        BY <1>6, <1>9, <3>1, <4>1 DEF StagesAt
      <4>3. p[i] \in DOMAIN shards /\ j \in DOMAIN plan.stages
        BY <1>2, <1>6, <1>8
      <4> QED
        BY <1>10, <4>2, <4>3 DEF HeldBy
    <3>2. ASSUME NEW i \in 1..c, p[i] \in H
          PROVE  i \in S
      <4>1. PICK j \in 1..c : plan.stages[j].node = n /\ plan.stages[j].shard = shards[p[i]].id
        BY <1>6, <1>10, <3>2 DEF HeldBy
      <4>2. stages[order[j]].node = n /\ shards[p[order[j]]].id = shards[p[i]].id
        <5>1. order[j] \in 1..c /\ plan.stages[j] = stages[order[j]]
          BY <1>5, <1>6
        <5>2. stages[order[j]].shard = shards[p[order[j]]].id
          BY <1>9, <5>1
        <5> QED
          BY <4>1, <5>1, <5>2
      <4>3. order[j] = i
        <5>1. order[j] \in 1..c /\ p[order[j]] \in 1..c /\ p[i] \in 1..c
          BY <1>5, <1>8
        <5>2. p[order[j]] = p[i]
          BY <1>1, <1>2, <4>2, <5>1 DEF Distinct
        <5> QED
          BY <1>81, <5>1, <5>2
      <4> QED
        BY <1>2, <4>2, <4>3 DEF StagesAt
    <3> QED
      BY <3>1, <3>2
  <2>7. Total(ReservedOf(plan.stages), U) = Total(f, S)
    <3> DEFINE b == [i \in U |-> order[i]]
    <3>1. b \in Bijection(U, S)
      <4> HIDE DEF S, U
      <4>1. b \in [U -> S]
        BY <2>3, <2>5
      <4>2. \A i, j \in U : b[i] = b[j] => i = j
        BY <1>51, <2>3
      <4>3. \A k \in S : \E i \in U : b[i] = k
        BY <1>52, <2>3, <2>5
      <4> HIDE DEF b
      <4> QED
        BY <4>1, <4>2, <4>3 DEF Bijection, Injection, Surjection, IsInjective
    <3>2. ASSUME NEW i \in U
          PROVE  f[b[i]] = ReservedOf(plan.stages)[i]
      <4>1. i \in 1..c /\ b[i] = order[i] /\ order[i] \in 1..c
        BY <1>5, <2>3
      <4>2. f[order[i]] = stages[order[i]].reserved
        BY <1>2, <4>1 DEF ReservedOf
      <4>3. ReservedOf(plan.stages)[i] = plan.stages[i].reserved
        BY <1>6, <4>1 DEF ReservedOf
      <4> QED
        BY <1>6, <4>1, <4>2, <4>3
    <3> HIDE DEF b, f, S, U
    <3> QED
      BY <2>1, <2>2, <3>1, <3>2, TotalsAgree, SMT
  <2>8. Total(f, S) = Total(NeedOf(plan), H)
    <3> DEFINE b == [i \in S |-> p[i]]
    <3>1. b \in Bijection(S, H)
      <4> HIDE DEF S, H
      <4>1. b \in [S -> H]
        BY <2>3, <2>6
      <4>2. \A i, j \in S : b[i] = b[j] => i = j
        BY <1>81, <2>3
      <4>3. \A k \in H : \E i \in S : b[i] = k
        BY <1>82, <2>3, <2>6
      <4> HIDE DEF b
      <4> QED
        BY <4>1, <4>2, <4>3 DEF Bijection, Injection, Surjection, IsInjective
    <3>2. ASSUME NEW i \in S
          PROVE  NeedOf(plan)[b[i]] = f[i]
      <4>1. i \in 1..c /\ b[i] = p[i] /\ p[i] \in DOMAIN shards
        BY <1>2, <1>8, <2>3
      <4>2. NeedOf(plan)[p[i]] = shards[p[i]].peak + job.reserve
        BY <1>10, <4>1 DEF NeedOf
      <4>3. f[i] = stages[i].reserved
        BY <1>2, <4>1 DEF ReservedOf
      <4> QED
        BY <1>9, <4>1, <4>2, <4>3
    <3> HIDE DEF b, f, S, H
    <3> QED
      BY <2>1, <2>4, <3>1, <3>2, TotalsAgree, SMT
  <2>9. Needs(plan, n) = Total(f, S) /\ Reserves(plan, n) = Total(f, S)
    BY <2>2, <2>4, <2>7, <2>8, NeedsTotal, ReservesTotal
  <2>10. remaining[n] + Total(f, S) = job.memory[n] /\ remaining[n] \in Nat
    BY <1>1 DEF FitInv, ReservedAt
  <2>11. Total(f, S) \in Nat
    <3>1. PICK g : IsSum(g, f, S)
      BY <2>1, SumExists
    <3> QED
      BY <2>1, <3>1, TotalIsSum
  <2> HIDE DEF f, S
  <2>12. Total(f, S) <= job.memory[n]
    BY <2>10, <2>11, SMT
  <2> QED
    BY <2>9, <2>12
<1>12. ASSUME NEW j \in 1..c
       PROVE  /\ plan.stages[j].node \in DOMAIN job.memory
              /\ Suited(ShardOf(plan, j), plan.stages[j])
  <2>1. /\ order[j] \in 1..c /\ p[order[j]] \in DOMAIN shards
        /\ plan.stages[j] = stages[order[j]]
    BY <1>2, <1>5, <1>6, <1>8
  <2>2. /\ plan.stages[j].node \in DOMAIN job.memory
        /\ plan.stages[j].shard = shards[p[order[j]]].id
        /\ Suited(shards[p[order[j]]], plan.stages[j])
    BY <1>9, <2>1
  <2>3. /\ shards[p[order[j]]] \in Range(shards)
        /\ \A s \in Range(shards) : s.id = shards[p[order[j]]].id => s = shards[p[order[j]]]
    BY <1>1, <2>1 DEF Range, Distinct
  <2>4. ShardOf(plan, j) = shards[p[order[j]]]
    BY <1>10, <2>2, <2>3 DEF ShardOf
  <2> QED
    BY <2>2, <2>4
<1> QED
  BY <1>6, <1>10, <1>11, <1>12 DEF Suited

LEMMA FitStep ==
    ASSUME SoundInputs, StoreInv, FitInv, [Next]_vars
    PROVE  FitInv'
<1>1. JobInv /\ ManifestInv
  BY DEF StoreInv
<1>2. CASE UNCHANGED <<job, stages, remaining>>
  BY <1>2 DEF FitInv, ReservedAt
<1>3. ASSUME NEW readable \in BOOLEAN, NEW memory \in Memories, NEW fence \in Fences,
             SchedulePlan(readable, memory, fence)
      PROVE  FitInv'
  <2>1. PICK input \in JobsFor(readable, memory, fence) :
           IF Schedulable(input) THEN BeginPlan(input) ELSE UNCHANGED schedulerVars
    BY <1>3 DEF SchedulePlan
  <2>2. manifest \in Manifests /\ IsShardList(manifest.shards) /\ manifest.total \in Nat
    BY <1>1, ShardsAssumption DEF ManifestInv
  <2>3. IsJob(input)
    BY <2>2, RuntimeJobs
  <2>4. Distinct(input.shards) /\ Unwrapped(input.shards, input.reserve)
    BY <2>2, RuntimeJobsSound
  <2>5. CASE Schedulable(input)
    BY <2>1, <2>3, <2>4, <2>5, FitBegins
  <2>6. CASE ~Schedulable(input)
    BY <1>2, <2>1, <2>6 DEF schedulerVars
  <2> QED
    BY <2>5, <2>6
<1>4. ASSUME NEW input \in Inputs, CreatePlanDirectly(input)
      PROVE  FitInv'
  <2>1. IsJob(input) /\ Distinct(input.shards) /\ Unwrapped(input.shards, input.reserve)
    BY ShardsAssumption DEF IsJob, SoundInputs
  <2>2. CASE Schedulable(input)
    BY <1>4, <2>1, <2>2, FitBegins DEF CreatePlanDirectly
  <2>3. CASE ~Schedulable(input)
    BY <1>2, <1>4, <2>3 DEF CreatePlanDirectly, schedulerVars
  <2> QED
    BY <2>2, <2>3
<1>5. CASE \E n \in Nodes : Place(n)
  BY <1>1, <1>5, FitPlaces DEF Place
<1>6. CASE PlanFails \/ MakePlan \/ Crash
  BY <1>6 DEF PlanFails, MakePlan, Crash, EndPlan, FitInv
<1>7. CASE \/ Store \/ Erase \/ StopStart \/ UNCHANGED vars
           \/ \E p \in 0..MaxPosition : OfferToken(p)
  BY <1>2, <1>7 DEF Store, Erase, StopStart, OfferToken, vars, schedulerVars
<1> QED
  BY <1>3, <1>4, <1>5, <1>6, <1>7 DEF Next

(***************************************************************************)
(* No plan create_plan returns gives a node more than the memory it        *)
(* reported, its stages reserve what their shards need, and every stage    *)
(* has a backend that suits it, for any members, shards, reserves and      *)
(* backends, provided that shard ids are unique and memory sums fit 64     *)
(* bits, neither of which the code tests.                                  *)
(***************************************************************************)
THEOREM PlansFit ==
    ASSUME SoundInputs
    PROVE  Spec => []PlanFits
<1>1. Init => FitInv /\ PlanFits
  <2> SUFFICES ASSUME Init PROVE FitInv /\ PlanFits
    OBVIOUS
  <2>1. job = NoJob /\ made = NoPlan
    BY DEF Init, SchedulerInit
  <2> QED
    BY <2>1 DEF FitInv, PlanFits
<1>2. ASSUME StoreInv, FitInv, PlanFits, [Next]_vars
      PROVE  FitInv' /\ PlanFits'
  <2>1. FitInv'
    BY <1>2, FitStep
  <2>2. CASE MakePlan
    <3>1. PICK order \in FinalOrders : made' = Issued(order)
      BY <2>2 DEF MakePlan
    <3>2. Placed /\ JobInv
      BY <1>2, <2>2 DEF MakePlan, StoreInv
    <3>3. /\ \A n \in DOMAIN made'.basis.memory :
                /\ Needs(made', n) <= made'.basis.memory[n]
                /\ Reserves(made', n) = Needs(made', n)
          /\ \A j \in DOMAIN made'.stages :
                /\ made'.stages[j].node \in DOMAIN made'.basis.memory
                /\ \E b \in Range(Backends[made'.stages[j].node]) :
                      b.kind = made'.stages[j].backend /\ Suits(ShardOf(made', j), b)
      BY <1>2, <3>1, <3>2, MadeFits
    <3> QED
      BY <2>1, <3>3 DEF PlanFits
  <2>3. CASE made' = NoPlan
    BY <2>1, <2>3 DEF PlanFits
  <2>4. CASE made' = made
    BY <1>2, <2>1, <2>4 DEF PlanFits
  <2> QED
    BY <1>2, <2>2, <2>3, <2>4, MadeByPlanner
<1> QED
  BY <1>1, <1>2, AlwaysStoreInv, PTL DEF Spec
===============================================================================
