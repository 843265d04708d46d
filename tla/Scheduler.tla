------------------------------- MODULE Scheduler -------------------------------
(***************************************************************************)
(* schedule_core (src/scheduler/memory_scheduler.cpp), the engine behind   *)
(* create_plan and refine_plan of both schedulers: shards are placed one   *)
(* after the other, most sensitive first, on the node with the most memory *)
(* left; then the layer ranges are checked and the stages put in order.    *)
(*                                                                         *)
(* A job is one SchedulingInput.  Members that are not alive, or have no   *)
(* capability profile, are outside DOMAIN job.memory.  std::sort leaves    *)
(* equal elements in any order, so ties are nondeterministic choices.      *)
(***************************************************************************)
EXTENDS Integers, Sequences, FiniteSets, FiniteSetsExt, Functions

CONSTANTS
    Nodes,       \* ids of the members a snapshot can hold
    Backends,    \* Backends[n]: CapabilityProfile::backends of node n, in order
    Width,       \* 2^64 in the code: memory amounts wrap here
    NoNode,      \* last_node is empty
    NoJob        \* no create_plan call is running

ASSUME SchedulerAssumption ==
    /\ Width \in Nat \ {0}
    /\ NoNode \notin Nodes
    /\ DOMAIN Backends = Nodes

ASSUME BackendsAssumption ==
    \A n \in Nodes : Backends[n] \in Seq(Range(Backends[n]))

VARIABLES
    job,         \* the SchedulingInput being placed
    stages,      \* plan.stages, in the order the shards were placed
    remaining,   \* NodeSlot::remaining_memory_bytes
    lastNode     \* last_node

schedulerVars == <<job, stages, remaining, lastNode>>

SchedulerInit ==
    /\ job = NoJob
    /\ stages = <<>>
    /\ remaining = <<>>
    /\ lastNode = NoNode

HasLayers(s) == s.layers # <<>>

(***************************************************************************)
(* find_compatible_backend: the first backend of the profile that the      *)
(* shard accepts and that offers any one of the compute units it requires; *)
(* an empty list of the shard accepts everything.                          *)
(***************************************************************************)
Suits(shard, backend) ==
    /\ shard.backends = {} \/ backend.kind \in shard.backends
    /\ shard.units = {} \/ shard.units \cap backend.units # {}

CompatibleAt(shard, n) == {i \in DOMAIN Backends[n] : Suits(shard, Backends[n][i])}

FindCompatibleBackend(shard, n) == Backends[n][Min(CompatibleAt(shard, n))].kind

(***************************************************************************)
(* std::stable_sort with sensitivity_descending.                           *)
(***************************************************************************)
MoreSensitive(shards, i, j) ==
    \/ shards[i].sensitivity > shards[j].sensitivity
    \/ shards[i].sensitivity = shards[j].sensitivity /\ i < j

OrderedShards(shards) ==
    [k \in DOMAIN shards |->
        shards[CHOOSE i \in DOMAIN shards :
                 Cardinality({j \in DOMAIN shards : MoreSensitive(shards, j, i)})
                     = k - 1]]

Shard == OrderedShards(job.shards)[Len(stages) + 1]

MutantRequiredUnreserved(shard) == shard.peak % Width

Required(shard) == (shard.peak + job.reserve) % Width

(***************************************************************************)
(* A range key that an earlier shard already put into                      *)
(* assigned_layer_ranges; every earlier shard has been placed.             *)
(***************************************************************************)
DuplicateRange(shard) ==
    HasLayers(shard) /\ \E i \in DOMAIN stages : stages[i].layers = shard.layers

MutantAccepts(shard, n) == CompatibleAt(shard, n) # {}

(***************************************************************************)
(* try_slot accepts.  With network links the last node is tried first;     *)
(* otherwise, and when it declines, the first node that accepts in order   *)
(* of remaining memory.                                                    *)
(***************************************************************************)
Accepts(shard, n) ==
    /\ remaining[n] >= Required(shard)
    /\ CompatibleAt(shard, n) # {}

Accepting(shard) == {n \in DOMAIN remaining : Accepts(shard, n)}

Candidates(shard) ==
    IF job.links /\ lastNode \in Accepting(shard)
    THEN {lastNode}
    ELSE {n \in Accepting(shard) :
            \A m \in Accepting(shard) : remaining[m] <= remaining[n]}

Assignment(shard, n) ==
    [ordinal |-> Len(stages), node |-> n, shard |-> shard.id, kind |-> shard.kind,
     layers |-> shard.layers, backend |-> FindCompatibleBackend(shard, n),
     reserved |-> Required(shard)]

(***************************************************************************)
(* The call starts: no shards is kInvalidArgument, no live member with a   *)
(* capability is kFailedPrecondition, anything else is placed.             *)
(***************************************************************************)
Schedulable(input) == input.shards # <<>> /\ DOMAIN input.memory # {}

BeginPlan(input) ==
    /\ job' = input
    /\ stages' = <<>>
    /\ remaining' = input.memory
    /\ lastNode' = NoNode

(***************************************************************************)
(* One turn of the placement loop.                                         *)
(***************************************************************************)
Placing == job # NoJob /\ Len(stages) < Len(job.shards)

PlaceShard(n) ==
    /\ Placing
    /\ ~DuplicateRange(Shard)
    /\ n \in Candidates(Shard)
    /\ remaining' = [remaining EXCEPT ![n] = @ - Required(Shard)]
    /\ stages' = Append(stages, Assignment(Shard, n))
    /\ lastNode' = n
    /\ UNCHANGED job

(***************************************************************************)
(* The errors of the loop: kInvalidArgument for a duplicate range,         *)
(* kResourceExhausted when no node accepts.                                *)
(***************************************************************************)
CannotPlace == Placing /\ (DuplicateRange(Shard) \/ Candidates(Shard) = {})

Placed == job # NoJob /\ Len(stages) = Len(job.shards)

(***************************************************************************)
(* The stages with layers, by start: each starts where the one before ends *)
(* and the last one ends at total_layers.  Plans without such a stage are  *)
(* not checked.  Ranges that start together fail the test in every order,  *)
(* unless one of them is empty.                                            *)
(***************************************************************************)
LayerStages == {i \in DOMAIN stages : HasLayers(stages[i])}

Sorted(order) ==
    \A i, j \in DOMAIN order :
        i < j => stages[order[i]].layers[1] <= stages[order[j]].layers[1]

LayerOrders ==
    {order \in [1..Cardinality(LayerStages) -> LayerStages] :
        Range(order) = LayerStages /\ Sorted(order)}

MutantContiguous(order) ==
    order # <<>> => stages[order[Len(order)]].layers[2] = job.total

Contiguous(order) ==
    /\ \A i \in DOMAIN order :
          stages[order[i]].layers[1]
              = IF i = 1 THEN 0 ELSE stages[order[i - 1]].layers[2]
    /\ order # <<>> => stages[order[Len(order)]].layers[2] = job.total

(***************************************************************************)
(* The final std::sort with by_layer_start: stages without layers first.   *)
(***************************************************************************)
ByLayerStart(a, b) ==
    \/ ~HasLayers(a) /\ HasLayers(b)
    \/ HasLayers(a) /\ HasLayers(b) /\ a.layers[1] < b.layers[1]

MutantFinalOrders == {[i \in DOMAIN stages |-> i]}

FinalOrders ==
    {order \in [DOMAIN stages -> DOMAIN stages] :
        /\ Range(order) = DOMAIN stages
        /\ \A i, j \in DOMAIN stages :
              i < j => ~ByLayerStart(stages[order[j]], stages[order[i]])}

InOrder(order) == [i \in DOMAIN stages |-> stages[order[i]]]

(***************************************************************************)
(* The call returns, with or without a plan, and its locals are gone.      *)
(***************************************************************************)
EndPlan ==
    /\ job' = NoJob
    /\ stages' = <<>>
    /\ remaining' = <<>>
    /\ lastNode' = NoNode
==============================================================================
