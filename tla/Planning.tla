-------------------------------- MODULE Planning --------------------------------
(***************************************************************************)
(* From a manifest to a stored plan: EdgeRuntimeImpl::schedule_plan        *)
(* (src/runtime/edge_runtime.cpp) publishes the manifest, has the          *)
(* scheduler place it, makes the result the active plan and saves it.      *)
(* The runtime may crash in any step and be stopped and started between    *)
(* two calls.  Scheduler and store are also called directly, with inputs   *)
(* schedule_plan never builds.                                             *)
(*                                                                         *)
(* A plan keeps, as "basis", the job it was made from: what the plan is    *)
(* judged against, not a field of PipelinePlan.                            *)
(***************************************************************************)
EXTENDS Scheduler, AssignmentStore

CONSTANTS
    Manifests,    \* what model_root/manifest.json may hold: [shards, total]
    Memories,     \* available memory of the members with a profile
    Fences,       \* terms election_->current() may carry
    Inputs,       \* jobs of direct create_plan callers
    AutoLayers,   \* total_layers of a generated plan, 32 in the code
    MaxLives      \* bound: starts of the runtime

(***************************************************************************)
(* The types of ShardOption and of the members' memory (scheduler.h).      *)
(***************************************************************************)
IsShardList(shards) ==
    /\ shards \in Seq(Range(shards))
    /\ \A i \in DOMAIN shards :
          /\ shards[i].peak \in Nat
          /\ shards[i].sensitivity \in Int
          /\ shards[i].layers = <<>> \/ shards[i].layers \in Nat \X Nat

IsMemory(memory) ==
    /\ memory \in [DOMAIN memory -> Nat]
    /\ DOMAIN memory \subseteq Nodes
    /\ IsFiniteSet(DOMAIN memory)

ASSUME PlanningAssumption ==
    /\ AutoLayers \in Nat \ {0}
    /\ MaxLives \in Nat \ {0}
    /\ \A memory \in Memories : IsMemory(memory)

ASSUME ShardsAssumption ==
    /\ \A m \in Manifests : IsShardList(m.shards) /\ m.total \in Nat
    /\ \A input \in Inputs :
          /\ input.caller # "runtime"
          /\ IsShardList(input.shards)
          /\ input.total \in Nat
          /\ input.reserve \in Nat
          /\ IsMemory(input.memory)

VARIABLES
    manifest,     \* the file on disk
    published,    \* its key is in ManifestRepositoryImpl::index_
    current,      \* current_plan_
    made,         \* what the last create_plan call returned
    lives         \* starts so far

planningVars == <<manifest, published, current, made, lives>>
vars == <<schedulerVars, storeVars, planningVars>>

Init ==
    /\ SchedulerInit
    /\ StoreInit
    /\ manifest \in Manifests
    /\ published = FALSE
    /\ current = NoPlan
    /\ made = NoPlan
    /\ lives = 1

(***************************************************************************)
(* ManifestRepositoryImpl::publish: a readable, well-formed file is        *)
(* accepted once; a second publication of its key is kAlreadyExists, and   *)
(* schedule_plan then has no shard options, as after any other error.      *)
(***************************************************************************)
Publishes(readable) == readable /\ ~published

ManifestJob(memory, fence) ==
    [caller |-> "runtime", model |-> "manifest", shards |-> manifest.shards,
     total |-> manifest.total, memory |-> memory, links |-> FALSE,
     reserve |-> 0, fence |-> fence]

(***************************************************************************)
(* The generated plan: a shard per live member with a profile, in the      *)
(* order of the member list, of equal layer counts, the last one extended  *)
(* to the end.                                                             *)
(***************************************************************************)
MemberOrders(S) ==
    {order \in [1..Cardinality(S) -> S] : Range(order) = S}

AutoRange(i, count) ==
    LET per == AutoLayers \div count
    IN  <<(i - 1) * per, IF i = count THEN AutoLayers ELSE i * per>>

AutoShards(order, memory) ==
    [i \in DOMAIN order |->
        [id |-> order[i], kind |-> "layers", layers |-> AutoRange(i, Len(order)),
         peak |-> memory[order[i]] \div 2, sensitivity |-> 0,
         backends |-> {"llama"}, units |-> {"cpu"}]]

AutoJob(order, memory, fence) ==
    [caller |-> "runtime", model |-> "auto-generated",
     shards |-> AutoShards(order, memory), total |-> AutoLayers,
     memory |-> memory, links |-> FALSE, reserve |-> 0, fence |-> fence]

JobsFor(readable, memory, fence) ==
    IF Publishes(readable) /\ manifest.shards # <<>>
    THEN {ManifestJob(memory, fence)}
    ELSE {AutoJob(order, memory, fence) : order \in MemberOrders(DOMAIN memory)}

(***************************************************************************)
(* join_cluster on the leader: schedule_plan up to the loop of             *)
(* schedule_core.  A job the scheduler refuses at once leaves the active   *)
(* plan as it was.                                                         *)
(***************************************************************************)
Idle == job = NoJob /\ step = "idle"

SchedulePlan(readable, memory, fence) ==
    /\ Idle
    /\ published' = (published \/ Publishes(readable))
    /\ made' = NoPlan
    /\ \E input \in JobsFor(readable, memory, fence) :
          IF Schedulable(input) THEN BeginPlan(input) ELSE UNCHANGED schedulerVars
    /\ UNCHANGED <<storeVars, manifest, current, lives>>

CreatePlanDirectly(input) ==
    /\ Idle
    /\ made' = NoPlan
    /\ IF Schedulable(input) THEN BeginPlan(input) ELSE UNCHANGED schedulerVars
    /\ UNCHANGED <<storeVars, manifest, published, current, lives>>

Place(n) == PlaceShard(n) /\ UNCHANGED <<storeVars, planningVars>>

(***************************************************************************)
(* schedule_core returns an error: a shard could not be placed, or the     *)
(* layers of the placed ones do not chain up.                              *)
(***************************************************************************)
PlanFails ==
    /\ \/ CannotPlace
       \/ Placed /\ \E order \in LayerOrders : ~Contiguous(order)
    /\ EndPlan
    /\ UNCHANGED <<storeVars, planningVars>>

Issued(order) ==
    [model |-> job.model, fence |-> job.fence, id |-> lives,
     stages |-> InOrder(order), basis |-> job]

(***************************************************************************)
(* schedule_core succeeds.  For schedule_plan the plan becomes active and, *)
(* unless it was generated, is saved; the result of save_plan is ignored.  *)
(***************************************************************************)
MakePlan ==
    /\ Placed
    /\ \E order \in LayerOrders : Contiguous(order)
    /\ \E order \in FinalOrders :
          /\ made' = Issued(order)
          /\ current' = IF job.caller = "runtime" THEN made' ELSE current
          /\ IF job.caller = "runtime" /\ job.model # "auto-generated"
             THEN SavePlan(made')
             ELSE UNCHANGED storeVars
    /\ EndPlan
    /\ UNCHANGED <<manifest, published, lives>>

Store == StoreStep /\ UNCHANGED <<schedulerVars, planningVars>>

OfferToken(p) == AppendToken(p) /\ UNCHANGED <<schedulerVars, planningVars>>

Erase == EraseTokenHistory /\ UNCHANGED <<schedulerVars, planningVars>>

(***************************************************************************)
(* The process dies and a new runtime starts on the same state directory.  *)
(***************************************************************************)
Crash ==
    /\ lives < MaxLives
    /\ lives' = lives + 1
    /\ published' = FALSE
    /\ current' = NoPlan
    /\ made' = NoPlan
    /\ EndPlan
    /\ StoreCrash
    /\ UNCHANGED manifest

(***************************************************************************)
(* stop() and start() of the same object: start() makes a new manifest     *)
(* repository and opens the store again; current_plan_ is not reset.       *)
(***************************************************************************)
StopStart ==
    /\ lives < MaxLives
    /\ Idle
    /\ lives' = lives + 1
    /\ published' = FALSE
    /\ UNCHANGED <<schedulerVars, storeVars, manifest, current, made>>

Next ==
    \/ \E readable \in BOOLEAN, memory \in Memories, fence \in Fences :
          SchedulePlan(readable, memory, fence)
    \/ \E input \in Inputs : CreatePlanDirectly(input)
    \/ \E n \in Nodes : Place(n)
    \/ PlanFails
    \/ MakePlan
    \/ Store
    \/ \E p \in 0..MaxPosition : OfferToken(p)
    \/ Erase
    \/ Crash
    \/ StopStart

Spec == Init /\ [][Next]_vars

(***************************************************************************)
(* The types: memory left is never negative, a job is under way only with  *)
(* members to place it on, and the store works only on a plan made from    *)
(* the manifest.                                                           *)
(***************************************************************************)
TypeOK ==
    /\ job # NoJob =>
          /\ Schedulable(job)
          /\ remaining \in [DOMAIN job.memory -> Nat]
          /\ Len(stages) <= Len(job.shards)
    /\ lastNode \in Nodes \cup {NoNode}
    /\ published \in BOOLEAN
    /\ lives \in 1..MaxLives
    /\ step \in {"idle", "begin", "plan", "delete", "insert"}
    /\ IF step = "idle" THEN saving = NoPlan
       ELSE saving.model = "manifest" /\ saving.id \in 1..lives
    /\ history \subseteq 0..MaxPosition
    /\ blind \in BOOLEAN

ShardIds(input) == {input.shards[i].id : i \in DOMAIN input.shards}

CoversShards(plan) ==
    /\ Len(plan.stages) = Len(plan.basis.shards)
    /\ {plan.stages[i].shard : i \in DOMAIN plan.stages} = ShardIds(plan.basis)

HoldingLayer(plan, l) ==
    {i \in DOMAIN plan.stages :
        /\ HasLayers(plan.stages[i])
        /\ plan.stages[i].layers[1] <= l
        /\ l < plan.stages[i].layers[2]}

CoversLayers(plan) ==
    (\E i \in DOMAIN plan.stages : HasLayers(plan.stages[i])) =>
        \A l \in 0..(plan.basis.total - 1) : Cardinality(HoldingLayer(plan, l)) = 1

(***************************************************************************)
(* A plan create_plan returns has every shard of its input in exactly one  *)
(* stage and, when it has layers at all, every layer of the model in       *)
(* exactly one of them, however the shards were ordered and placed.        *)
(***************************************************************************)
PlanIsComplete ==
    made # NoPlan => CoversShards(made) /\ CoversLayers(made)

Needs(plan, n) ==
    MapThenSumSet(
        LAMBDA i : plan.basis.shards[i].peak + plan.basis.reserve,
        {i \in DOMAIN plan.basis.shards :
            \E j \in DOMAIN plan.stages :
                /\ plan.stages[j].node = n
                /\ plan.stages[j].shard = plan.basis.shards[i].id})

Reserves(plan, n) ==
    MapThenSumSet(LAMBDA j : plan.stages[j].reserved,
                  {j \in DOMAIN plan.stages : plan.stages[j].node = n})

ShardOf(plan, j) ==
    CHOOSE s \in Range(plan.basis.shards) : s.id = plan.stages[j].shard

(***************************************************************************)
(* A plan create_plan returns fits by the scheduler's own account: the     *)
(* peaks of the shards given to a node, each with the reserve, need no     *)
(* more than the memory the node reported, its stages record just that     *)
(* need as reserved, and each runs on a backend of that node that it       *)
(* accepts and that offers one of its compute units.  The account leaves   *)
(* out estimated_kv_bytes_per_token, and one of several required units is  *)
(* enough for it; the blueprint asks for more in both.                     *)
(***************************************************************************)
PlanFits ==
    made # NoPlan =>
        /\ \A n \in DOMAIN made.basis.memory :
              /\ Needs(made, n) <= made.basis.memory[n]
              /\ Reserves(made, n) = Needs(made, n)
        /\ \A j \in DOMAIN made.stages :
              /\ made.stages[j].node \in DOMAIN made.basis.memory
              /\ \E b \in Range(Backends[made.stages[j].node]) :
                    b.kind = made.stages[j].backend /\ Suits(ShardOf(made, j), b)

(***************************************************************************)
(* After any crash, failed save or restart every plan in the tables        *)
(* assigns exactly the shards of the manifest, each in one stage row.      *)
(***************************************************************************)
StoredPlanIsComplete ==
    \A r \in db.plans :
        /\ {s.shard : s \in StagesOf(r.id)} = ShardIds(manifest)
        /\ Cardinality(StagesOf(r.id)) = Len(manifest.shards)

(***************************************************************************)
(* execute_pipeline_pass runs the stages of the active plan in the order   *)
(* it finds them in: whatever order the shards were placed in, no stage    *)
(* runs a layer that comes before one a former stage has run.              *)
(***************************************************************************)
LayersRunInOrder ==
    current # NoPlan =>
        \A k, l \in 0..(current.basis.total - 1) :
            \A i \in HoldingLayer(current, k), j \in HoldingLayer(current, l) :
                k < l => i <= j

Rank(stage) ==
    CASE stage.kind = "embedding" -> 0
      [] stage.kind = "layers" -> 1
      [] OTHER -> 2

(***************************************************************************)
(* create_plan is documented to produce an ordered pipeline: the embedding *)
(* first, the layers by number, the output stage last; and                 *)
(* execute_pipeline_pass runs the stages of the active plan in the order   *)
(* it finds them in.                                                       *)
(***************************************************************************)
ActivePlanInOrder ==
    current # NoPlan =>
        \A i, j \in DOMAIN current.stages :
            i < j => Rank(current.stages[i]) <= Rank(current.stages[j])
===============================================================================
