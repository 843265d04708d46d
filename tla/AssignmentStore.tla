---------------------------- MODULE AssignmentStore ----------------------------
(***************************************************************************)
(* SqliteAssignmentStore (src/persistence/sqlite_assignment_store.cpp):    *)
(* the plans and stages tables, written in one transaction per plan, and   *)
(* the token history of one request.  Every operation holds mutex_.        *)
(*                                                                         *)
(* SQLite is external: a transaction works on a copy of the tables that    *)
(* COMMIT installs and that ROLLBACK or the end of the process discards.   *)
(* Any statement may fail.  A plan is one row [id, model, term] and one    *)
(* row per stage; the columns nothing here tells apart are left out.       *)
(***************************************************************************)
EXTENDS Naturals, Sequences, FiniteSets

CONSTANTS
    NoPlan,       \* no save_plan call is running
    MaxPosition   \* bound: highest token position a caller offers

ASSUME PositionAssumption == MaxPosition \in Nat

VARIABLES
    db,           \* the committed tables
    work,         \* the tables as the open transaction sees them
    saving,       \* the plan save_plan was called with
    step,         \* the next statement of save_plan
    history,      \* positions in the tokens table for the request
    blind         \* history: since the last erasure a token went in unchecked

storeVars == <<db, work, saving, step, history, blind>>

EmptyTables == [plans |-> {}, stages |-> {}]

StoreInit ==
    /\ db = EmptyTables
    /\ work = EmptyTables
    /\ saving = NoPlan
    /\ step = "idle"
    /\ history = {}
    /\ blind = FALSE

(***************************************************************************)
(* The columns that are told apart here; the row's JSON copy of the plan   *)
(* is read by load_plan only, which nothing under src/ calls.              *)
(***************************************************************************)
PlanRow(plan) == [id |-> plan.id, model |-> plan.model, term |-> plan.fence]

StageRow(plan, i) ==
    [plan |-> plan.id, ordinal |-> plan.stages[i].ordinal,
     node |-> plan.stages[i].node, shard |-> plan.stages[i].shard,
     reserved |-> plan.stages[i].reserved]

(***************************************************************************)
(* save_plan, statement by statement: BEGIN, the plan row (replacing one   *)
(* of the same id), the old stages of that id out, the new ones in, and    *)
(* COMMIT.                                                                 *)
(***************************************************************************)
SavePlan(plan) ==
    /\ step = "idle"
    /\ saving' = plan
    /\ step' = "begin"
    /\ UNCHANGED <<db, work, history, blind>>

SaveBegin ==
    /\ step = "begin"
    /\ work' = db
    /\ step' = "plan"
    /\ UNCHANGED <<db, saving, history, blind>>

SavePlanRow ==
    /\ step = "plan"
    /\ work' = [work EXCEPT !.plans =
                   {r \in @ : r.id # saving.id} \cup {PlanRow(saving)}]
    /\ step' = "delete"
    /\ UNCHANGED <<db, saving, history, blind>>

MutantSaveDeleteAll ==
    /\ step = "delete"
    /\ work' = [work EXCEPT !.stages = {}]
    /\ step' = "insert"
    /\ UNCHANGED <<db, saving, history, blind>>

SaveDeleteStages ==
    /\ step = "delete"
    /\ work' = [work EXCEPT !.stages = {r \in @ : r.plan # saving.id}]
    /\ step' = "insert"
    /\ UNCHANGED <<db, saving, history, blind>>

Unsaved(plan) == {i \in DOMAIN plan.stages : StageRow(plan, i) \notin work.stages}

SaveStage ==
    /\ step = "insert"
    /\ \E i \in Unsaved(saving) :
          /\ \A j \in Unsaved(saving) : i <= j
          /\ work' = [work EXCEPT !.stages = @ \cup {StageRow(saving, i)}]
    /\ UNCHANGED <<db, saving, step, history, blind>>

MutantSaveCommitEarly ==
    /\ step = "insert"
    /\ Cardinality(Unsaved(saving)) <= 1
    /\ db' = work
    /\ work' = EmptyTables
    /\ saving' = NoPlan
    /\ step' = "idle"
    /\ UNCHANGED <<history, blind>>

SaveCommit ==
    /\ step = "insert"
    /\ Unsaved(saving) = {}
    /\ db' = work
    /\ work' = EmptyTables
    /\ saving' = NoPlan
    /\ step' = "idle"
    /\ UNCHANGED <<history, blind>>

MutantCommitAnyway ==
    /\ step # "idle"
    /\ db' = IF step = "begin" THEN db ELSE work
    /\ work' = EmptyTables
    /\ saving' = NoPlan
    /\ step' = "idle"
    /\ UNCHANGED <<history, blind>>

(***************************************************************************)
(* A statement fails: rollback() and an error result.                      *)
(***************************************************************************)
Rollback ==
    /\ step # "idle"
    /\ work' = EmptyTables
    /\ saving' = NoPlan
    /\ step' = "idle"
    /\ UNCHANGED <<db, history, blind>>

MutantNextPosition(p) ==
    history = {} \/ \A q \in history : q < p

(***************************************************************************)
(* append_token: the first position is taken as it comes, every later one  *)
(* must be MAX(position) + 1; anything else is kDataLoss.  When the step   *)
(* of the SELECT fails the test is left out and the token goes in.         *)
(***************************************************************************)
NextPosition(p) ==
    history = {} \/ \E m \in history : p = m + 1 /\ \A q \in history : q <= m

AppendToken(p) ==
    /\ step = "idle"
    /\ \/ NextPosition(p) /\ UNCHANGED blind
       \/ blind' = TRUE
    /\ history' = history \cup {p}
    /\ UNCHANGED <<db, work, saving, step>>

EraseTokenHistory ==
    /\ step = "idle"
    /\ history # {}
    /\ history' = {}
    /\ blind' = FALSE
    /\ UNCHANGED <<db, work, saving, step>>

(***************************************************************************)
(* The process ends: SQLite drops the transaction that was open.           *)
(***************************************************************************)
StoreCrash ==
    /\ work' = EmptyTables
    /\ saving' = NoPlan
    /\ step' = "idle"
    /\ UNCHANGED <<db, history, blind>>

StoreStep ==
    \/ SaveBegin
    \/ SavePlanRow
    \/ SaveDeleteStages
    \/ SaveStage
    \/ SaveCommit
    \/ Rollback

(***************************************************************************)
(* load_token_history promises a contiguous, ascending history.  The       *)
(* committed positions of a request have no hole, in whatever order they   *)
(* are offered, refused and erased, unless append_token has inserted one   *)
(* since the last erasure after its SELECT failed.                         *)
(***************************************************************************)
HistoryContiguous ==
    ~blind => \A p, q \in history : \A k \in p..q : k \in history

StagesOf(id) == {r \in db.stages : r.plan = id}

(***************************************************************************)
(* save_plan persists all assignments of a plan or none of them: a         *)
(* committed plan row has stages with the ordinals 0..k-1, each once, and  *)
(* no stage is without its plan row; errors and crashes included.          *)
(***************************************************************************)
StoredPlansWhole ==
    /\ \A r \in db.plans :
          /\ StagesOf(r.id) # {}
          /\ {s.ordinal : s \in StagesOf(r.id)} = 0..(Cardinality(StagesOf(r.id)) - 1)
    /\ \A s \in db.stages : \E r \in db.plans : r.id = s.plan

(***************************************************************************)
(* A committed plan and its stages stay in the tables: saving another one, *)
(* rolling back or crashing takes nothing away.                            *)
(***************************************************************************)
StoreKeepsPlans ==
    [][db.plans \subseteq db'.plans /\ db.stages \subseteq db'.stages]_storeVars
==============================================================================
