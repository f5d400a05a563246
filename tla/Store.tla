-------------------------------- MODULE Store --------------------------------
(***************************************************************************)
(* The state JournalStateStore (orchestrator_agent/store.py) keeps for one *)
(* workflow, and what each journal event does to it.  One operator is one  *)
(* durable append: the event is validated against a copy of the state,     *)
(* written and fsynced, and only then published, so a crash falls between  *)
(* appends and never inside one (module Journal looks below this level).   *)
(*                                                                         *)
(* Of a task's record the model keeps what decides the scheduling: state,  *)
(* depends_on, attempt and reserved_tokens; a node a map may add later has *)
(* no record yet, its state is "absent".  Idempotency keys are records     *)
(* instead of the strings "reserve:t:n", "release:t:n:tokens" and          *)
(* "recovery-release:t:n".                                                 *)
(***************************************************************************)
EXTENDS TaskStates, Naturals, FiniteSets

CONSTANTS
    Task,        \* the ids of all tasks, those a map may add included
    Static,      \* the nodes of workflow.json, present from the start
    StaticDeps,  \* their depends_on
    Limit        \* budget.total_tokens of the workflow

ASSUME StoreAssumption ==
    /\ Static \subseteq Task
    /\ StaticDeps \in [Static -> SUBSET Static]
    /\ Limit \in Nat

(* those of a file, of the items of maps, and of at most max_iterations   *)
(* iterations of a repeat node (schema.py, workflow.py)                  *)
ASSUME TaskAssumption == IsFiniteSet(Task)

VARIABLES
    wf,              \* state of the workflow
    state,           \* state of each task, "absent" before task.added
    deps,            \* depends_on of each task
    attempt,         \* attempts started, per task
    reserved,        \* reserved_tokens of each task
    budgetReserved,  \* budget.reserved_tokens of the workflow
    used,            \* budget.used_tokens of the workflow
    keys             \* idempotency keys present in the journal

storeVars == <<wf, state, deps, attempt, reserved, budgetReserved, used, keys>>

ReserveKey(t, n) == [kind |-> "reserve", task |-> t, attempt |-> n, tokens |-> 0]
ReleaseKey(t, n, tokens) ==
    [kind |-> "release", task |-> t, attempt |-> n, tokens |-> tokens]
RecoveryKey(t, n) == [kind |-> "recovery", task |-> t, attempt |-> n, tokens |-> 0]

Key == [kind : {"reserve", "release", "recovery"}, task : Task,
        attempt : Nat, tokens : Nat]

StoreTypeOK ==
    /\ wf \in WorkflowState
    /\ state \in [Task -> TaskState \cup {"absent"}]
    /\ deps \in [Task -> SUBSET Task]
    /\ attempt \in [Task -> Nat]
    /\ reserved \in [Task -> Nat]
    /\ budgetReserved \in Nat
    /\ used \in Nat
    /\ keys \subseteq Key

StoreInit ==
    /\ wf = "created"
    /\ state = [t \in Task |-> IF t \in Static THEN "pending" ELSE "absent"]
    /\ deps = [t \in Task |-> IF t \in Static THEN StaticDeps[t] ELSE {}]
    /\ attempt = [t \in Task |-> 0]
    /\ reserved = [t \in Task |-> 0]
    /\ budgetReserved = 0
    /\ used = 0
    /\ keys = {}

(* task.added: a new task starts pending *)
AddTask(t, ds) ==
    /\ state[t] = "absent"
    /\ state' = [state EXCEPT ![t] = "pending"]
    /\ deps' = [deps EXCEPT ![t] = ds]
    /\ UNCHANGED <<wf, attempt, reserved, budgetReserved, used, keys>>

(* task.updated of depends_on, the only updated field that counts here *)
UpdateDeps(t, ds) ==
    /\ deps' = [deps EXCEPT ![t] = ds]
    /\ UNCHANGED <<wf, state, attempt, reserved, budgetReserved, used, keys>>

(* task.transition without fields that matter here *)
\* a mutant, for SettledForGood of Ledger: the table is not consulted
TransitionTaskUnchecked(t, to) ==
    /\ state' = [state EXCEPT ![t] = to]
    /\ UNCHANGED <<wf, deps, attempt, reserved, budgetReserved, used, keys>>
TransitionTask(t, to) ==
    /\ CanTransitionTask(state[t], to)
    /\ state' = [state EXCEPT ![t] = to]
    /\ UNCHANGED <<wf, deps, attempt, reserved, budgetReserved, used, keys>>

(* task.transition to running; the fields carry the next attempt number and, *)
(* for a task that runs on a reservation, its size                           *)
TransitionToRunning(t, tokens) ==
    /\ CanTransitionTask(state[t], "running")
    /\ state' = [state EXCEPT ![t] = "running"]
    /\ attempt' = [attempt EXCEPT ![t] = @ + 1]
    /\ reserved' = [reserved EXCEPT ![t] = tokens]
    /\ UNCHANGED <<wf, deps, budgetReserved, used, keys>>

TransitionWorkflow(to) ==
    /\ CanTransitionWorkflow(wf, to)
    /\ wf' = to
    /\ UNCHANGED <<state, deps, attempt, reserved, budgetReserved, used, keys>>

FitsBudget(tokens) == used + budgetReserved + tokens <= Limit

(* budget.reserved: refused beyond the limit, a no-op for a known key *)
\* a mutant, for BudgetCoversTasks: the workflow's counter is forgotten
ReserveBudgetForgets(t, tokens, key) ==
    /\ FitsBudget(tokens)
    /\ reserved' = [reserved EXCEPT ![t] = @ + tokens]
    /\ keys' = keys \cup {key}
    /\ UNCHANGED <<wf, state, deps, attempt, budgetReserved, used>>
ReserveBudget(t, tokens, key) ==
    IF key \in keys
    THEN UNCHANGED storeVars
    ELSE /\ FitsBudget(tokens)
         /\ budgetReserved' = budgetReserved + tokens
         /\ reserved' = [reserved EXCEPT ![t] = @ + tokens]
         /\ keys' = keys \cup {key}
         /\ UNCHANGED <<wf, state, deps, attempt, used>>

(* budget.released: the workflow's counter must cover it, the task's is     *)
(* floored at zero                                                          *)
ReleaseBudget(t, tokens, key) ==
    IF key \in keys
    THEN UNCHANGED storeVars
    ELSE /\ tokens <= budgetReserved
         /\ budgetReserved' = budgetReserved - tokens
         /\ reserved' = [reserved EXCEPT ![t] = IF tokens < @ THEN @ - tokens ELSE 0]
         /\ keys' = keys \cup {key}
         /\ UNCHANGED <<wf, state, deps, attempt, used>>

(* usage.recorded: what a worker reports is added, whatever the limit says *)
RecordUsage(tokens) ==
    /\ used' = used + tokens
    /\ UNCHANGED <<wf, state, deps, attempt, reserved, budgetReserved, keys>>

=============================================================================
