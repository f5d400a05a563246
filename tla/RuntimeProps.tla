---------------------------- MODULE RuntimeProps ----------------------------
(***************************************************************************)
(* What the runtime promises, stated over the state of module Runtime.     *)
(***************************************************************************)
EXTENDS Runtime, Functions

L == INSTANCE Ledger WITH
        Reserve <- [t \in Task |-> Node[t].reserve],
        MaxAttempts <- [t \in Task |-> Node[t].max_attempts]

(* Every append of the main loop, its workers and its recovery is one the   *)
(* journal's contract allows, whatever crash cuts a handler short           *)
(* (workflow.py, scheduler.py, recovery.py against module Ledger).          *)
ImplementsLedger == L!Spec

(* The shape of the runtime's own state. *)
TypeOK ==
    /\ StoreTypeOK
    /\ fingerprint \in [Task -> Fingerprint \cup {NoFingerprint}]
    /\ terra \subseteq Task
    /\ pid \in [Task -> Nat] /\ worktree \subseteq Task
    /\ inbox \subseteq Request /\ batch \subseteq Request
    /\ served \subseteq {r.id : r \in Request}
    /\ procs \subseteq Task \X Nat
    /\ pc \in {"off", "recovered", "resume", "top", "inbox", "handle", "refresh",
               "list", "launch", "settle", "wait", "closing"}
    /\ ready \subseteq Task /\ processes \subseteq Task
    /\ progress \in BOOLEAN
    /\ future \in [Task -> {"none", "queued", "spawned", "registered", "live", "done", "raised"}]
    /\ error \in {"none", "live_workers", "budget", "stalled", "state"}

(* The store never refuses an append in the middle of a handler: a refused  *)
(* one would leave run() with CorruptJournalError or StateError             *)
(* (store._apply_event, release_budget).                                    *)
AppendsAccepted ==
    todo # <<>> =>
        LET s == Head(todo)
        IN /\ s.op \in {"move", "fail"} => CanTransitionTask(state[s.task], s.to)
           /\ s.op \in {"start", "launch"} => state[s.task] = "ready"
           /\ s.op = "workflow" => CanTransitionWorkflow(wf, s.to)
           /\ s.op = "release" => reserved[s.task] <= budgetReserved

(* Without a crash nothing is left behind (run, its handlers and the        *)
(* releases of scheduler.py): between handlers a task holds a reservation   *)
(* only while a worker runs it, the workflow's counter is the sum of what   *)
(* the tasks hold, and no task rests in a state between two verdicts.       *)
AtRest == todo = <<>>
NothingLeftBehind ==
    AtRest /\ crashes = 0 =>
        /\ \A t \in Task : reserved[t] > 0 => state[t] = "running" /\ t \in Running
        /\ \A t \in Task : state[t] \notin {"completed", "verifying", "retry_wait"}
        /\ budgetReserved = FoldFunctionOnSet(+, 0, reserved, Task)

(* A task recorded as running has a worker thread that will report on it    *)
(* (run's dictionary of futures).                                           *)
RunningIsWatched ==
    AtRest /\ pc \in {"top", "inbox", "handle", "refresh", "list", "launch", "settle", "wait"}
        => \A t \in Task : state[t] = "running" => t \in Running

(* Without a crash there is never a second live worker process for a task,   *)
(* however it is retried (run, _run_one).                                    *)
OneWorkerPerTask == \A p, q \in procs : p[1] = q[1] => p = q

(* A worker that lives and whose pid is in the journal keeps its task: no    *)
(* recovery, retry or request gives the task up before the worker has ended  *)
(* (reconcile, on_process).  A cancelled task is excepted: a cancel may be   *)
(* told to leave its worker alone, and one that is not ends it beside the    *)
(* record, not before it.                                                    *)
LiveWorkerKeepsItsTask ==
    \A t \in Task : Alive(t) => state[t] \in {"running", "cancelled"}

(* When run() ends with a verdict nothing is left that it could have run: no *)
(* task is running, ready, or waiting on accepted dependencies only, unless  *)
(* it waits for an approval.                                                 *)
VerdictIsFinal ==
    pc = "off" /\ wf \in {"succeeded", "failed", "budget_exhausted"} =>
        \A t \in Present :
            /\ state[t] # "running"
            /\ state[t] = "ready" => Node[t].kind = "approval"
            /\ state[t] = "pending" => \E d \in deps[t] : state[d] # "accepted"

(* Only one branch of a condition is ever attempted (_run_condition). *)
OneBranch ==
    \A t \in Task : Node[t].kind = "condition" =>
        ~ /\ \E x \in Node[t].on_true : attempt[x] > 0
          /\ \E y \in Node[t].on_false : attempt[y] > 0

(* max_terra_tasks bounds the tasks that were ever attempted on terra, the  *)
(* escalated ones included (_model_slot_available, _maybe_escalate).        *)
TerraBounded ==
    Cardinality({t \in terra : attempt[t] > 0}) <= MaxTerra

(* Two consecutive failures with one fingerprint end the automatic retries  *)
(* (maybe_retry): where every failure looks the same, no task is attempted  *)
(* more than twice, whatever max_attempts allows.                           *)
SameFailureStopsRetrying ==
    Cardinality(Fingerprint) = 1 => \A t \in Task : attempt[t] <= 2

(* Pausing and cancelling stop the scheduling (_handle_control): no agent    *)
(* attempt is started, and no worker thread submitted, unless the workflow   *)
(* is running.                                                               *)
StartsOnlyWhileRunning ==
    [][\A t \in Task :
          /\ future'[t] = "queued" /\ future[t] # "queued" => wf = "running"
          /\ attempt'[t] > attempt[t] /\ Node[t].kind # "approval" => wf = "running"]_vars

(* Fan-in waits for the whole fan-out (_run_map, _run_reduce): a reducer     *)
(* that may not be partial is only attempted over children that are all      *)
(* there and all accepted.                                                   *)
ReduceSeesEveryChild ==
    \A t \in Task :
        Node[t].kind = "reduce" /\ ~Node[t].allow_partial /\ attempt[t] > 0 =>
            \A c \in Node[Node[t].source].children : state[c] = "accepted"

(* A repeat node is accepted on the results of its iterations only           *)
(* (_run_repeat): those that were added are the first ones, they are all     *)
(* accepted, and none of them is reopened or added to by what comes later.   *)
RepeatEndsOnItsResult ==
    \A t \in Task : Node[t].kind = "repeat_until" /\ state[t] = "accepted" =>
        LET children == Node[t].iterations
        IN \E n \in DOMAIN children : \A i \in DOMAIN children :
              state[children[i]] = IF i <= n THEN "accepted" ELSE "absent"

(* run() comes to an end (with a fair main loop and workers that end): it    *)
(* does not wait for ever where nobody pauses it and nothing needs approval. *)
RunReturns == (pc # "off") ~> (pc = "off")

(* A submitted cancel is honoured: while a run is on, the workflow reaches a *)
(* state the operator would accept as stopped (consume_control_requests).    *)
CancelHonoured ==
    \A r \in Request : r.type = "cancel" =>
        ((r \in inbox /\ pc # "off") ~>
            (wf \in {"cancelled", "succeeded", "failed", "budget_exhausted"} \/ pc = "off"))

-----------------------------------------------------------------------------
(* What the documents say and the code does not keep: StalledChain refutes   *)
(* it.                                                                       *)

(* docs/plans/2026-07-13-budget-aware-orchestrator.md:344 marks dependents   *)
(* of a rejected, cancelled or failed task blocked: when run() gives up no   *)
(* pending task has such a dependency, direct or through blocked ones        *)
(* (refresh_ready).                                                          *)
DependentsAreBlocked ==
    error # "none" => \A t \in Task : state[t] = "pending" =>
        \A d \in deps[t] : state[d] \notin {"rejected", "blocked", "cancelled", "failed"}

=============================================================================
