------------------------------- MODULE Runtime -------------------------------
(***************************************************************************)
(* WorkflowRuntime.run (orchestrator_agent/workflow.py) with the parts it  *)
(* drives: readiness, attempts and retries (scheduler.py), recovery at the *)
(* start of a run (recovery.py), operator requests from the control inbox, *)
(* and the worker threads that launch agent processes.                     *)
(*                                                                         *)
(* The main thread is the only one that changes task states.  A handler of *)
(* the code is an action that fixes, from the state it reads, the appends  *)
(* it will make: they go to todo, and nothing else of the main thread runs *)
(* before they have all been performed, one durable append per step.  Only *)
(* a crash (or a refused append) cuts them short.  Worker threads append   *)
(* usage and pids in between.                                              *)
(***************************************************************************)
EXTENDS Store, Sequences, FiniteSets

CONSTANTS
    Node,           \* the nodes of workflow.json, as records (see NodeType)
    MaxWorkers,     \* budget.max_workers
    MaxTerra,       \* budget.max_terra_tasks
    Fingerprint,    \* fingerprints classify_failure can give a failed attempt
    NoFingerprint,  \* no failure recorded yet
    Outcomes,       \* how attempts may end in this model, see the Collect actions
    Request,        \* control requests the operator may submit
    UsageDeltas,    \* sizes of the usage reports workers make
    UsageBound,     \* bound of the model on used_tokens
    MaxSubmits,     \* bound of the model on the submissions of one request
    MaxCrashes      \* bound of the model on crashes of the runtime process

NodeType ==
    [kind : {"agent", "condition", "check", "approval", "map", "reduce", "repeat_until"},
     reserve : Nat \ {0}, max_attempts : Nat \ {0},
     retry_on : SUBSET Fingerprint, escalate_on : SUBSET Fingerprint,
     terra : BOOLEAN, writer : BOOLEAN, cached : BOOLEAN, hooked : BOOLEAN,
     faulty : BOOLEAN, on_true : SUBSET Task, on_false : SUBSET Task,
     children : SUBSET Task, reduce : SUBSET Task, source : Task,
     allow_partial : BOOLEAN, iterations : Seq(Task)]

ASSUME RuntimeAssumption ==
    /\ Node \in [Task -> NodeType]
    /\ \A t \in Task : Node[t].iterations \in Seq(Task \ {t})
    /\ MaxWorkers \in Nat \ {0} /\ MaxTerra \in Nat
    /\ UsageDeltas \subseteq Nat /\ UsageBound \in Nat
    /\ MaxSubmits \in Nat /\ MaxCrashes \in Nat
    /\ NoFingerprint \notin Fingerprint
    /\ Request \subseteq [id : Nat, task : Task, stop_active : BOOLEAN, type :
                           {"pause", "resume", "cancel", "retry", "approve", "reject"}]

(* what normalize_workflow (schema.py) validates of the references between   *)
(* nodes, and that the ids _run_map and _run_repeat make of a node's id and a  *)
(* key or number are those of no other task                                   *)
ASSUME GraphAssumption ==
    \A t \in Task :
        /\ Node[t].kind = "condition" =>
              \A b \in Node[t].on_true \cup Node[t].on_false : b \in Static /\ t \in StaticDeps[b]
        /\ Node[t].kind = "map" =>
              \A r \in Node[t].reduce : r \in Static /\ t \in StaticDeps[r]
        /\ Node[t].terra => Node[t].kind = "agent"
        /\ Node[t].allow_partial => t \in Static /\ Node[t].source \in StaticDeps[t]
        /\ Node[t].children \cap Static = {}
        /\ \A n \in DOMAIN Node[t].iterations :
              LET child == Node[t].iterations[n]
              IN /\ child \notin Static /\ Node[child].kind = "agent"
                 /\ \A u \in Task : child \notin Node[u].children
                 /\ \A u \in Task : \A m \in DOMAIN Node[u].iterations :
                       Node[u].iterations[m] = child => u = t /\ m = n

VARIABLES
    (* durable, beside the store: fields of the task records, the inbox *)
    fingerprint,  \* failure_fingerprint of each task
    terra,        \* tasks whose model is terra, by the node or by escalation
    pid,          \* attempt whose worker pid is recorded, 0 for None
    worktree,     \* tasks that have a worktree
    inbox,        \* requests in control/inbox
    served,       \* request ids with a control.processed event
    (* the operating system *)
    procs,        \* live worker processes, as <<task, attempt>>
    (* memory of the runtime process *)
    pc,           \* where the main thread is in run()
    todo,         \* appends and side effects left in the current handler
    ready,        \* the list of ready tasks still to launch in this pass
    batch,        \* requests of this pass still to handle
    progress,     \* computed_progress
    future,       \* the worker thread of each task in running
    processes,    \* tasks registered in _processes
    error,        \* why the last run() raised
    (* the environment *)
    branch,       \* what evaluating each condition gives
    submits,      \* submissions per request
    crashes       \* crashes so far

fieldVars   == <<fingerprint, terra, pid, worktree>>
controlVars == <<inbox, served, submits>>
loopVars    == <<pc, ready, batch, progress, error>>
workerVars  == <<procs, future, processes>>
envVars     == <<branch, crashes>>
vars == <<storeVars, fieldVars, controlVars, workerVars, loopVars, todo, envVars>>

Running == {t \in Task : future[t] # "none"}
Alive(t) == pid[t] # 0 /\ <<t, pid[t]>> \in procs
Present == {t \in Task : state[t] # "absent"}

Init ==
    /\ StoreInit
    /\ fingerprint = [t \in Task |-> NoFingerprint]
    /\ terra = {t \in Task : Node[t].terra}
    /\ pid = [t \in Task |-> 0]
    /\ worktree = {}
    /\ inbox = {} /\ served = {}
    /\ procs = {}
    /\ pc = "off" /\ todo = <<>> /\ ready = {} /\ batch = {}
    /\ progress = FALSE /\ error = "none"
    /\ future = [t \in Task |-> "none"] /\ processes = {}
    /\ branch \in [{t \in Task : Node[t].kind = "condition"} ->
                      {"on_true", "on_false", "invalid"}]
    /\ submits = [r \in Request |-> 0]
    /\ crashes = 0

-----------------------------------------------------------------------------
(* The steps handlers are made of, and the sequences scheduler.py builds. *)

Move(t, to) == [op |-> "move", task |-> t, to |-> to]
Fail(t, to, f) == [op |-> "fail", task |-> t, to |-> to, fp |-> f]
StartComputed(t) == [op |-> "start", task |-> t]
Release(t) == [op |-> "release", task |-> t]
Block(t) == [op |-> "block", task |-> t]
Update(t, f) == [op |-> "update", task |-> t, fp |-> f]
Workflow(to) == [op |-> "workflow", to |-> to]

(* a loop over tasks whose decisions are taken before it starts; the order *)
(* of the task dictionary is left open                                     *)
Each(items) == IF items = {} THEN <<>> ELSE <<[op |-> "each", items |-> items]>>

AcceptComputed(t) == <<Move(t, "completed"), Move(t, "verifying"), Move(t, "accepted")>>
Iterate(t, n) == <<[op |-> "iterate", root |-> t, n |-> n]>>
FailSteps(t) == <<Move(t, "failed"), Release(t)>>
StartSteps(t, by) ==
    <<[op |-> "reserve", task |-> t, by |-> by], [op |-> "launch", task |-> t]>>
\* a mutant, for NothingLeftBehind: a cancelled task keeps its reservation
CancelStepsHolding(t, stop) ==
    (IF stop /\ state[t] = "running" THEN <<[op |-> "kill", task |-> t]>> ELSE <<>>)
        \o <<Move(t, "cancelled")>>
CancelSteps(t, stop) ==
    (IF stop /\ state[t] = "running" THEN <<[op |-> "kill", task |-> t]>> ELSE <<>>)
        \o <<Move(t, "cancelled"), Release(t)>>

PartialReady(t) ==
    /\ deps[t] # {}
    /\ \A d \in deps[t] : state[d] \in DeadState
    /\ state[Node[t].source] = "accepted"

(* refresh_ready decides for every pending task on one snapshot; for a task *)
(* with allow_partial the branch that blocks is not reached                  *)
RefreshReady ==
    LET pending == {t \in Task : state[t] = "pending"}
        satisfied == {t \in pending : \A d \in deps[t] : state[d] = "accepted"}
        partial == {t \in pending \ satisfied : Node[t].allow_partial}
        dead == {t \in pending \ (satisfied \cup partial) :
                    \E d \in deps[t] : state[d] \in DeadState}
    IN Each({<<Move(t, "ready")>> : t \in satisfied \cup {u \in partial : PartialReady(u)}}
            \cup {<<Move(t, "blocked")>> : t \in dead})

SlotAvailable(t) ==
    Cardinality({u \in terra \ {t} : attempt[u] > 0}) < MaxTerra

\* a mutant, for TerraBounded: escalation does not ask for a slot
EscalateUnlimited(t, f) ==
    IF t \notin terra /\ f \in Node[t].escalate_on
    THEN <<[op |-> "escalate", task |-> t]>> ELSE <<>>
Escalate(t, f) ==
    IF t \notin terra /\ f \in Node[t].escalate_on /\ SlotAvailable(t)
    THEN <<[op |-> "escalate", task |-> t]>> ELSE <<>>

(* maybe_retry; the fingerprint of the failure before this one is still in  *)
(* the record when the handler starts                                       *)
\* mutants, for SameFailureStopsRetrying and ImplementsLedger: the fingerprint,
\* or the number of attempts, is not looked at
MaybeRetryBlindly(t, f) ==
    IF f \in Node[t].retry_on /\ attempt[t] < Node[t].max_attempts
    THEN <<Move(t, "retry_wait"), Move(t, "ready")>> ELSE <<>>
MaybeRetryUnbounded(t, f) ==
    IF f \in Node[t].retry_on /\ fingerprint[t] # f
    THEN <<Move(t, "retry_wait"), Move(t, "ready")>> ELSE <<>>
MaybeRetry(t, f) ==
    IF f \in Node[t].retry_on /\ attempt[t] < Node[t].max_attempts /\ fingerprint[t] # f
    THEN <<Move(t, "retry_wait"), Move(t, "ready")>> ELSE <<>>

-----------------------------------------------------------------------------
(* Performing one step. *)

At(op) == todo # <<>> /\ Head(todo).op = op
Pop == todo' = Tail(todo)

PerformMove ==
    /\ At("move")
    /\ TransitionTask(Head(todo).task, Head(todo).to)
    /\ Pop /\ UNCHANGED <<fieldVars, controlVars, loopVars, workerVars, envVars>>

PerformFail ==
    /\ At("fail")
    /\ TransitionTask(Head(todo).task, Head(todo).to)
    /\ fingerprint' = [fingerprint EXCEPT ![Head(todo).task] = Head(todo).fp]
    /\ Pop /\ UNCHANGED <<terra, pid, worktree, controlVars, loopVars, workerVars, envVars>>

PerformStart ==
    /\ At("start")
    /\ TransitionToRunning(Head(todo).task, reserved[Head(todo).task])
    /\ Pop /\ UNCHANGED <<fieldVars, controlVars, loopVars, workerVars, envVars>>

(* DurableScheduler.start is two appends: the reservation, and the           *)
(* transition.  A refusal leaves run() with an exception, but ends a repeat   *)
(* node that started the task itself (its field by)                           *)
PerformReserve ==
    /\ At("reserve")
    /\ LET t == Head(todo).task
           key == ReserveKey(t, attempt[t] + 1)
       IN /\ key \in keys \/ FitsBudget(Node[t].reserve)
          /\ ReserveBudget(t, Node[t].reserve, key)
    /\ Pop /\ UNCHANGED <<fieldVars, controlVars, loopVars, workerVars, envVars>>

ReserveRefused ==
    /\ At("reserve")
    /\ ReserveKey(Head(todo).task, attempt[Head(todo).task] + 1) \notin keys
    /\ ~FitsBudget(Node[Head(todo).task].reserve)

PerformReserveRefused ==
    /\ ReserveRefused
    /\ Head(todo).by = Head(todo).task
    /\ todo' = <<>> /\ pc' = "closing" /\ error' = "budget"
    /\ ready' = {} /\ batch' = {} /\ progress' = FALSE
    /\ UNCHANGED <<storeVars, fieldVars, controlVars, workerVars, envVars>>

PerformReserveRefusedRepeat ==
    /\ ReserveRefused
    /\ Head(todo).by # Head(todo).task
    /\ todo' = FailSteps(Head(todo).by)
    /\ UNCHANGED <<storeVars, fieldVars, controlVars, loopVars, workerVars, envVars>>

PerformLaunch ==
    /\ At("launch")
    /\ TransitionToRunning(Head(todo).task, Node[Head(todo).task].reserve)
    /\ Pop /\ UNCHANGED <<fieldVars, controlVars, loopVars, workerVars, envVars>>

PerformSubmit ==
    /\ At("submit")
    /\ future' = [future EXCEPT ![Head(todo).task] = "queued"]
    /\ Pop
    /\ UNCHANGED <<storeVars, fieldVars, controlVars, loopVars, procs, processes, envVars>>

ReleaseOf(t) ==
    IF state[t] = "interrupted" THEN RecoveryKey(t, attempt[t])
    ELSE ReleaseKey(t, attempt[t], reserved[t])

PerformRelease ==
    /\ At("release")
    /\ LET t == Head(todo).task
       IN IF reserved[t] = 0 THEN UNCHANGED storeVars
          ELSE ReleaseBudget(t, reserved[t], ReleaseOf(t))
    /\ Pop /\ UNCHANGED <<fieldVars, controlVars, loopVars, workerVars, envVars>>

(* block does nothing to a task that is past ready *)
PerformBlock ==
    /\ At("block")
    /\ IF state[Head(todo).task] \in {"pending", "ready"}
       THEN TransitionTask(Head(todo).task, "blocked")
       ELSE UNCHANGED storeVars
    /\ Pop /\ UNCHANGED <<fieldVars, controlVars, loopVars, workerVars, envVars>>

PerformWorkflow ==
    /\ At("workflow")
    /\ TransitionWorkflow(Head(todo).to)
    /\ Pop /\ UNCHANGED <<fieldVars, controlVars, loopVars, workerVars, envVars>>

PerformEscalate ==
    /\ At("escalate")
    /\ terra' = terra \cup {Head(todo).task}
    /\ Pop
    /\ UNCHANGED <<storeVars, fingerprint, pid, worktree, controlVars, loopVars, workerVars,
                   envVars>>

(* the update that clears the pid; after an exception it also records the    *)
(* failure                                                                   *)
PerformUpdate ==
    /\ At("update")
    /\ pid' = [pid EXCEPT ![Head(todo).task] = 0]
    /\ fingerprint' = [fingerprint EXCEPT ![Head(todo).task] = Head(todo).fp]
    /\ Pop
    /\ UNCHANGED <<storeVars, terra, worktree, controlVars, loopVars, workerVars, envVars>>

(* _prepare_workspace: a writer's worktree is made once and kept for its     *)
(* later attempts                                                            *)
PerformWorktree ==
    /\ At("worktree")
    /\ worktree' = worktree \cup {Head(todo).task}
    /\ Pop
    /\ UNCHANGED <<storeVars, fingerprint, terra, pid, controlVars, loopVars, workerVars,
                   envVars>>

(* terminate_process, for a process the worker thread has registered *)
PerformKill ==
    /\ At("kill")
    /\ LET t == Head(todo).task
       IN procs' = IF t \in processes THEN procs \ {<<t, attempt[t]>>} ELSE procs
    /\ Pop
    /\ UNCHANGED <<storeVars, fieldVars, controlVars, loopVars, future, processes, envVars>>

(* _run_map, _run_repeat: a child already added under its key is not added again *)
PerformAdd ==
    /\ At("add")
    /\ IF state[Head(todo).task] = "absent"
       THEN AddTask(Head(todo).task, Head(todo).on)
       ELSE UNCHANGED storeVars
    /\ Pop /\ UNCHANGED <<fieldVars, controlVars, loopVars, workerVars, envVars>>

\* a mutant, for ImplementsLedger: the children replace the dependencies
PerformDependReplacing ==
    /\ At("depend")
    /\ UpdateDeps(Head(todo).task, Head(todo).on)
    /\ Pop /\ UNCHANGED <<fieldVars, controlVars, loopVars, workerVars, envVars>>
PerformDepend ==
    /\ At("depend")
    /\ UpdateDeps(Head(todo).task, deps[Head(todo).task] \cup Head(todo).on)
    /\ Pop /\ UNCHANGED <<fieldVars, controlVars, loopVars, workerVars, envVars>>

PerformEach ==
    /\ At("each")
    /\ \E item \in Head(todo).items :
          todo' = item \o Each(Head(todo).items \ {item}) \o Tail(todo)
    /\ UNCHANGED <<storeVars, fieldVars, controlVars, loopVars, workerVars, envVars>>

(* approve and reject look at the task again after their own readiness pass *)
PerformDecide ==
    /\ At("decide")
    /\ LET r == Head(todo).request
       IN todo' = (IF state[r.task] # "ready" THEN <<>>
                   ELSE IF r.type = "approve"
                        THEN <<StartComputed(r.task)>> \o AcceptComputed(r.task)
                        ELSE <<Block(r.task)>>) \o Tail(todo)
    /\ UNCHANGED <<storeVars, fieldVars, controlVars, loopVars, workerVars, envVars>>

(* consume_control_requests: the event that records a request comes after   *)
(* its handler, and the file is moved away after the event                  *)
PerformProcessed ==
    /\ At("processed")
    /\ served' = served \cup {Head(todo).request.id}
    /\ Pop
    /\ UNCHANGED <<storeVars, fieldVars, inbox, submits, loopVars, workerVars, envVars>>

PerformArchive ==
    /\ At("archive")
    /\ inbox' = inbox \ {Head(todo).request}
    /\ Pop
    /\ UNCHANGED <<storeVars, fieldVars, served, submits, loopVars, workerVars, envVars>>

Perform ==
    \/ PerformMove \/ PerformFail \/ PerformStart
    \/ PerformReserve \/ PerformReserveRefused \/ PerformReserveRefusedRepeat \/ PerformLaunch \/ PerformSubmit
    \/ PerformRelease \/ PerformBlock \/ PerformWorkflow
    \/ PerformEscalate \/ PerformUpdate \/ PerformWorktree \/ PerformKill
    \/ PerformAdd \/ PerformDepend \/ PerformEach
    \/ PerformDecide \/ PerformProcessed \/ PerformArchive

-----------------------------------------------------------------------------
(* The main thread. *)

Idle(where) == todo = <<>> /\ pc = where
unchangedByMain == <<storeVars, fieldVars, controlVars, envVars>>

(* run() is entered under the runtime lock.  Only a workflow that is still   *)
(* recorded as running is reconciled.                                        *)
\* mutants, for RunningIsWatched and LiveWorkerKeepsItsTask: no recovery, or one
\* that takes every worker for dead
BootTrusting ==
    /\ pc = "off"
    /\ pc' = "resume" /\ todo' = <<>>
    /\ error' = "none"
    /\ UNCHANGED <<unchangedByMain, workerVars, ready, batch, progress>>
Reconcile(missing) ==
    /\ pc = "off"
    /\ IF wf = "running"
       THEN /\ pc' = "recovered"
            /\ todo' = Each({<<Move(t, "interrupted"), Release(t)>> : t \in missing})
                       \o (IF missing = {} THEN <<>> ELSE <<Workflow("interrupted")>>)
       ELSE pc' = "resume" /\ todo' = <<>>
    /\ error' = "none"
    /\ UNCHANGED <<unchangedByMain, workerVars, ready, batch, progress>>
BootHasty == Reconcile({t \in Task : state[t] = "running"})
Boot == Reconcile({t \in Task : state[t] = "running" /\ ~Alive(t)})

Recovered ==
    /\ Idle("recovered")
    /\ IF \E t \in Task : state[t] = "running"
       THEN pc' = "closing" /\ error' = "live_workers"
       ELSE pc' = "resume" /\ UNCHANGED error
    /\ UNCHANGED <<unchangedByMain, workerVars, todo, ready, batch, progress>>

Resume ==
    /\ Idle("resume")
    /\ todo' = IF wf \in {"created", "failed", "budget_exhausted", "interrupted"}
               THEN <<Workflow("running")>> ELSE <<>>
    /\ pc' = "top"
    /\ UNCHANGED <<unchangedByMain, workerVars, ready, batch, progress, error>>

(* the two readiness passes of an iteration, before and after the inbox *)
Refresh(from, next) ==
    /\ Idle(from)
    /\ todo' = IF wf = "running" THEN RefreshReady ELSE <<>>
    /\ pc' = next
    /\ UNCHANGED <<unchangedByMain, workerVars, ready, batch, progress, error>>
RefreshBefore == Refresh("top", "inbox")
RefreshAfter == Refresh("refresh", "list")

TakeInbox ==
    /\ Idle("inbox")
    /\ batch' = inbox
    /\ pc' = IF inbox = {} THEN "refresh" ELSE "handle"
    /\ UNCHANGED <<unchangedByMain, workerVars, todo, ready, progress, error>>

(* _handle_control; a handler that answers accepted=False makes no append *)
Handle(r, steps) ==
    /\ Idle("handle")
    /\ r \in batch
    /\ batch' = batch \ {r}
    /\ todo' = steps \o <<[op |-> "processed", request |-> r],
                          [op |-> "archive", request |-> r]>>
    /\ UNCHANGED <<unchangedByMain, workerVars, pc, ready, progress, error>>

HandlePause(r) ==
    /\ r.type = "pause"
    /\ Handle(r, IF wf = "running" THEN <<Workflow("paused")>> ELSE <<>>)

HandleResume(r) ==
    /\ r.type = "resume"
    /\ Handle(r, IF wf = "paused" THEN <<Workflow("running")>> ELSE <<>>)

\* a mutant, for CancelHonoured: a paused workflow is not cancelled
HandleCancelRunning(r) ==
    /\ r.type = "cancel"
    /\ LET active == {t \in Task : state[t] \in {"pending", "ready", "retry_wait", "running"}}
       IN Handle(r, IF wf = "running"
                    THEN Each({CancelSteps(t, r.stop_active) : t \in active})
                            \o <<Workflow("cancelled")>>
                    ELSE <<>>)
HandleCancel(r) ==
    /\ r.type = "cancel"
    /\ LET active == {t \in Task : state[t] \in {"pending", "ready", "retry_wait", "running"}}
       IN Handle(r, IF wf \in {"running", "paused"}
                    THEN Each({CancelSteps(t, r.stop_active) : t \in active})
                            \o <<Workflow("cancelled")>>
                    ELSE <<>>)

Retryable(t) ==
    /\ state[t] \in {"rejected", "failed", "interrupted", "budget_exhausted"}
    /\ attempt[t] < Node[t].max_attempts

HandleRetry(r) ==
    /\ r.type = "retry"
    /\ Handle(r, IF Retryable(r.task)
                 THEN <<Move(r.task, "retry_wait"), Move(r.task, "ready")>> ELSE <<>>)

HandleDecision(r) ==
    /\ r.type \in {"approve", "reject"}
    /\ Handle(r, IF Node[r.task].kind = "approval"
                 THEN RefreshReady \o <<[op |-> "decide", request |-> r]>> ELSE <<>>)

HandleRequest == \E r \in batch :
    HandlePause(r) \/ HandleResume(r) \/ HandleCancel(r) \/ HandleRetry(r) \/ HandleDecision(r)

InboxDone ==
    /\ Idle("handle")
    /\ batch = {}
    /\ pc' = "refresh"
    /\ UNCHANGED <<unchangedByMain, workerVars, todo, ready, batch, progress, error>>

\* a mutant, for StartsOnlyWhileRunning: ready tasks of a stopped workflow too
ListReadyAlways ==
    /\ Idle("list")
    /\ ready' = {t \in Task : state[t] = "ready"}
    /\ progress' = FALSE
    /\ pc' = "launch"
    /\ UNCHANGED <<unchangedByMain, workerVars, todo, batch, error>>
ListReady ==
    /\ Idle("list")
    /\ ready' = IF wf = "running" THEN {t \in Task : state[t] = "ready"} ELSE {}
    /\ progress' = FALSE
    /\ pc' = "launch"
    /\ UNCHANGED <<unchangedByMain, workerVars, todo, batch, error>>

(* One task of the ready list: what becomes of it is fixed by its kind.      *)
(* computed says whether the pass counts as computed progress.               *)
Launch(t, computed, steps) ==
    /\ Idle("launch")
    /\ t \in ready
    /\ Cardinality(Running) < MaxWorkers
    /\ ready' = ready \ {t}
    /\ progress' = (progress \/ computed)
    /\ todo' = steps
    /\ UNCHANGED <<unchangedByMain, workerVars, pc, batch, error>>

LaunchDenied(t) == Node[t].hooked /\ Launch(t, TRUE, <<Block(t)>>)

(* _run_condition: the branch not taken is blocked after the acceptance *)
\* a mutant, for OneBranch: the branch not taken stays open
LaunchConditionOpen(t) ==
    /\ Node[t].kind = "condition"
    /\ Launch(t, TRUE, <<StartComputed(t)>> \o AcceptComputed(t))
LaunchCondition(t) ==
    /\ Node[t].kind = "condition"
    /\ LET skipped == IF branch[t] = "on_true" THEN Node[t].on_false ELSE Node[t].on_true
       IN Launch(t, TRUE,
            IF branch[t] = "invalid"
            THEN <<StartComputed(t)>> \o FailSteps(t)
            ELSE <<StartComputed(t)>> \o AcceptComputed(t)
                    \o Each({<<Block(b)>> : b \in skipped}))

LaunchCheck(t) ==
    /\ Node[t].kind = "check"
    /\ \E verdict \in {"accepted"} \cup (IF Node[t].faulty THEN {"rejected"} ELSE {}) :
          Launch(t, TRUE, <<StartComputed(t), Move(t, "completed"), Move(t, "verifying"),
                            Move(t, verdict), Release(t)>>)

(* _run_map and _run_reduce fail on input they cannot use, _run_check_node   *)
(* on an exception of its checks                                             *)
LaunchUnusable(t) ==
    /\ Node[t].kind \in {"map", "reduce", "check"} /\ Node[t].faulty
    /\ Launch(t, TRUE, <<StartComputed(t)>> \o FailSteps(t))

\* a mutant, for ReduceSeesEveryChild: the reducer does not wait for children
LaunchMapUnlinked(t) ==
    /\ Node[t].kind = "map"
    /\ Launch(t, TRUE, <<StartComputed(t)>>
            \o Each({<<[op |-> "add", task |-> c, on |-> {t}]>> : c \in Node[t].children})
            \o AcceptComputed(t))
LaunchMap(t) ==
    /\ Node[t].kind = "map"
    /\ LET add == {<<[op |-> "add", task |-> c, on |-> {t}]>> : c \in Node[t].children}
           depend == {<<[op |-> "depend", task |-> r, on |-> Node[t].children]>> :
                         r \in Node[t].reduce}
       IN Launch(t, TRUE, <<StartComputed(t)>> \o Each(add) \o Each(depend)
                             \o AcceptComputed(t))

LaunchReduce(t) ==
    /\ Node[t].kind = "reduce"
    /\ LET children == Node[Node[t].source].children \cap Present
           complete == \A c \in children : state[c] = "accepted"
       IN Launch(t, TRUE,
            IF complete \/ Node[t].allow_partial
            THEN <<StartComputed(t)>> \o AcceptComputed(t)
            ELSE <<StartComputed(t)>> \o FailSteps(t))

(* _run_repeat waits until no worker is out, and takes read-only templates *)
LaunchRepeat(t) ==
    /\ Node[t].kind = "repeat_until"
    /\ IF Running # {} THEN Launch(t, FALSE, <<>>)
       ELSE Launch(t, TRUE, <<StartComputed(t)>> \o
              (IF Node[t].writer THEN FailSteps(t)
               ELSE Iterate(t, 1)))

LaunchApproval(t) == Node[t].kind = "approval" /\ Launch(t, FALSE, <<>>)

HasSlot(t) == t \in terra => SlotAvailable(t)

LaunchNoSlot(t) ==
    /\ Node[t].kind = "agent" /\ ~HasSlot(t)
    /\ Launch(t, TRUE, <<Block(t)>>)

(* _try_cache and accept_cached: an attempt without a reservation *)
LaunchCached(t) ==
    /\ Node[t].kind = "agent" /\ HasSlot(t) /\ Node[t].cached
    /\ Launch(t, TRUE, <<StartComputed(t)>> \o AcceptComputed(t))

NeedsWorktree(t) == Node[t].writer /\ t \notin worktree

LaunchAgent(t) ==
    /\ Node[t].kind = "agent" /\ HasSlot(t)
    /\ LET prepare == IF NeedsWorktree(t) THEN <<[op |-> "worktree", task |-> t]>> ELSE <<>>
       IN Launch(t, FALSE, StartSteps(t, t) \o prepare \o <<[op |-> "submit", task |-> t]>>)

(* _prepare_workspace could not make the writer's worktree *)
LaunchUnprepared(t) ==
    /\ Node[t].kind = "agent" /\ HasSlot(t) /\ NeedsWorktree(t)
    /\ Launch(t, FALSE, StartSteps(t, t) \o FailSteps(t))

LaunchTask == \E t \in ready :
    \/ LaunchDenied(t) \/ LaunchCondition(t) \/ LaunchCheck(t)
    \/ LaunchUnusable(t) \/ LaunchMap(t) \/ LaunchReduce(t) \/ LaunchRepeat(t)
    \/ LaunchApproval(t)
    \/ LaunchNoSlot(t) \/ LaunchCached(t) \/ LaunchAgent(t) \/ LaunchUnprepared(t)

EndLaunch ==
    /\ Idle("launch")
    /\ ready = {} \/ Cardinality(Running) >= MaxWorkers
    /\ ready' = {}
    /\ pc' = "settle"
    /\ UNCHANGED <<unchangedByMain, workerVars, todo, batch, progress, error>>

(* The end of an iteration: go round again, wait for a worker, or conclude. *)
Settle(next, steps, why) ==
    /\ Idle("settle")
    /\ pc' = next
    /\ todo' = steps
    /\ error' = why
    /\ UNCHANGED <<unchangedByMain, workerVars, ready, batch, progress>>

States == {state[t] : t \in Present}
Settled == States \subseteq {"accepted", "blocked"} /\ "accepted" \in States
AwaitsApproval ==
    \E t \in Present : state[t] = "ready" /\ Node[t].kind = "approval"

SettleWait == Running # {} /\ Settle("wait", <<>>, error)

\* a mutant, for RunReturns: polling until everything is settled
SettlePolling ==
    /\ Running = {}
    /\ progress \/ wf = "paused" \/ (wf = "running" /\ ~Settled)
    /\ Settle("top", <<>>, error)
SettleAgain ==
    /\ Running = {}
    /\ \/ progress
       \/ wf = "paused"
       \/ /\ wf = "running" /\ ~Settled /\ "budget_exhausted" \notin States
          /\ AwaitsApproval
    /\ Settle("top", <<>>, error)

SettleCancelled ==
    /\ Running = {} /\ ~progress
    /\ wf = "cancelled"
    /\ Settle("closing", <<>>, error)

\* a mutant, for VerdictIsFinal: workers still out are not waited for
ConcludeEarly(to) ==
    /\ ~progress
    /\ wf = "running"
    /\ Settle("closing", <<Workflow(to)>>, error)
Conclude(to) ==
    /\ Running = {} /\ ~progress
    /\ wf = "running"
    /\ Settle("closing", <<Workflow(to)>>, error)

SettleSucceeded == Settled /\ Conclude("succeeded")
SettleExhausted ==
    ~Settled /\ "budget_exhausted" \in States /\ Conclude("budget_exhausted")
SettleFailed ==
    /\ ~Settled /\ States \cap {"budget_exhausted", "pending", "ready"} = {}
    /\ Conclude("failed")

SettleStalled ==
    /\ Running = {} /\ ~progress
    /\ wf = "running"
    /\ ~Settled /\ "budget_exhausted" \notin States
    /\ States \cap {"pending", "ready"} # {} /\ ~AwaitsApproval
    /\ Settle("closing", <<>>, "stalled")

(* a workflow that had already succeeded refuses the transition *)
SettleRefused ==
    /\ Running = {} /\ ~progress
    /\ wf = "succeeded"
    /\ Settle("closing", <<>>, "state")

SettleIteration ==
    \/ SettleWait \/ SettleAgain \/ SettleCancelled \/ SettleSucceeded
    \/ SettleExhausted \/ SettleFailed \/ SettleStalled \/ SettleRefused

(* A finished future is popped and its outcome recorded.  Another one that  *)
(* has ended may be collected in the same iteration or in the next.         *)
Ended(t) == future[t] \in {"done", "raised"}
Collect(t, steps) ==
    /\ Idle("wait")
    /\ Ended(t)
    /\ future' = [future EXCEPT ![t] = "none"]
    /\ todo' = steps
    /\ pc' \in {"wait", "top"}
    /\ UNCHANGED <<unchangedByMain, procs, processes, ready, batch, progress, error>>

ClearPid(t) == Update(t, fingerprint[t])
\* a mutant, for AppendsAccepted: completed goes straight to its verdict
CompleteStepsShort(t) == <<ClearPid(t), Move(t, "completed")>>
CompleteSteps(t) == <<ClearPid(t), Move(t, "completed"), Move(t, "verifying")>>

CollectCancelled(t) ==
    future[t] = "done" /\ state[t] = "cancelled" /\ Collect(t, <<ClearPid(t)>>)

\* the worker's outcome decides
Decides(t) == future[t] = "done" /\ state[t] # "cancelled"

CollectAccepted(t) ==
    /\ "accepted" \in Outcomes /\ Decides(t)
    /\ Collect(t, CompleteSteps(t) \o <<Move(t, "accepted"), Release(t)>>)

(* the task_completed hook: a rejection without a retry *)
CollectDenied(t) ==
    /\ Node[t].hooked /\ Decides(t)
    /\ Collect(t, CompleteSteps(t) \o <<Move(t, "rejected"), Release(t)>>)

CollectRejected(t) ==
    /\ "rejected" \in Outcomes /\ Decides(t)
    /\ \E f \in Fingerprint :
          Collect(t, CompleteSteps(t) \o <<Fail(t, "rejected", f), Release(t)>>
                        \o Escalate(t, f) \o MaybeRetry(t, f))

CollectExhausted(t) ==
    /\ "exhausted" \in Outcomes /\ Decides(t)
    /\ Collect(t, <<ClearPid(t), Move(t, "budget_exhausted"), Release(t)>>)

(* the worker thread raised; of a task cancelled meanwhile only the failure  *)
(* is recorded                                                               *)
CollectFailed(t) ==
    /\ "failed" \in Outcomes
    /\ \E f \in Fingerprint :
          Collect(t, <<Update(t, f)>> \o
             (IF state[t] # "running" THEN <<>>
              ELSE <<Fail(t, "failed", f), Release(t)>> \o Escalate(t, f) \o MaybeRetry(t, f)))

(* an exception after complete(), such as the copy of result.json failing:   *)
(* its failure is recorded, but only a task still running is failed          *)
CollectUnfinished(t) ==
    /\ "unfinished" \in Outcomes /\ Decides(t)
    /\ \E f \in Fingerprint : Collect(t, CompleteSteps(t) \o <<Update(t, f)>>)

CollectFuture == \E t \in Task :
    \/ CollectCancelled(t) \/ CollectAccepted(t) \/ CollectDenied(t)
    \/ CollectRejected(t) \/ CollectExhausted(t) \/ CollectFailed(t)
    \/ CollectUnfinished(t)

(* _run_repeat: one iteration adds its child, starts it, and runs its worker *)
(* in the main thread, which waits.  A child that is there already cannot     *)
(* become ready, unless it is still pending: the node fails.                  *)
PerformIterate ==
    /\ At("iterate")
    /\ LET t == Head(todo).root
           n == Head(todo).n
           more == n <= Len(Node[t].iterations)
           child == Node[t].iterations[n]
           before == IF n = 1 THEN {} ELSE {Node[t].iterations[n - 1]}
           add == IF state[child] = "absent"
                  THEN <<[op |-> "add", task |-> child, on |-> before]>> ELSE <<>>
       IN todo' = (IF more /\ state[child] \in {"absent", "pending"}
                   THEN add \o <<Move(child, "ready")>> \o StartSteps(child, t)
                            \o <<[op |-> "submit", task |-> child],
                                 [op |-> "drive", root |-> t, n |-> n]>>
                   ELSE FailSteps(t)) \o Tail(todo)
    /\ UNCHANGED <<storeVars, fieldVars, controlVars, loopVars, workerVars, envVars>>

Child == Node[Head(todo).root].iterations[Head(todo).n]

Drive(steps) ==
    /\ At("drive") /\ Ended(Child)
    /\ future' = [future EXCEPT ![Child] = "none"]
    /\ todo' = steps \o Tail(todo)
    /\ UNCHANGED <<unchangedByMain, procs, processes, loopVars>>

\* the condition on the child's result matches, or asks for another iteration;
\* the same result twice, or a condition that cannot be evaluated, is a failure
DriveAccepted ==
    /\ At("drive") /\ "accepted" \in Outcomes /\ Decides(Child)
    /\ LET t == Head(todo).root
           n == Head(todo).n
       IN \E next \in {AcceptComputed(t), Iterate(t, n + 1), FailSteps(t)} :
             Drive(CompleteSteps(Child) \o <<Move(Child, "accepted"), Release(Child)>> \o next)

\* a mutant, for RepeatEndsOnItsResult: a rejected child counts as an iteration
DriveRejectedOn ==
    /\ At("drive") /\ "rejected" \in Outcomes /\ Decides(Child)
    /\ Drive(CompleteSteps(Child) \o <<Move(Child, "rejected"), Release(Child)>>
                \o Iterate(Head(todo).root, Head(todo).n + 1))
DriveRejected ==
    /\ At("drive") /\ "rejected" \in Outcomes /\ Decides(Child)
    /\ Drive(CompleteSteps(Child) \o <<Move(Child, "rejected"), Release(Child)>>
                \o FailSteps(Head(todo).root))

DriveExhausted ==
    /\ At("drive") /\ "exhausted" \in Outcomes /\ Decides(Child)
    /\ Drive(<<ClearPid(Child), Move(Child, "budget_exhausted"), Release(Child)>>
                \o FailSteps(Head(todo).root))

\* the child stays running: only the repeat node fails
DriveRaised ==
    /\ At("drive") /\ "failed" \in Outcomes
    /\ Drive(FailSteps(Head(todo).root))

\* an exception after complete(): the child stays in verification
DriveUnfinished ==
    /\ At("drive") /\ "unfinished" \in Outcomes /\ Decides(Child)
    /\ Drive(CompleteSteps(Child) \o FailSteps(Head(todo).root))

Repeat ==
    \/ PerformIterate \/ DriveAccepted \/ DriveRejected \/ DriveExhausted \/ DriveRaised
    \/ DriveUnfinished

(* wait(timeout=0.2) expires *)
WaitTimeout ==
    /\ Idle("wait")
    /\ \A t \in Task : ~Ended(t)
    /\ pc' = "top"
    /\ UNCHANGED <<unchangedByMain, workerVars, todo, ready, batch, progress, error>>

(* run() returns or raises: the executor waits for its threads *)
Close ==
    /\ Idle("closing")
    /\ \A t \in Running : Ended(t)
    /\ future' = [t \in Task |-> "none"]
    /\ pc' = "off"
    /\ UNCHANGED <<unchangedByMain, procs, processes, todo, ready, batch, progress, error>>

Main ==
    \/ Perform
    \/ Recovered \/ Resume
    \/ RefreshBefore \/ TakeInbox \/ HandleRequest \/ InboxDone \/ RefreshAfter
    \/ ListReady \/ LaunchTask \/ EndLaunch \/ SettleIteration
    \/ CollectFuture \/ Repeat \/ WaitTimeout \/ Close

-----------------------------------------------------------------------------
(* A worker thread: run_worker with the callbacks of _run_one.  Its appends *)
(* need the store's thread lock, which consume_control_requests holds while *)
(* it handles the inbox.                                                    *)

StoreUnlocked == pc # "handle"
unchangedByWorker == <<controlVars, loopVars, todo, envVars>>

Spawn(t) ==
    /\ future[t] = "queued"
    /\ future' = [future EXCEPT ![t] = "spawned"]
    /\ procs' = procs \cup {<<t, attempt[t]>>}
    /\ UNCHANGED <<storeVars, fieldVars, processes, unchangedByWorker>>

SpawnFails(t) ==
    /\ "failed" \in Outcomes
    /\ future[t] = "queued"
    /\ future' = [future EXCEPT ![t] = "raised"]
    /\ UNCHANGED <<storeVars, fieldVars, procs, processes, unchangedByWorker>>

(* on_process: first the dictionary entry, then the pid in the journal *)
Register(t) ==
    /\ future[t] = "spawned"
    /\ future' = [future EXCEPT ![t] = "registered"]
    /\ processes' = processes \cup {t}
    /\ UNCHANGED <<storeVars, fieldVars, procs, unchangedByWorker>>

RecordPid(t) ==
    /\ future[t] = "registered" /\ StoreUnlocked
    /\ future' = [future EXCEPT ![t] = "live"]
    /\ pid' = [pid EXCEPT ![t] = attempt[t]]
    /\ UNCHANGED <<storeVars, fingerprint, terra, worktree, procs, processes, unchangedByWorker>>

ReportUsage(t) ==
    /\ future[t] = "live" /\ StoreUnlocked
    /\ \E n \in UsageDeltas : used + n <= UsageBound /\ RecordUsage(n)
    /\ UNCHANGED <<fieldVars, workerVars, unchangedByWorker>>

(* the process ended, by itself or terminated, and the thread returns *)
\* a mutant, for OneWorkerPerTask: the thread gives up on a process that lives
FinishDetached(t) ==
    /\ future[t] = "live"
    /\ future' = [future EXCEPT ![t] = "done"]
    /\ processes' = processes \ {t}
    /\ UNCHANGED <<storeVars, fieldVars, procs, unchangedByWorker>>
Finish(t) ==
    /\ future[t] = "live"
    /\ future' = [future EXCEPT ![t] = "done"]
    /\ procs' = procs \ {<<t, attempt[t]>>}
    /\ processes' = processes \ {t}
    /\ UNCHANGED <<storeVars, fieldVars, unchangedByWorker>>

Worker(t) == Spawn(t) \/ SpawnFails(t) \/ Register(t) \/ RecordPid(t) \/ Finish(t)

-----------------------------------------------------------------------------
(* The environment. *)

(* submit_control_request replaces {request_id}.json in the inbox *)
Submit(r) ==
    /\ submits[r] < MaxSubmits
    /\ submits' = [submits EXCEPT ![r] = @ + 1]
    /\ inbox' = inbox \cup {r}
    /\ UNCHANGED <<storeVars, fieldVars, served, workerVars, loopVars, todo, envVars>>

(* The runtime process dies: memory is lost, the workers it started in       *)
(* sessions of their own live on.                                            *)
Crash ==
    /\ pc # "off"
    /\ crashes < MaxCrashes
    /\ crashes' = crashes + 1
    /\ pc' = "off" /\ todo' = <<>> /\ ready' = {} /\ batch' = {}
    /\ progress' = FALSE /\ error' = "none"
    /\ future' = [t \in Task |-> "none"] /\ processes' = {}
    /\ UNCHANGED <<storeVars, fieldVars, controlVars, procs, branch>>

(* a worker no thread watches any more ends *)
OrphanExits ==
    /\ \E p \in procs : /\ future[p[1]] \notin {"spawned", "registered", "live"}
                             \/ p[2] # attempt[p[1]]
                        /\ procs' = procs \ {p}
    /\ UNCHANGED <<storeVars, fieldVars, controlVars, future, processes, loopVars, todo, envVars>>

Next ==
    \/ Boot \/ Main
    \/ \E t \in Task : Worker(t) \/ ReportUsage(t)
    \/ \E r \in Request : Submit(r)
    \/ Crash \/ OrphanExits

Spec == Init /\ [][Next]_vars

(* The main loop and the worker threads go on, and workers end; nobody has   *)
(* to start a run, submit a request or report usage.                         *)
FairSpec == Spec /\ WF_vars(Main) /\ \A t \in Task : WF_vars(Worker(t))

=============================================================================
