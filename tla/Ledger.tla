------------------------------- MODULE Ledger -------------------------------
(***************************************************************************)
(* What the journal of a workflow may ever say.  Each action is one event  *)
(* of the journal as scheduler.py, recovery.py and workflow.py append it,  *)
(* under the conditions those callers establish before they append; which  *)
(* call comes next, and whether the process dies between two appends, is   *)
(* left open.  The main loop of module Runtime is shown to implement it,   *)
(* so what is proved here for every order of events holds of every prefix  *)
(* a crash can leave behind.                                               *)
(***************************************************************************)
EXTENDS Store, Functions

CONSTANTS
    Reserve,      \* budget.reserve_tokens of each task
    MaxAttempts,  \* retry.max_attempts of each task
    UsageDeltas,  \* sizes of the usage reports workers make
    UsageBound    \* bound of the model on used_tokens

ASSUME LedgerAssumption ==
    /\ Reserve \in [Task -> Nat \ {0}]
    /\ MaxAttempts \in [Task -> Nat \ {0}]
    /\ UsageDeltas \subseteq Nat
    /\ UsageBound \in Nat

DepsAccepted(t) == \A d \in deps[t] : state[d] = "accepted"

(* _run_map: a child is added with dependencies that exist, and a reducer   *)
(* that was never attempted takes the children as further dependencies      *)
\* a mutant, for SucceededIsSettled: the map does not look at the workflow
ExpandAnytime(t) ==
    \E ds \in SUBSET {u \in Task : state[u] # "absent"} : AddTask(t, ds)
Expand(t) ==
    /\ wf = "running"
    /\ \E ds \in SUBSET {u \in Task : state[u] # "absent"} : AddTask(t, ds)
AwaitChildren(t) ==
    /\ wf = "running"
    /\ attempt[t] = 0
    /\ state[t] \in {"pending", "blocked", "cancelled"}
    /\ \E ds \in SUBSET {u \in Task : state[u] # "absent"} :
          UpdateDeps(t, deps[t] \cup ds)

(* refresh_ready: a pending task whose dependencies are all accepted *)
\* a mutant, for GatedByAcceptance: a dependency that came to an end will do
MakeReadyAfterEnd(t) ==
    /\ state[t] = "pending"
    /\ \A d \in deps[t] : state[d] \in {"accepted", "rejected", "failed"}
    /\ TransitionTask(t, "ready")
MakeReady(t) ==
    /\ state[t] = "pending"
    /\ DepsAccepted(t)
    /\ TransitionTask(t, "ready")

(* block and the last branch of refresh_ready *)
Block(t) ==
    /\ state[t] \in {"pending", "ready"}
    /\ TransitionTask(t, "blocked")

(* first append of start: the key names the attempt about to begin *)
ReserveAttempt(t) ==
    /\ state[t] = "ready"
    /\ wf = "running"
    /\ ReserveBudget(t, Reserve[t], ReserveKey(t, attempt[t] + 1))

(* second append of start *)
StartReserved(t) ==
    /\ wf = "running"
    /\ ReserveKey(t, attempt[t] + 1) \in keys
    /\ TransitionToRunning(t, Reserve[t])

(* accept_cached, accept_computed and the local nodes of the runtime start *)
(* an attempt without a reservation                                        *)
StartComputed(t) == TransitionToRunning(t, reserved[t])

(* complete, and the verdicts on an attempt; the table says from which state *)
Complete(t) == TransitionTask(t, "completed")
BeginVerify(t) == TransitionTask(t, "verifying")
Accept(t) == TransitionTask(t, "accepted")
Reject(t) == TransitionTask(t, "rejected")
Fail(t) == TransitionTask(t, "failed")
Exhaust(t) == TransitionTask(t, "budget_exhausted")
Interrupt(t) == TransitionTask(t, "interrupted")
Cancel(t) == TransitionTask(t, "cancelled")

(* maybe_retry and manual_retry *)
Retryable(t) == state[t] \in {"rejected", "failed", "interrupted", "budget_exhausted"}
WaitForRetry(t) ==
    /\ Retryable(t)
    /\ attempt[t] < MaxAttempts[t]
    /\ TransitionTask(t, "retry_wait")
Requeue(t) == state[t] = "retry_wait" /\ TransitionTask(t, "ready")

(* _release_task_reservation runs after the attempt's verdict, reconcile's *)
(* release after the interruption                                          *)
ReleaseAttempt(t) ==
    /\ reserved[t] > 0
    /\ state[t] \in {"accepted", "rejected", "failed", "budget_exhausted", "cancelled"}
    /\ ReleaseBudget(t, reserved[t], ReleaseKey(t, attempt[t], reserved[t]))
ReleaseInterrupted(t) ==
    /\ reserved[t] > 0
    /\ state[t] = "interrupted"
    /\ ReleaseBudget(t, reserved[t], RecoveryKey(t, attempt[t]))

ReportUsage ==
    \E n \in UsageDeltas : used + n <= UsageBound /\ RecordUsage(n)

(* the verdict of the main loop: a workflow succeeds on settled tasks only *)
Succeed ==
    /\ \A t \in Task : state[t] \in {"absent", "accepted", "blocked"}
    /\ \E t \in Task : state[t] = "accepted"
    /\ TransitionWorkflow("succeeded")
MoveWorkflow ==
    \E to \in WorkflowState \ {"succeeded"} : TransitionWorkflow(to)

TaskEvent(t) ==
    \/ Expand(t) \/ AwaitChildren(t)
    \/ MakeReady(t) \/ Block(t)
    \/ ReserveAttempt(t) \/ StartReserved(t) \/ StartComputed(t)
    \/ Complete(t) \/ BeginVerify(t) \/ Accept(t) \/ Reject(t)
    \/ Fail(t) \/ Exhaust(t) \/ Interrupt(t)
    \/ WaitForRetry(t) \/ Requeue(t) \/ Cancel(t)
    \/ ReleaseAttempt(t) \/ ReleaseInterrupted(t)

Next ==
    \/ \E t \in Task : TaskEvent(t)
    \/ ReportUsage \/ Succeed \/ MoveWorkflow

Spec == StoreInit /\ [][Next]_storeVars

-----------------------------------------------------------------------------
(* Properties *)

(* The shape of the durable state (store.py, _initial_snapshot and          *)
(* _apply_event).                                                           *)
TypeOK == StoreTypeOK

(* Acceptance gating (scheduler.refresh_ready): a task that was ever        *)
(* attempted, or waits to be, has every dependency accepted, and keeps it   *)
(* so: nothing that happens later to a dependency takes that away.          *)
GatedByAcceptance ==
    \A t \in Task :
        (attempt[t] > 0 \/ state[t] \notin {"absent", "pending", "blocked", "cancelled"})
            => DepsAccepted(t)

(* Retries are bounded (maybe_retry, manual_retry): no sequence of automatic *)
(* and operator retries, cached results and crashes starts more than         *)
(* max_attempts attempts.                                                    *)
AttemptsBounded == \A t \in Task : attempt[t] <= MaxAttempts[t]

(* Reservations never exceed the workflow's limit (store.reserve_budget).    *)
ReservationsWithinLimit == budgetReserved <= Limit

(* A succeeded workflow (workflow.run) has only accepted and blocked tasks,  *)
(* and no later event reopens one.                                           *)
SucceededIsSettled ==
    wf = "succeeded" => \A t \in Task : state[t] \in {"absent", "accepted", "blocked"}

(* A verdict on the work itself needs an attempt, and the acceptance is      *)
(* final: an accepted, blocked or cancelled task keeps its state and never   *)
(* starts another attempt (TASK_TRANSITIONS).                                *)
SettledForGood ==
    [][\A t \in Task : state[t] \in {"accepted", "blocked", "cancelled"}
            => state'[t] = state[t] /\ attempt'[t] = attempt[t]]_storeVars

(* The workflow's reservation counter covers what its tasks hold, so that a  *)
(* release is never refused with "released tokens exceed reservation"        *)
(* (store.release_budget), wherever crashes fall between an attempt's        *)
(* reservation, its start, its verdict and its release.                      *)
BudgetCoversTasks ==
    FoldFunctionOnSet(+, 0, reserved, Task) <= budgetReserved

(* The journal implements the acceptance of a graph of results (module       *)
(* Acceptance): states, retries, requests, reservations and recovery come    *)
(* down to tries and verdicts, and a success closes the graph (workflow.run, *)
(* scheduler.py, recovery.py).                                               *)
Verdict(t) ==
    IF state[t] = "accepted" THEN "accepted"
    ELSE IF state[t] \in {"blocked", "cancelled"} THEN "dropped" ELSE "open"

A == INSTANCE Acceptance WITH
        MaxTries <- MaxAttempts,
        verdict <- [t \in Task |-> Verdict(t)],
        tries <- attempt,
        needs <- deps,
        closed <- (wf = "succeeded")
ImplementsAcceptance == A!Spec

=============================================================================
