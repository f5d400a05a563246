----------------------------- MODULE TaskStates -----------------------------
(***************************************************************************)
(* The value objects of orchestrator_agent/models.py: the states of a task *)
(* and of a workflow, and the two transition tables every journal event is *)
(* checked against.  The tables are written as relations, so that a proof  *)
(* can expand them.                                                        *)
(***************************************************************************)

TaskState ==
    {"pending", "ready", "running", "completed", "verifying", "accepted",
     "rejected", "blocked", "retry_wait", "paused", "cancelled",
     "interrupted", "failed", "budget_exhausted"}

WorkflowState ==
    {"created", "running", "paused", "succeeded", "failed",
     "budget_exhausted", "cancelled", "interrupted"}

CanTransitionTask(from, to) ==
    \/ from = "pending"     /\ to \in {"ready", "blocked", "cancelled"}
    \/ from = "ready"       /\ to \in {"running", "blocked", "cancelled"}
    \/ from = "running"     /\ to \in {"completed", "failed", "interrupted",
                                       "cancelled", "budget_exhausted"}
    \/ from = "completed"   /\ to = "verifying"
    \/ from = "verifying"   /\ to \in {"accepted", "rejected", "retry_wait"}
    \/ from = "retry_wait"  /\ to \in {"ready", "cancelled", "blocked"}
    \/ from = "rejected"    /\ to = "retry_wait"
    \/ from = "paused"      /\ to \in {"ready", "cancelled"}
    \/ from = "interrupted" /\ to \in {"retry_wait", "cancelled"}
    \/ from = "failed"      /\ to = "retry_wait"
    \/ from = "budget_exhausted" /\ to \in {"retry_wait", "cancelled"}

CanTransitionWorkflow(from, to) ==
    \/ from = "created" /\ to \in {"running", "cancelled"}
    \/ from = "running" /\ to \in {"paused", "succeeded", "failed",
                                   "budget_exhausted", "cancelled", "interrupted"}
    \/ from \in {"paused", "failed", "budget_exhausted", "interrupted"}
          /\ to \in {"running", "cancelled"}

(* The states of a dependency that make refresh_ready give a pending task    *)
(* up (scheduler.py).                                                       *)
DeadState ==
    {"rejected", "blocked", "cancelled", "failed", "budget_exhausted", "interrupted"}

=============================================================================
