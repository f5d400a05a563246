------------------------------ MODULE Acceptance ------------------------------
(***************************************************************************)
(* What the orchestrator promises of a workflow's graph, without states,   *)
(* budgets or recovery: acceptance, and nothing else, opens the way to the *)
(* tasks that need a result.  A task is tried only over accepted needs and *)
(* a bounded number of times, is accepted only after a try, and a verdict  *)
(* is never taken back.                                                    *)
(***************************************************************************)
EXTENDS Naturals

CONSTANTS
    Task,
    MaxTries   \* tries allowed per task

VARIABLES
    verdict,   \* open, accepted or dropped
    tries,
    needs,     \* the tasks each one needs
    closed     \* the whole was declared a success

acceptanceVars == <<verdict, tries, needs, closed>>

Init ==
    /\ verdict = [t \in Task |-> "open"]
    /\ tries = [t \in Task |-> 0]
    /\ needs \in [Task -> SUBSET Task]
    /\ closed = FALSE

(* an untried task may turn out to need more *)
Need(t) ==
    /\ tries[t] = 0
    /\ \E ts \in SUBSET Task : needs' = [needs EXCEPT ![t] = @ \cup ts]
    /\ UNCHANGED <<verdict, tries, closed>>

Try(t) ==
    /\ verdict[t] = "open"
    /\ tries[t] < MaxTries[t]
    /\ \A d \in needs[t] : verdict[d] = "accepted"
    /\ tries' = [tries EXCEPT ![t] = @ + 1]
    /\ UNCHANGED <<verdict, needs, closed>>

Accept(t) ==
    /\ verdict[t] = "open"
    /\ tries[t] > 0
    /\ verdict' = [verdict EXCEPT ![t] = "accepted"]
    /\ UNCHANGED <<tries, needs, closed>>

Drop(t) ==
    /\ verdict[t] = "open"
    /\ verdict' = [verdict EXCEPT ![t] = "dropped"]
    /\ UNCHANGED <<tries, needs, closed>>

Close ==
    /\ ~closed
    /\ \E t \in Task : verdict[t] = "accepted"
    /\ closed' = TRUE
    /\ UNCHANGED <<verdict, tries, needs>>

Next ==
    \/ ~closed /\ \E t \in Task : Need(t) \/ Try(t) \/ Accept(t) \/ Drop(t)
    \/ Close

Spec == Init /\ [][Next]_acceptanceVars

=============================================================================
