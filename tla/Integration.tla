----------------------------- MODULE Integration -----------------------------
(***************************************************************************)
(* The integration of writers' worktrees into the repository               *)
(* (integration.py, cli.py): a plan is built from what the worktrees       *)
(* changed, the user reviews it and approves its digest, and the plan      *)
(* is applied patch by patch while the user goes on working.               *)
(*                                                                         *)
(* A patch holds what its worktree had changed when the plan was built.    *)
(* One path stands for all: the plan looks at every path for itself.       *)
(***************************************************************************)
EXTENDS Naturals, Sequences, SequencesExt, FiniteSets

CONSTANTS
    Writer,
    Outsider,   \* a writer nobody hands to the plan
    Id,         \* [Writer -> Nat], the order of the writers' ids
    MaxHead,    \* bound on the repository's commits
    MaxPlans    \* bound on the plans the user makes

ASSUME IntegrationAssumption ==
    /\ Outsider \notin Writer
    /\ Id \in [Writer -> Nat]
    /\ \A v, w \in Writer : v # w => Id[v] # Id[w]
    /\ MaxHead \in Nat /\ MaxPlans \in Nat

VARIABLES
    deps,      \* depends_on of each writer
    touched,   \* the writers that changed the path
    head,      \* the commit of the repository
    plan,      \* the plan file
    plans,     \* how many plans were made
    approval,  \* the plan whose digest the user has approved
    refused,   \* the writers the last planning refused to order
    step,      \* where apply_integration_plan is
    loaded,    \* the plan it applies
    applied    \* the writers it has applied

vars == <<deps, touched, head, plan, plans, approval, refused, step, loaded, applied>>

NoPlan == [writers |-> {}, order |-> << >>, ready |-> FALSE, head |-> 0, conflicts |-> {}]

Init ==
    /\ deps \in [Writer -> SUBSET Writer \cup {{Outsider}}]
    /\ touched \in SUBSET Writer
    /\ head = 1 /\ plans = 0
    /\ plan = NoPlan /\ loaded = NoPlan /\ approval = NoPlan
    /\ refused = {}
    /\ step = "idle"
    /\ applied = << >>

-----------------------------------------------------------------------------
(* The plan. *)

ById(writers) == SetToSortSeq(writers, LAMBDA v, w : Id[v] < Id[w])

\* _depends_on, with the writers it has met: those met once are not entered again
RECURSIVE Search(_, _, _)
Search(w, target, seen) ==
    IF w \in seen THEN [found |-> FALSE, seen |-> seen]
    ELSE IF target \in deps[w] THEN [found |-> TRUE, seen |-> seen \cup {w}]
    ELSE FoldLeft(LAMBDA result, parent :
                      IF result.found THEN result ELSE Search(parent, target, result.seen),
                  [found |-> FALSE, seen |-> seen \cup {w}],
                  SetToSeq(deps[w]))
DependsOn(w, target) == Search(w, target, {}).found

\* a mutant, for AppliedInOrder: only neighbours among a path's owners are compared
ConflictsOfNeighbours(writers) ==
    LET owners == ById(writers \cap touched)
    IN {{owners[i], owners[i + 1]} : i \in
           {j \in 1..(Len(owners) - 1) : /\ ~DependsOn(owners[j], owners[j + 1])
                                         /\ ~DependsOn(owners[j + 1], owners[j])}}

Conflicts(writers) ==
    LET owners == writers \cap touched
    IN {pair \in SUBSET owners : \E v, w \in pair :
           v # w /\ pair = {v, w} /\ ~DependsOn(v, w) /\ ~DependsOn(w, v)}

\* a mutant, for PlannedIffOrderable: the writers of a layer stay among the
\* dependencies of the others
OrderOfOneLayer(writers) ==
    LET layer == {w \in writers : deps[w] = {}}
    IN IF layer = writers THEN ById(layer) ELSE << >>

\* _topological_order: layer by layer those whose dependencies are placed, by
\* id within a layer; an empty sequence when a layer is empty too early
RECURSIVE Layers(_, _)
Layers(remaining, writers) ==
    LET layer == {w \in remaining : deps[w] \cap remaining = {}}
    IN IF remaining = {} THEN << >>
       ELSE IF layer = {} THEN <<Outsider>>
       ELSE ById(layer) \o Layers(remaining \ layer, writers)
Order(writers) ==
    LET order == Layers(writers, writers)
    IN IF Outsider \in Range(order) THEN << >> ELSE order

\* build_integration_plan for some writers; sound: they all kept to their
\* scopes and their bases.  Unknown dependencies and cycles raise, and the
\* plan file stays as it was
Plan(writers, sound) ==
    LET order == Order(writers)
        known == UNION {deps[w] : w \in writers} \subseteq writers
        conflicts == Conflicts(writers)
    IN /\ plans < MaxPlans
       /\ plans' = plans + 1
       /\ IF ~known \/ order = << >>
          THEN refused' = writers /\ UNCHANGED plan
          ELSE /\ plan' = [writers |-> writers, order |-> order, head |-> head,
                           conflicts |-> conflicts, ready |-> conflicts = {} /\ sound]
               /\ refused' = {}
       /\ UNCHANGED <<deps, touched, head, approval, step, loaded, applied>>

\* the user approves the plan as it is now, for the integrations to come
Approve ==
    /\ step = "idle" /\ plan # NoPlan
    /\ approval' = plan
    /\ UNCHANGED <<deps, touched, head, plan, plans, refused, step, loaded, applied>>

-----------------------------------------------------------------------------
(* apply_integration_plan. *)

\* the plan is read, must be ready, and must be the one that was approved
Load ==
    /\ step = "idle" /\ plan # NoPlan
    /\ IF plan.ready /\ approval = plan
       THEN step' = "approved" /\ loaded' = plan
       ELSE UNCHANGED <<step, loaded>>
    /\ applied' = << >>
    /\ UNCHANGED <<deps, touched, head, plan, plans, approval, refused>>

\* a mutant, for StalePlanChangesNothing: HEAD is not looked at
HeadTrusted ==
    /\ step = "approved"
    /\ step' = "applying"
    /\ UNCHANGED <<deps, touched, head, plan, plans, approval, refused, loaded, applied>>

CheckHead ==
    /\ step = "approved"
    /\ IF head = loaded.head
       THEN step' = "applying" /\ UNCHANGED loaded
       ELSE step' = "idle" /\ loaded' = NoPlan
    /\ UNCHANGED <<deps, touched, head, plan, plans, approval, refused, applied>>

\* the next patch goes in, or is missing or does not apply, and those before it stay
Apply ==
    /\ step = "applying" /\ Len(applied) < Len(loaded.order)
    /\ \/ /\ applied' = Append(applied, loaded.order[Len(applied) + 1])
          /\ UNCHANGED <<step, loaded>>
       \/ /\ step' = "idle" /\ loaded' = NoPlan
          /\ UNCHANGED applied
    /\ UNCHANGED <<deps, touched, head, plan, plans, approval, refused>>

\* the checks pass, fail or time out, and the patches stay
Verify ==
    /\ step = "applying" /\ Len(applied) = Len(loaded.order)
    /\ step' = "idle" /\ loaded' = NoPlan
    /\ UNCHANGED <<deps, touched, head, plan, plans, approval, refused, applied>>

Commit ==
    /\ head < MaxHead
    /\ head' = head + 1
    /\ UNCHANGED <<deps, touched, plan, plans, approval, refused, step, loaded, applied>>

Next ==
    \/ \E writers \in SUBSET Writer \ {{}}, sound \in BOOLEAN : Plan(writers, sound)
    \/ Approve \/ Load \/ CheckHead \/ Apply \/ Verify \/ Commit

Spec == Init /\ [][Next]_vars

-----------------------------------------------------------------------------
(* Properties. *)

\* The reference the planner is held to: a set of writers can be ordered when
\* every part of it has a writer with no dependency in that part.
Orderable(writers) ==
    /\ \A w \in writers : deps[w] \subseteq writers
    /\ \A part \in SUBSET writers \ {{}} : \E w \in part : deps[w] \cap part = {}

\* A plan is made for exactly those writers that can be ordered, and its order
\* has every writer once, after all it depends on, for any dependencies, cyclic
\* ones included (integration.py:230).
PlannedIffOrderable ==
    /\ refused # {} => ~Orderable(refused)
    /\ plan # NoPlan =>
          /\ Range(plan.order) = plan.writers
          /\ Len(plan.order) = Cardinality(plan.writers)
          /\ \A i \in 1..Len(plan.order) :
                deps[plan.order[i]] \subseteq {plan.order[j] : j \in 1..(i - 1)}

\* What w depends on, directly or through others, as the least set closed under deps.
Ancestors(w) ==
    {v \in Writer : \A closed \in SUBSET Writer :
        deps[w] \cup UNION {deps[x] : x \in closed} \subseteq closed => v \in closed}

\* Of two writers that changed one path, both are applied only if the later
\* one depends on the earlier, through however many others, wherever the
\* integration stops (integration.py:204, :293).
AppliedInOrder ==
    \A i, j \in 1..Len(applied) :
        i < j /\ {applied[i], applied[j]} \subseteq touched => applied[i] \in Ancestors(applied[j])

\* What goes into the repository is the plan as the user approved it, ready,
\* in its order and made for the commit found before the first patch, though
\* the plan file is written anew and commits are made at any time; anything
\* else changes nothing (integration.py:272-291).
StalePlanChangesNothing ==
    [][/\ Len(applied') > Len(applied) =>
              approval.ready /\ IsPrefix(applied', approval.order)
       /\ step = "approved" /\ step' = "applying" => head = approval.head]_vars

=============================================================================
