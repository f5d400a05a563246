---------------------------- MODULE LedgerProofs ----------------------------
(***************************************************************************)
(* Proofs about the journal's contract (module Ledger), for every set of   *)
(* tasks, every dependency relation, limit and number of attempts.         *)
(*                                                                         *)
(* Every event is one of a few changes to the state: a task is added,      *)
(* takes further dependencies, moves along the table, starts an attempt,   *)
(* or only the budget changes.  EventShape says so once, with what the     *)
(* callers have established; the invariants are then proved change by      *)
(* change.                                                                 *)
(***************************************************************************)
EXTENDS Ledger, Functions, FiniteSetTheorems, TLAPS

\* a non-empty set of numbers of an interval has a least one
LEMMA LeastIndex ==
    ASSUME NEW N \in Nat, NEW S \in SUBSET (1..N), S # {}
    PROVE  \E x \in S : \A y \in S : x <= y
<1> DEFINE Less == OpToRel(<, Nat)
<1>1. S \subseteq Nat
  OBVIOUS
<1>2. \A x, y \in S : y < x => <<y, x>> \in Less
  BY <1>1 DEF OpToRel
<1>3. IsWellFoundedOn(Less, Nat)
  BY NatLessThanWellFounded
<1> HIDE DEF Less
<1>4. PICK x \in S : \A y \in S : ~(<<y, x>> \in Less)
  BY <1>1, <1>3, WFMin
<1>5. \A y \in S : ~(y < x)
  BY <1>2, <1>4
<1>6. QED
  BY <1>1, <1>5

(* A non-empty set of subsets of a finite set has one that is minimal.       *)
LEMMA LeastSubset ==
    ASSUME NEW S, IsFiniteSet(S), NEW B \in SUBSET (SUBSET S), B # {}
    PROVE  \E X \in B : \A x \in X : X \ {x} \notin B
<1> DEFINE Smaller == StrictSubsetOrdering(S)
<1>1. IsWellFoundedOn(Smaller, SUBSET S)
  BY FS_FiniteSubsetsOfFinite, FS_StrictSubsetOrderingWellFounded
<1>2. PICK X \in B : \A C \in B : ~(<<C, X>> \in Smaller)
  <2> HIDE DEF Smaller
  <2> QED
    BY <1>1, WFMin
<1>3. \A x \in X : <<X \ {x}, X>> \in Smaller
  BY DEF StrictSubsetOrdering
<1>4. QED
  BY <1>2, <1>3

-----------------------------------------------------------------------------
(* Sums.  FoldFunctionOnSet takes the elements of a set in the order that    *)
(* CHOOSE gives, by a recursive function over its subsets.                   *)
SumOf(f, S) == FoldFunctionOnSet(+, 0, f, S)
Chosen(X) == CHOOSE x \in X : TRUE
SumsUp(sum, f, S) ==
    sum = [X \in SUBSET S |-> IF X = {} THEN 0 ELSE f[Chosen(X)] + sum[X \ {Chosen(X)}]]

SumsOver(sum, f, S) ==
    /\ sum \in [SUBSET S -> Nat] /\ SumOf(f, S) = sum[S]
    /\ sum[{}] = 0
    /\ \A X \in SUBSET S : X # {} =>
          /\ Chosen(X) \in X
          /\ sum[X] = f[Chosen(X)] + sum[X \ {Chosen(X)}]

(* the function exists: it is defined for sets of more and more elements     *)
LEMMA SumExists ==
    ASSUME NEW S, IsFiniteSet(S), NEW f \in [S -> Nat]
    PROVE  \E sum \in [SUBSET S -> Nat] : SumsUp(sum, f, S)
<1> DEFINE Size(n) == {X \in SUBSET S : Cardinality(X) < n}
           Term(g, X) == IF X = {} THEN 0 ELSE f[Chosen(X)] + g[X \ {Chosen(X)}]
           Upto(g, n) == g = [X \in Size(n) |-> Term(g, X)]
           N == Cardinality(S) + 1
           Bad == {n \in 1..N : ~ \E g \in [Size(n) -> Nat] : Upto(g, n)}
<1>1. /\ \A X \in SUBSET S : IsFiniteSet(X) /\ Cardinality(X) \in Nat /\ Cardinality(X) < N
      /\ N \in Nat /\ N >= 1
  BY FS_Subset, FS_CardinalityType
<1>2. ASSUME NEW X \in SUBSET S, X # {}
      PROVE  /\ Chosen(X) \in X /\ Chosen(X) \in S /\ X \ {Chosen(X)} \in SUBSET S
             /\ Cardinality(X \ {Chosen(X)}) = Cardinality(X) - 1
  BY <1>1, <1>2, FS_RemoveElement DEF Chosen
<1>3. \A X \in SUBSET S : Cardinality(X) < 1 => X = {}
  BY <1>1, FS_EmptySet
<1>4. 1 \notin Bad
  <2> DEFINE g == [X \in Size(1) |-> 0]
  <2>1. g \in [Size(1) -> Nat] /\ Upto(g, 1)
    BY <1>3
  <2>2. QED
    BY <2>1
<1>5. ASSUME NEW n \in 1..N, n + 1 \in 1..N, n \notin Bad
      PROVE  n + 1 \notin Bad
  <2>1. PICK g \in [Size(n) -> Nat] : Upto(g, n)
    BY <1>5
  <2> DEFINE h == [X \in Size(n + 1) |-> Term(g, X)]
  <2>2. \A X \in Size(n + 1) : X # {} => X \ {Chosen(X)} \in Size(n) /\ Chosen(X) \in S
    BY <1>1, <1>2
  <2>3. h \in [Size(n + 1) -> Nat]
    BY <2>2
  <2>4. \A X \in Size(n) : h[X] = g[X]
    <3>1. Size(n) \subseteq Size(n + 1)
      BY <1>1
    <3>2. \A X \in Size(n) : g[X] = Term(g, X)
      BY <2>1
    <3>3. QED
      BY <3>1, <3>2
  <2>5. \A X \in Size(n + 1) : Term(h, X) = Term(g, X)
    <3> HIDE DEF h, Size
    <3> QED
      BY <2>2, <2>4
  <2>6. Upto(h, n + 1)
    BY <2>5
  <2> HIDE DEF h
  <2>7. QED
    BY <2>3, <2>6
<1>6. Bad = {}
  <2> HIDE DEF N, Size, Upto
  <2> SUFFICES ASSUME Bad # {} PROVE FALSE
    OBVIOUS
  <2>1. PICK n \in Bad : \A m \in Bad : n <= m
    BY <1>1, LeastIndex
  <2>2. n \in 1..N /\ n # 1
    BY <1>4, <2>1
  <2>3. n - 1 \in 1..N /\ n - 1 \notin Bad /\ (n - 1) + 1 = n
    <3> HIDE DEF Bad
    <3> QED
      BY <1>1, <2>1, <2>2
  <2>4. QED
    <3> HIDE DEF Bad
    <3> QED
      BY <1>5, <2>1, <2>2, <2>3
<1>7. PICK g \in [Size(N) -> Nat] : Upto(g, N)
  <2>1. N \in 1..N /\ N \notin Bad
    <3> HIDE DEF Bad, N
    <3> QED
      BY <1>1, <1>6
  <2> HIDE DEF N, Size, Upto
  <2>2. QED
    BY <2>1
<1>8. Size(N) = SUBSET S
  BY <1>1
<1>9. QED
  BY <1>7, <1>8 DEF SumsUp

LEMMA FoldIsSum ==
    ASSUME NEW S, IsFiniteSet(S), NEW f \in [S -> Nat]
    PROVE  \E sum : SumsOver(sum, f, S)
<1> DEFINE sum == CHOOSE g : SumsUp(g, f, S)
<1>1. SumsUp(sum, f, S)
  BY SumExists
<1>2. SumOf(f, S) = sum[S]
  BY DEF SumOf, FoldFunctionOnSet, MapThenFoldSet, SumsUp, Chosen
<1> HIDE DEF sum
<1>3. /\ sum[{}] = 0
      /\ \A X \in SUBSET S : X # {} =>
            /\ Chosen(X) \in X
            /\ sum[X] = f[Chosen(X)] + sum[X \ {Chosen(X)}]
  BY <1>1 DEF SumsUp, Chosen
<1>4. sum = [X \in SUBSET S |-> sum[X]]
  BY <1>1 DEF SumsUp
<1>5. \A X \in SUBSET S : sum[X] \in Nat
  <2> DEFINE B == {X \in SUBSET S : sum[X] \notin Nat}
  <2> SUFFICES ASSUME B # {} PROVE FALSE
    OBVIOUS
  <2>1. PICK X \in B : \A x \in X : X \ {x} \notin B
    <3> HIDE DEF B
    <3>1. B \in SUBSET (SUBSET S)
      BY DEF B
    <3>2. QED
      BY <3>1, LeastSubset
  <2>2. X \in SUBSET S /\ X # {}
    <3>1. X \in SUBSET S /\ sum[X] \notin Nat
      BY <2>1
    <3>2. sum[{}] \in Nat
      BY <1>3
    <3>3. QED
      BY <3>1, <3>2, Zenon
  <2>3. Chosen(X) \in X /\ sum[X] = f[Chosen(X)] + sum[X \ {Chosen(X)}]
    BY <1>3, <2>2
  <2>4. sum[X \ {Chosen(X)}] \in Nat
    BY <2>1, <2>2, <2>3
  <2>5. QED
    BY <2>1, <2>2, <2>3, <2>4
<1>6. QED
  BY <1>2, <1>3, <1>4, <1>5 DEF SumsOver

(* A sum of numbers follows its terms.                                       *)
SumFollows(f, h, t, S) ==
    /\ SumOf(f, S) \in Nat
    /\ f[t] <= SumOf(f, S)
    /\ SumOf(h, S) = SumOf(f, S) - f[t] + h[t]

LEMMA SumUpdate ==
    ASSUME NEW S, IsFiniteSet(S), NEW f \in [S -> Nat], NEW h \in [S -> Nat],
           NEW t \in S, \A x \in S \ {t} : h[x] = f[x]
    PROVE  SumFollows(f, h, t, S)
<1> DEFINE v == h[t]
<1>1. h[t] = v /\ \A x \in S \ {t} : h[x] = f[x]
  OBVIOUS
<1>2. PICK old : SumsOver(old, f, S)
  BY FoldIsSum
<1>3. PICK new : SumsOver(new, h, S)
  BY FoldIsSum
<1> USE DEF SumsOver
<1> DEFINE Good(X) == IF t \in X THEN f[t] <= old[X] /\ new[X] = old[X] - f[t] + v
                                 ELSE new[X] = old[X]
           B == {X \in SUBSET S : ~ Good(X)}
<1> HIDE DEF v
<1>4. ASSUME NEW X \in SUBSET S, X # {}, Good(X \ {Chosen(X)}) PROVE Good(X)
  <2>1. /\ Chosen(X) \in X /\ old[X] = f[Chosen(X)] + old[X \ {Chosen(X)}]
        /\ new[X] = h[Chosen(X)] + new[X \ {Chosen(X)}]
    BY <1>2, <1>3, <1>4
  <2>2. /\ f[t] \in Nat /\ f[Chosen(X)] \in Nat /\ h[Chosen(X)] \in Nat
        /\ old[X \ {Chosen(X)}] \in Nat /\ new[X \ {Chosen(X)}] \in Nat
    BY <1>1, <1>2, <1>3, <2>1
  <2>3. QED
    BY <1>1, <1>4, <2>1, <2>2
<1>5. Good({})
  BY <1>2, <1>3
<1>6. B = {}
  <2> HIDE DEF Good
  <2> SUFFICES ASSUME B # {} PROVE FALSE
    OBVIOUS
  <2>1. PICK X \in B : \A x \in X : X \ {x} \notin B
    <3> HIDE DEF B
    <3>1. B \in SUBSET (SUBSET S)
      BY DEF B
    <3>2. QED
      BY <3>1, LeastSubset
  <2>2. X # {} /\ X \in SUBSET S /\ Chosen(X) \in X
    BY <1>2, <1>5, <2>1
  <2>3. QED
    BY <1>4, <2>1, <2>2
<1>7. Good(S)
  BY <1>6
<1>8. old[S] \in Nat /\ SumOf(f, S) = old[S] /\ SumOf(h, S) = new[S]
  BY <1>2, <1>3
<1>9. QED
  BY <1>7, <1>8 DEF v, SumFollows

LEMMA SumOfZeros ==
    ASSUME NEW S, IsFiniteSet(S), NEW f \in [S -> Nat], \A x \in S : f[x] = 0
    PROVE  SumOf(f, S) = 0
<1>1. PICK sum : SumsOver(sum, f, S)
  BY FoldIsSum
<1> USE DEF SumsOver
<1> DEFINE B == {X \in SUBSET S : sum[X] # 0}
<1>2. B = {}
  <2> SUFFICES ASSUME B # {} PROVE FALSE
    OBVIOUS
  <2>1. PICK X \in B : \A x \in X : X \ {x} \notin B
    <3> HIDE DEF B
    <3>1. B \in SUBSET (SUBSET S)
      BY DEF B
    <3>2. QED
      BY <3>1, LeastSubset
  <2>2. /\ X \in SUBSET S /\ X # {} /\ Chosen(X) \in X
        /\ sum[X] = f[Chosen(X)] + sum[X \ {Chosen(X)}]
    BY <1>1, <2>1
  <2>3. sum[X \ {Chosen(X)}] = 0
    BY <2>1, <2>2
  <2>4. QED
    BY <2>1, <2>2, <2>3
<1>3. QED
  BY <1>1, <1>2

-----------------------------------------------------------------------------

(* The changes an event can make to what is not the budget. *)
Waiting == {"absent", "pending", "blocked", "cancelled"}

Adds(t, ds) == ds \subseteq Task /\ wf = "running" /\ AddTask(t, ds)

Awaits(t, ds) ==
    /\ ds \subseteq Task
    /\ wf = "running"
    /\ attempt[t] = 0
    /\ state[t] \in Waiting \ {"absent"}
    /\ UpdateDeps(t, deps[t] \cup ds)

Moves(t, to) ==
    /\ to \in TaskState \ {"running"}
    /\ to = "ready" => (state[t] = "pending" /\ DepsAccepted(t)) \/ state[t] = "retry_wait"
    /\ to = "retry_wait" =>
          attempt[t] < MaxAttempts[t] /\ state[t] \notin Waiting
    /\ TransitionTask(t, to)

Starts(t, tokens) ==
    /\ tokens \in Nat
    /\ \/ tokens = reserved[t]
       \/ tokens = Reserve[t] /\ ReserveKey(t, attempt[t] + 1) \in keys
    /\ TransitionToRunning(t, tokens)

BudgetEvent(t) == ReserveAttempt(t) \/ ReleaseAttempt(t) \/ ReleaseInterrupted(t)

LEMMA EventShape ==
    ASSUME TypeOK, NEW t \in Task, TaskEvent(t)
    PROVE  \/ \E ds : Adds(t, ds)
           \/ \E ds : Awaits(t, ds)
           \/ \E to : Moves(t, to)
           \/ \E tokens : Starts(t, tokens)
           \/ BudgetEvent(t)
<1> USE DEF TypeOK, StoreTypeOK
<1>1. CASE Expand(t)
  BY <1>1 DEF Expand, Adds
<1>2. CASE AwaitChildren(t)
  BY <1>2 DEF AwaitChildren, Awaits, Waiting
<1>3. CASE MakeReady(t)
  BY <1>3 DEF MakeReady, Moves, TaskState
<1>4. CASE Block(t)
  BY <1>4 DEF Block, Moves, TaskState
<1>5. CASE StartReserved(t)
  BY <1>5, LedgerAssumption DEF StartReserved, Starts
<1>6. CASE StartComputed(t)
  BY <1>6 DEF StartComputed, Starts
<1>7. CASE WaitForRetry(t)
  BY <1>7 DEF WaitForRetry, Retryable, Moves, TaskState, Waiting
<1>8. CASE Requeue(t)
  BY <1>8 DEF Requeue, Moves, TaskState
<1>9. CASE \/ Complete(t) \/ BeginVerify(t) \/ Accept(t) \/ Reject(t)
           \/ Fail(t) \/ Exhaust(t) \/ Interrupt(t) \/ Cancel(t)
  BY <1>9 DEF Complete, BeginVerify, Accept, Reject, Fail, Exhaust, Interrupt,
              Cancel, Moves, TaskState
<1>10. CASE BudgetEvent(t)
  BY <1>10
<1>11. QED
  BY <1>1, <1>2, <1>3, <1>4, <1>5, <1>6, <1>7, <1>8, <1>9, <1>10
  DEF TaskEvent, BudgetEvent

-----------------------------------------------------------------------------
(* Type correctness. *)

LEMMA BudgetEventType ==
    ASSUME TypeOK, NEW t \in Task, BudgetEvent(t)
    PROVE  TypeOK' /\ UNCHANGED <<wf, state, deps, attempt>>
<1> USE DEF TypeOK, StoreTypeOK
<1>1. CASE ReserveAttempt(t)
  BY <1>1, LedgerAssumption
  DEF ReserveAttempt, ReserveBudget, storeVars, ReserveKey, Key
<1>2. ASSUME NEW key \in Key, ReleaseBudget(t, reserved[t], key)
      PROVE  TypeOK' /\ UNCHANGED <<wf, state, deps, attempt>>
  BY <1>2 DEF ReleaseBudget, storeVars
<1>3. ReleaseKey(t, attempt[t], reserved[t]) \in Key /\ RecoveryKey(t, attempt[t]) \in Key
  BY DEF ReleaseKey, RecoveryKey, Key
<1>4. QED
  BY <1>1, <1>2, <1>3 DEF BudgetEvent, ReleaseAttempt, ReleaseInterrupted

LEMMA TypeStep ==
    ASSUME TypeOK, [Next]_storeVars
    PROVE  TypeOK'
<1> USE DEF TypeOK, StoreTypeOK
<1>1. ASSUME NEW t \in Task, NEW ds, Adds(t, ds) PROVE TypeOK'
  BY <1>1 DEF Adds, AddTask, TaskState
<1>2. ASSUME NEW t \in Task, NEW ds, Awaits(t, ds) PROVE TypeOK'
  BY <1>2 DEF Awaits, UpdateDeps
<1>3. ASSUME NEW t \in Task, NEW to, Moves(t, to) PROVE TypeOK'
  BY <1>3 DEF Moves, TransitionTask
<1>4. ASSUME NEW t \in Task, NEW tokens, Starts(t, tokens) PROVE TypeOK'
  BY <1>4 DEF Starts, TransitionToRunning, TaskState
<1>5. CASE ReportUsage
  BY <1>5, LedgerAssumption DEF ReportUsage, RecordUsage
<1>6. CASE Succeed \/ MoveWorkflow
  BY <1>6 DEF Succeed, MoveWorkflow, TransitionWorkflow, WorkflowState
<1>7. CASE UNCHANGED storeVars
  BY <1>7 DEF storeVars
<1>8. QED
  BY <1>1, <1>2, <1>3, <1>4, <1>5, <1>6, <1>7, EventShape, BudgetEventType DEF Next

(* The shape of the durable state is kept by every event (store._apply_event). *)
THEOREM TypeCorrect == Spec => []TypeOK
<1>1. StoreInit => TypeOK
  BY StoreAssumption DEF StoreInit, TypeOK, StoreTypeOK, TaskState, WorkflowState
<1>2. QED
  BY <1>1, TypeStep, PTL DEF Spec

(* Once more the shape of a step, for the invariants that do not look at the *)
(* budget: a task event, or a change of the workflow's state alone.          *)
LEMMA StepShape ==
    ASSUME TypeOK, [Next]_storeVars
    PROVE  \/ \E t \in Task : \E ds : Adds(t, ds)
           \/ \E t \in Task : \E ds : Awaits(t, ds)
           \/ \E t \in Task : \E to : Moves(t, to)
           \/ \E t \in Task : \E tokens : Starts(t, tokens)
           \/ Succeed
           \/ MoveWorkflow
           \/ UNCHANGED <<wf, state, deps, attempt>>
<1>1. CASE ReportUsage
  BY <1>1 DEF ReportUsage, RecordUsage
<1>2. CASE UNCHANGED storeVars
  BY <1>2 DEF storeVars
<1>3. QED
  BY <1>1, <1>2, EventShape, BudgetEventType DEF Next

-----------------------------------------------------------------------------
(* Attempts.  That the limit holds is not inductive: an attempt may start    *)
(* from ready, so a task that can still become ready must have one left.     *)
AttemptLeft ==
    \A t \in Task :
        /\ attempt[t] <= MaxAttempts[t]
        /\ state[t] \in {"absent", "pending", "ready", "retry_wait"}
              => attempt[t] < MaxAttempts[t]

LEMMA AttemptLeftAlways == Spec => []AttemptLeft
<1>1. StoreInit => AttemptLeft
  BY StoreAssumption, LedgerAssumption DEF StoreInit, AttemptLeft
<1>2. TypeOK /\ AttemptLeft /\ [Next]_storeVars => AttemptLeft'
  <2> SUFFICES ASSUME TypeOK, AttemptLeft, [Next]_storeVars PROVE AttemptLeft'
    OBVIOUS
  <2> USE LedgerAssumption DEF TypeOK, StoreTypeOK, AttemptLeft
  <2>1. ASSUME NEW t \in Task, NEW ds, Adds(t, ds) PROVE AttemptLeft'
    BY <2>1 DEF Adds, AddTask
  <2>2. ASSUME NEW t \in Task, NEW ds, Awaits(t, ds) PROVE AttemptLeft'
    BY <2>2 DEF Awaits, UpdateDeps
  <2>3. ASSUME NEW t \in Task, NEW to, Moves(t, to) PROVE AttemptLeft'
    BY <2>3 DEF Moves, TransitionTask, CanTransitionTask
  <2>4. ASSUME NEW t \in Task, NEW tokens, Starts(t, tokens) PROVE AttemptLeft'
    BY <2>4 DEF Starts, TransitionToRunning, CanTransitionTask
  <2>5. CASE Succeed \/ MoveWorkflow
    BY <2>5 DEF Succeed, MoveWorkflow, TransitionWorkflow
  <2>6. CASE UNCHANGED <<wf, state, deps, attempt>>
    BY <2>6
  <2>7. QED
    BY <2>1, <2>2, <2>3, <2>4, <2>5, <2>6, StepShape
<1>3. QED
  BY <1>1, <1>2, TypeCorrect, PTL DEF Spec

(* No journal starts more than max_attempts attempts of a task               *)
(* (maybe_retry, manual_retry, and every way an attempt starts).             *)
THEOREM AttemptsAreBounded == Spec => []AttemptsBounded
<1>1. AttemptLeft => AttemptsBounded
  BY DEF AttemptLeft, AttemptsBounded
<1>2. QED
  BY <1>1, AttemptLeftAlways, PTL

-----------------------------------------------------------------------------
(* Acceptance gating.  A task that is not yet there was never attempted;     *)
(* with that, gating is inductive: acceptance is final, and dependencies     *)
(* only grow while no attempt was made.                                      *)
Gated ==
    /\ GatedByAcceptance
    /\ \A t \in Task : state[t] = "absent" => attempt[t] = 0

LEMMA AcceptedStays ==
    ASSUME TypeOK, [Next]_storeVars, NEW t \in Task, state[t] = "accepted"
    PROVE  state'[t] = "accepted"
<1> USE DEF TypeOK, StoreTypeOK
<1>1. ASSUME NEW u \in Task, NEW ds, Adds(u, ds) PROVE state'[t] = "accepted"
  BY <1>1 DEF Adds, AddTask
<1>2. ASSUME NEW u \in Task, NEW to, Moves(u, to) PROVE state'[t] = "accepted"
  BY <1>2 DEF Moves, TransitionTask, CanTransitionTask
<1>3. ASSUME NEW u \in Task, NEW tokens, Starts(u, tokens) PROVE state'[t] = "accepted"
  BY <1>3 DEF Starts, TransitionToRunning, CanTransitionTask
<1>4. ASSUME NEW u \in Task, NEW ds, Awaits(u, ds) PROVE state'[t] = "accepted"
  BY <1>4 DEF Awaits, UpdateDeps
<1>5. CASE Succeed \/ MoveWorkflow
  BY <1>5 DEF Succeed, MoveWorkflow, TransitionWorkflow
<1>6. QED
  BY <1>1, <1>2, <1>3, <1>4, <1>5, StepShape

LEMMA GatedStep ==
    ASSUME TypeOK, Gated, [Next]_storeVars
    PROVE  Gated'
<1>0. ASSUME NEW u \in Task, DepsAccepted(u), deps'[u] = deps[u]
      PROVE  DepsAccepted(u)'
  BY <1>0, AcceptedStays DEF DepsAccepted, TypeOK, StoreTypeOK
<1> USE DEF TypeOK, StoreTypeOK, Gated, GatedByAcceptance
<1>1. ASSUME NEW t \in Task, NEW ds, Adds(t, ds) PROVE Gated'
  BY <1>1, <1>0 DEF Adds, AddTask
<1>2. ASSUME NEW t \in Task, NEW ds, Awaits(t, ds) PROVE Gated'
  BY <1>2, <1>0 DEF Awaits, UpdateDeps, Waiting
<1>3. ASSUME NEW t \in Task, NEW to, Moves(t, to) PROVE Gated'
  BY <1>3, <1>0 DEF Moves, TransitionTask, CanTransitionTask, TaskState, Waiting
<1>4. ASSUME NEW t \in Task, NEW tokens, Starts(t, tokens) PROVE Gated'
  BY <1>4, <1>0 DEF Starts, TransitionToRunning, CanTransitionTask
<1>5. CASE Succeed \/ MoveWorkflow
  BY <1>5, <1>0 DEF Succeed, MoveWorkflow, TransitionWorkflow
<1>6. CASE UNCHANGED <<wf, state, deps, attempt>>
  BY <1>6, <1>0
<1>7. QED
  BY <1>1, <1>2, <1>3, <1>4, <1>5, <1>6, StepShape

LEMMA GatedAlways == Spec => []Gated
<1>1. StoreInit => Gated
  BY StoreAssumption DEF StoreInit, Gated, GatedByAcceptance
<1>2. QED
  BY <1>1, GatedStep, TypeCorrect, PTL DEF Spec

(* Only accepted dependencies ever let a task be attempted, and nothing that *)
(* happens later takes their acceptance back (scheduler.refresh_ready).      *)
THEOREM AcceptanceGates == Spec => []GatedByAcceptance
<1>1. Gated => GatedByAcceptance
  BY DEF Gated
<1>2. QED
  BY <1>1, GatedAlways, PTL

-----------------------------------------------------------------------------
(* A succeeded workflow stays settled: only a running workflow can take new  *)
(* tasks, and what is accepted or blocked moves no more (run, _run_map).     *)
THEOREM SuccessIsSettled == Spec => []SucceededIsSettled
<1>1. StoreInit => SucceededIsSettled
  BY DEF StoreInit, SucceededIsSettled
<1>2. TypeOK /\ SucceededIsSettled /\ [Next]_storeVars => SucceededIsSettled'
  <2> SUFFICES ASSUME TypeOK, SucceededIsSettled, [Next]_storeVars
               PROVE  SucceededIsSettled'
    OBVIOUS
  <2> USE DEF TypeOK, StoreTypeOK, SucceededIsSettled
  <2>1. ASSUME NEW t \in Task, NEW ds, Adds(t, ds) PROVE SucceededIsSettled'
    BY <2>1 DEF Adds, AddTask
  <2>2. ASSUME NEW t \in Task, NEW ds, Awaits(t, ds) PROVE SucceededIsSettled'
    BY <2>2 DEF Awaits, UpdateDeps
  <2>3. ASSUME NEW t \in Task, NEW to, Moves(t, to) PROVE SucceededIsSettled'
    BY <2>3 DEF Moves, TransitionTask, CanTransitionTask
  <2>4. ASSUME NEW t \in Task, NEW tokens, Starts(t, tokens) PROVE SucceededIsSettled'
    BY <2>4 DEF Starts, TransitionToRunning, CanTransitionTask
  <2>5. CASE Succeed
    BY <2>5 DEF Succeed, TransitionWorkflow
  <2>6. CASE MoveWorkflow
    BY <2>6 DEF MoveWorkflow, TransitionWorkflow
  <2>7. CASE UNCHANGED <<wf, state, deps, attempt>>
    BY <2>7
  <2>8. QED
    BY <2>1, <2>2, <2>3, <2>4, <2>5, <2>6, <2>7, StepShape
<1>3. QED
  BY <1>1, <1>2, TypeCorrect, PTL DEF Spec

(* An accepted, blocked or cancelled task keeps its state for good and is    *)
(* never attempted again (TASK_TRANSITIONS).                                 *)
THEOREM SettledTasksRest == Spec => SettledForGood
<1> DEFINE Rests(t) ==
        state[t] \in {"accepted", "blocked", "cancelled"}
            => state'[t] = state[t] /\ attempt'[t] = attempt[t]
<1>1. TypeOK /\ [Next]_storeVars => [\A t \in Task : Rests(t)]_storeVars
  <2> SUFFICES ASSUME TypeOK, [Next]_storeVars, NEW t \in Task PROVE Rests(t)
    OBVIOUS
  <2> USE DEF TypeOK, StoreTypeOK
  <2>1. ASSUME NEW u \in Task, NEW ds, Adds(u, ds) PROVE Rests(t)
    BY <2>1 DEF Adds, AddTask
  <2>2. ASSUME NEW u \in Task, NEW ds, Awaits(u, ds) PROVE Rests(t)
    BY <2>2 DEF Awaits, UpdateDeps
  <2>3. ASSUME NEW u \in Task, NEW to, Moves(u, to) PROVE Rests(t)
    BY <2>3 DEF Moves, TransitionTask, CanTransitionTask
  <2>4. ASSUME NEW u \in Task, NEW tokens, Starts(u, tokens) PROVE Rests(t)
    BY <2>4 DEF Starts, TransitionToRunning, CanTransitionTask
  <2>5. CASE Succeed \/ MoveWorkflow
    BY <2>5 DEF Succeed, MoveWorkflow, TransitionWorkflow
  <2>6. QED
    BY <2>1, <2>2, <2>3, <2>4, <2>5, StepShape
<1>2. QED
  BY <1>1, TypeCorrect, PTL DEF Spec, SettledForGood

-----------------------------------------------------------------------------
(* The budget.  Only a reservation adds to the reserved tokens, and it is    *)
(* checked against the limit together with what is used.                     *)
LEMMA BudgetStep ==
    ASSUME TypeOK, [Next]_storeVars
    PROVE  \/ budgetReserved' <= budgetReserved
           \/ used' = used /\ used' + budgetReserved' <= Limit
<1> USE StoreAssumption, LedgerAssumption DEF TypeOK, StoreTypeOK
<1>1. ASSUME NEW t \in Task, ReserveAttempt(t)
      PROVE  \/ budgetReserved' <= budgetReserved
             \/ used' = used /\ used' + budgetReserved' <= Limit
  BY <1>1 DEF ReserveAttempt, ReserveBudget, FitsBudget, storeVars
<1>2. ASSUME NEW t \in Task, ReleaseAttempt(t) \/ ReleaseInterrupted(t)
      PROVE  budgetReserved' <= budgetReserved
  BY <1>2 DEF ReleaseAttempt, ReleaseInterrupted, ReleaseBudget, storeVars
<1>3. ASSUME NEW t \in Task,
             \/ \E ds : Adds(t, ds)
             \/ \E ds : Awaits(t, ds)
             \/ \E to : Moves(t, to)
             \/ \E tokens : Starts(t, tokens)
      PROVE  budgetReserved' = budgetReserved
  BY <1>3 DEF Adds, Awaits, Moves, Starts, AddTask, UpdateDeps, TransitionTask,
              TransitionToRunning
<1>4. CASE ReportUsage \/ Succeed \/ MoveWorkflow \/ UNCHANGED storeVars
  BY <1>4 DEF ReportUsage, RecordUsage, Succeed, MoveWorkflow, TransitionWorkflow, storeVars
<1>5. QED
  BY <1>1, <1>2, <1>3, <1>4, EventShape DEF Next, BudgetEvent

(* The reservations of a workflow never exceed its limit                     *)
(* (store.reserve_budget).                                                   *)
THEOREM ReservationsFit == Spec => []ReservationsWithinLimit
<1>1. StoreInit => ReservationsWithinLimit
  BY StoreAssumption DEF StoreInit, ReservationsWithinLimit
<1>2. TypeOK /\ ReservationsWithinLimit /\ [Next]_storeVars => ReservationsWithinLimit'
  BY BudgetStep, TypeStep, StoreAssumption DEF TypeOK, StoreTypeOK, ReservationsWithinLimit
<1>3. QED
  BY <1>1, <1>2, TypeCorrect, PTL DEF Spec

(* Whose reservation is known already holds it until it starts: a reservation *)
(* that is made again, after a crash, is made for tokens the task has.        *)
Covered ==
    /\ \A t \in Task : \A n \in Nat : ReserveKey(t, n) \in keys => n <= attempt[t] + 1
    /\ \A t \in Task : ReserveKey(t, attempt[t] + 1) \in keys =>
          /\ state[t] \in {"ready", "blocked", "cancelled"}
          /\ state[t] = "ready" => Reserve[t] <= reserved[t]
    /\ SumOf(reserved, Task) <= budgetReserved

LEMMA ReservedSum ==
    ASSUME TypeOK, NEW t \in Task, NEW v \in Nat, reserved' = [reserved EXCEPT ![t] = v]
    PROVE  /\ SumOf(reserved, Task) \in Nat /\ reserved[t] <= SumOf(reserved, Task)
           /\ SumOf(reserved', Task) = SumOf(reserved, Task) - reserved[t] + v
<1>1. reserved \in [Task -> Nat] /\ reserved' \in [Task -> Nat] /\ IsFiniteSet(Task)
  BY TaskAssumption DEF TypeOK, StoreTypeOK
<1>2. reserved'[t] = v /\ \A u \in Task \ {t} : reserved'[u] = reserved[u]
  BY <1>1
<1>3. SumFollows(reserved, reserved', t, Task)
  BY <1>1, <1>2, SumUpdate
<1>4. QED
  BY <1>2, <1>3 DEF SumFollows

LEMMA ReserveCovered ==
    ASSUME TypeOK, Covered, NEW t \in Task, ReserveAttempt(t)
    PROVE  Covered'
<1> DEFINE key == ReserveKey(t, attempt[t] + 1)
<1> USE DEF TypeOK, StoreTypeOK
<1>1. CASE key \in keys
  BY <1>1 DEF ReserveAttempt, ReserveBudget, storeVars, Covered
<1>2. CASE key \notin keys
  <2>1. /\ state[t] = "ready" /\ UNCHANGED <<state, attempt>> /\ keys' = keys \cup {key}
        /\ reserved' = [reserved EXCEPT ![t] = reserved[t] + Reserve[t]]
        /\ budgetReserved' = budgetReserved + Reserve[t]
    BY <1>2 DEF ReserveAttempt, ReserveBudget
  <2>2. reserved[t] \in Nat /\ Reserve[t] \in Nat /\ attempt[t] \in Nat
    BY LedgerAssumption
  <2>3. SumOf(reserved', Task) <= budgetReserved'
    <3>1. reserved[t] + Reserve[t] \in Nat
      BY <2>2
    <3>2. /\ SumOf(reserved, Task) \in Nat /\ SumOf(reserved, Task) <= budgetReserved
          /\ SumOf(reserved', Task) = SumOf(reserved, Task) - reserved[t] + (reserved[t] + Reserve[t])
      BY <2>1, <3>1, ReservedSum DEF Covered
    <3>3. QED
      BY <2>1, <2>2, <3>2
  <2>4. ASSUME NEW u \in Task, NEW n \in Nat, ReserveKey(u, n) \in keys'
        PROVE  n <= attempt'[u] + 1
    BY <2>1, <2>2, <2>4 DEF Covered, ReserveKey
  <2>5. ASSUME NEW u \in Task, ReserveKey(u, attempt'[u] + 1) \in keys'
        PROVE  /\ state'[u] \in {"ready", "blocked", "cancelled"}
               /\ state'[u] = "ready" => Reserve[u] <= reserved'[u]
    BY <2>1, <2>2, <2>5 DEF Covered, ReserveKey
  <2>6. QED
    BY <2>3, <2>4, <2>5 DEF Covered
<1>3. QED
  BY <1>1, <1>2

LEMMA ReleaseCovered ==
    ASSUME TypeOK, Covered, NEW t \in Task, ReleaseAttempt(t) \/ ReleaseInterrupted(t)
    PROVE  Covered'
<1> USE DEF TypeOK, StoreTypeOK
<1>1. PICK key \in {ReleaseKey(t, attempt[t], reserved[t]), RecoveryKey(t, attempt[t])} :
         ReleaseBudget(t, reserved[t], key)
  BY DEF ReleaseAttempt, ReleaseInterrupted
<1>2. CASE key \in keys
  BY <1>1, <1>2 DEF ReleaseBudget, storeVars, Covered
<1>3. CASE key \notin keys
  <2>1. /\ state[t] # "ready" /\ UNCHANGED <<state, attempt>> /\ keys' = keys \cup {key}
        /\ budgetReserved' = budgetReserved - reserved[t]
        /\ reserved' = [reserved EXCEPT ![t] = 0]
    BY <1>1, <1>3 DEF ReleaseBudget, ReleaseAttempt, ReleaseInterrupted
  <2>2. \A u \in Task, n \in Nat : ReserveKey(u, n) \in keys' <=> ReserveKey(u, n) \in keys
    BY <1>1, <2>1 DEF ReserveKey, ReleaseKey, RecoveryKey
  <2>3. SumOf(reserved', Task) <= budgetReserved'
    <3>1. /\ SumOf(reserved, Task) \in Nat /\ SumOf(reserved, Task) <= budgetReserved
          /\ SumOf(reserved', Task) = SumOf(reserved, Task) - reserved[t] + 0
      BY <2>1, ReservedSum DEF Covered
    <3>2. reserved[t] \in Nat
      OBVIOUS
    <3>3. QED
      BY <2>1, <3>1, <3>2
  <2>4. ASSUME NEW u \in Task, NEW n \in Nat, ReserveKey(u, n) \in keys'
        PROVE  n <= attempt'[u] + 1
    BY <2>1, <2>2, <2>4 DEF Covered
  <2>5. ASSUME NEW u \in Task, ReserveKey(u, attempt'[u] + 1) \in keys'
        PROVE  /\ state'[u] \in {"ready", "blocked", "cancelled"}
               /\ state'[u] = "ready" => Reserve[u] <= reserved'[u]
    <3>1. ReserveKey(u, attempt[u] + 1) \in keys
      BY <2>1, <2>2, <2>5
    <3>2. QED
      BY <2>1, <3>1 DEF Covered
  <2>6. QED
    BY <2>3, <2>4, <2>5 DEF Covered
<1>4. QED
  BY <1>2, <1>3

LEMMA StartCovered ==
    ASSUME TypeOK, Covered, NEW t \in Task, NEW tokens, Starts(t, tokens)
    PROVE  Covered'
<1> USE DEF TypeOK, StoreTypeOK
<1>1. tokens \in Nat /\ tokens <= reserved[t] /\ TransitionToRunning(t, tokens)
  BY DEF Starts, TransitionToRunning, CanTransitionTask, Covered
<1>2. /\ state' = [state EXCEPT ![t] = "running"]
      /\ attempt' = [attempt EXCEPT ![t] = attempt[t] + 1]
      /\ reserved' = [reserved EXCEPT ![t] = tokens] /\ UNCHANGED <<budgetReserved, keys>>
  BY <1>1 DEF TransitionToRunning
<1>3. SumOf(reserved', Task) <= budgetReserved'
  <2>1. /\ SumOf(reserved, Task) <= budgetReserved /\ SumOf(reserved, Task) \in Nat
        /\ SumOf(reserved', Task) = SumOf(reserved, Task) - reserved[t] + tokens
    BY <1>1, <1>2, ReservedSum DEF Covered
  <2>2. reserved[t] \in Nat
    OBVIOUS
  <2>3. QED
    BY <1>1, <1>2, <2>1, <2>2
<1>4. ASSUME NEW u \in Task, NEW n \in Nat, ReserveKey(u, n) \in keys'
      PROVE  n <= attempt'[u] + 1
  <2>1. n <= attempt[u] + 1 /\ attempt[u] \in Nat
    BY <1>2, <1>4 DEF Covered
  <2>2. QED
    BY <1>2, <2>1
<1>5. ASSUME NEW u \in Task, ReserveKey(u, attempt'[u] + 1) \in keys'
      PROVE  /\ state'[u] \in {"ready", "blocked", "cancelled"}
             /\ state'[u] = "ready" => Reserve[u] <= reserved'[u]
  <2>1. attempt'[u] \in Nat /\ attempt'[u] + 1 <= attempt[u] + 1
    BY <1>2, <1>5 DEF Covered
  <2>2. u # t
    BY <1>2, <2>1
  <2>3. QED
    BY <1>2, <1>5, <2>2 DEF Covered
<1>6. QED
  BY <1>3, <1>4, <1>5 DEF Covered

LEMMA CoveredStep ==
    ASSUME TypeOK, Covered, [Next]_storeVars
    PROVE  Covered'
<1> USE DEF TypeOK, StoreTypeOK
<1>1. ASSUME NEW t \in Task, NEW ds, Adds(t, ds) PROVE Covered'
  BY <1>1 DEF Adds, AddTask, Covered
<1>2. ASSUME NEW t \in Task, NEW ds, Awaits(t, ds) PROVE Covered'
  BY <1>2 DEF Awaits, UpdateDeps, Covered
<1>3. ASSUME NEW t \in Task, NEW to, Moves(t, to) PROVE Covered'
  BY <1>3 DEF Moves, TransitionTask, CanTransitionTask, TaskState, Covered
<1>4. CASE ReportUsage \/ Succeed \/ MoveWorkflow \/ UNCHANGED storeVars
  BY <1>4 DEF ReportUsage, RecordUsage, Succeed, MoveWorkflow, TransitionWorkflow, storeVars,
              Covered
<1>5. QED
  BY <1>1, <1>2, <1>3, <1>4, EventShape, ReserveCovered, ReleaseCovered, StartCovered
  DEF Next, BudgetEvent

(* The workflow's counter covers what its tasks hold (store.release_budget). *)
THEOREM BudgetCovers == Spec => []BudgetCoversTasks
<1>1. StoreInit => Covered
  <2> SUFFICES ASSUME StoreInit PROVE Covered
    OBVIOUS
  <2>1. SumOf(reserved, Task) = 0
    BY TaskAssumption, SumOfZeros DEF StoreInit
  <2>2. QED
    BY <2>1 DEF StoreInit, Covered
<1>2. Covered => BudgetCoversTasks
  BY DEF Covered, BudgetCoversTasks, SumOf, FoldFunctionOnSet, MapThenFoldSet
<1>3. QED
  BY <1>1, <1>2, CoveredStep, TypeCorrect, PTL DEF Spec

-----------------------------------------------------------------------------
(* The journal implements Acceptance.  Three more facts are needed: what     *)
(* awaits a verdict was attempted, a task that is not there has no           *)
(* dependencies yet, and what is ready has accepted dependencies (which      *)
(* GatedByAcceptance says).                                                  *)
Tried ==
    \A t \in Task :
        /\ state[t] \in {"running", "completed", "verifying"} => attempt[t] > 0
        /\ state[t] = "absent" => deps[t] = {}

LEMMA TriedStep ==
    ASSUME TypeOK, Tried, [Next]_storeVars
    PROVE  Tried'
<1> SUFFICES ASSUME NEW u \in Task
             PROVE  /\ state'[u] \in {"running", "completed", "verifying"} => attempt'[u] > 0
                    /\ state'[u] = "absent" => deps'[u] = {}
  BY DEF Tried
<1> DEFINE Goal == /\ state'[u] \in {"running", "completed", "verifying"} => attempt'[u] > 0
                   /\ state'[u] = "absent" => deps'[u] = {}
<1> USE DEF TypeOK, StoreTypeOK, Tried
<1>1. ASSUME NEW t \in Task, NEW ds, Adds(t, ds) PROVE Goal
  BY <1>1 DEF Adds, AddTask
<1>2. ASSUME NEW t \in Task, NEW ds, Awaits(t, ds) PROVE Goal
  BY <1>2 DEF Awaits, UpdateDeps, Waiting
<1>3. ASSUME NEW t \in Task, NEW to, Moves(t, to) PROVE Goal
  BY <1>3 DEF Moves, TransitionTask, CanTransitionTask, TaskState
<1>4. ASSUME NEW t \in Task, NEW tokens, Starts(t, tokens) PROVE Goal
  BY <1>4 DEF Starts, TransitionToRunning, CanTransitionTask
<1>5. CASE Succeed \/ MoveWorkflow
  BY <1>5 DEF Succeed, MoveWorkflow, TransitionWorkflow
<1>6. QED
  BY <1>1, <1>2, <1>3, <1>4, <1>5, StepShape

(* Every event of the journal is a step of Acceptance, or none of its        *)
(* concern.                                                                  *)
LEMMA AcceptanceStep ==
    ASSUME TypeOK, AttemptLeft, Gated, SucceededIsSettled, Tried, [Next]_storeVars
    PROVE  [A!Next]_(A!acceptanceVars)
<1> USE DEF TypeOK, StoreTypeOK, A!Next, A!acceptanceVars, Verdict
<1>1. ASSUME NEW t \in Task, NEW ds, Adds(t, ds)
      PROVE  A!Need(t) /\ wf # "succeeded"
  BY <1>1 DEF Adds, AddTask, Tried, Gated, A!Need
<1>2. ASSUME NEW t \in Task, NEW ds, Awaits(t, ds)
      PROVE  A!Need(t) /\ wf # "succeeded"
  BY <1>2 DEF Awaits, UpdateDeps, A!Need
<1>3. ASSUME NEW t \in Task, NEW to, Moves(t, to)
      PROVE  /\ wf # "succeeded"
             /\ A!Accept(t) \/ A!Drop(t) \/ UNCHANGED A!acceptanceVars
  <2>1. wf # "succeeded" /\ UNCHANGED <<wf, deps, attempt>>
    BY <1>3 DEF Moves, TransitionTask, CanTransitionTask, SucceededIsSettled
  <2>2. CASE to = "accepted"
    BY <1>3, <2>1, <2>2 DEF Moves, TransitionTask, CanTransitionTask, Tried, A!Accept
  <2>3. CASE to \in {"blocked", "cancelled"}
    BY <1>3, <2>1, <2>3 DEF Moves, TransitionTask, CanTransitionTask, A!Drop
  <2>4. CASE to \notin {"accepted", "blocked", "cancelled"}
    BY <1>3, <2>1, <2>4 DEF Moves, TransitionTask, CanTransitionTask
  <2>5. QED
    BY <2>1, <2>2, <2>3, <2>4
<1>4. ASSUME NEW t \in Task, NEW tokens, Starts(t, tokens)
      PROVE  A!Try(t) /\ wf # "succeeded"
  BY <1>4 DEF Starts, TransitionToRunning, CanTransitionTask, SucceededIsSettled,
              Gated, GatedByAcceptance, DepsAccepted, AttemptLeft, A!Try
<1>5. CASE Succeed
  BY <1>5 DEF Succeed, TransitionWorkflow, CanTransitionWorkflow, A!Close
<1>6. CASE MoveWorkflow
  BY <1>6 DEF MoveWorkflow, TransitionWorkflow, CanTransitionWorkflow
<1>7. CASE UNCHANGED <<wf, state, deps, attempt>>
  BY <1>7
<1>8. QED
  BY <1>1, <1>2, <1>3, <1>4, <1>5, <1>6, <1>7, StepShape

(* The journal implements the acceptance of a graph of results: whatever the *)
(* order of the events, tasks are tried over accepted needs only, boundedly  *)
(* often, verdicts are final, and success closes the graph (store.py,        *)
(* scheduler.py).                                                            *)
THEOREM JournalImplementsAcceptance == Spec => ImplementsAcceptance
<1>1. StoreInit => A!Init
  BY StoreAssumption DEF StoreInit, A!Init, Verdict
<1>2. StoreInit => Tried
  BY StoreAssumption DEF StoreInit, Tried
<1>3. Spec => []Tried
  BY <1>2, TriedStep, TypeCorrect, PTL DEF Spec
<1>4. QED
  BY <1>1, <1>3, AcceptanceStep, TypeCorrect, AttemptLeftAlways, GatedAlways,
     SuccessIsSettled, PTL DEF Spec, ImplementsAcceptance, A!Spec

=============================================================================
