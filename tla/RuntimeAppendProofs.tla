------------------------- MODULE RuntimeAppendProofs -------------------------
(***************************************************************************)
(* Proofs that no script of the main loop (module Runtime) stops half way:  *)
(* the store accepts every append; a task recorded as running has a worker, *)
(* or a script that takes care of it; a verdict that the workflow's last    *)
(* state rests on is final; and nothing is left behind, no reservation and  *)
(* no task between two verdicts.                                            *)
(***************************************************************************)
EXTENDS RuntimeScriptProofs

-----------------------------------------------------------------------------
(* Every script of the loop runs through from where it is written.           *)
LEMMA RescriptRuns ==
    ASSUME TypeOK, TodoInv, KindInv, Runs(todo, state, wf), Rescripting
    PROVE  Runs(todo', state, wf)
<1> DEFINE x == Head(todo)
           rest == Tail(todo)
<1>0. state \in Stands
  BY StandsNow DEF TypeOK
<1>1. todo # <<>> /\ Script(todo) /\ Script(rest)
  BY Zenon, ScriptTail DEF Runs, Rescripting, PerformReserveRefused, PerformReserveRefusedRepeat,
     ReserveRefused, PerformEach, PerformDecide, PerformIterate, At
<1>2. x \in Loops(AnyStep)
  BY <1>1 DEF KindInv
<1>3. x.op # "each" => /\ Fits(x, rest, state, wf) /\ Runs(rest, After(x, state), AfterWf(x, wf))
                       /\ x \in AnyStep
  BY <1>1, RunsOn, HeadKind
<1>4. CASE PerformReserveRefused
  <2>1. todo' = <<>>
    BY <1>4 DEF PerformReserveRefused
  <2>2. QED
    BY <2>1, RunsNothing
<1>5. CASE PerformReserveRefusedRepeat
  <2>1. x.op = "reserve" /\ x.by # x.task /\ todo' = FailSteps(x.by)
    BY <1>5 DEF PerformReserveRefusedRepeat, ReserveRefused, At
  <2>2. x.by \in Task /\ state[x.by] = "running"
    BY <1>3, <2>1 DEF Fits, AnyStep, CommonSteps, IterSteps
  <2>3. QED
    BY <1>0, <2>1, <2>2, ResultRuns
<1>6. CASE PerformEach
  <2>1. x.op = "each"
    BY <1>6 DEF PerformEach, At
  <2>2. PICK i \in x.items : todo' = Then(Then(i, Each(x.items \ {i})), rest)
    BY <1>6 DEF PerformEach, Then
  <2>3. Script(i)
    <3>1. i \in Seq(CommonSteps)
      BY <1>2, <2>1, <2>2 DEF Loops, AnyStep, CommonSteps, IterSteps
    <3>2. QED
      BY <3>1 DEF Script
  <2>4. Script(Each(x.items \ {i}))
    BY LoopScript
  <2>5. QED
    BY <1>1, <2>1, <2>2, <2>3, <2>4, RunsPass
<1>7. CASE PerformDecide
  <2> DEFINE t == x.request.task
             e == <<>>
             one == <<StartComputed(t)>>
             u == Put(state, t, "running")
  <2>1. x.op = "decide"
    BY <1>7 DEF PerformDecide, At
  <2>2. rest \in Seq(Closings) /\ t \in Task
    BY <1>3, <2>1, RuntimeAssumption DEF Fits, AnyStep, CommonSteps, IterSteps
  <2>3. \A v : Runs(rest, v, wf)
    BY Zenon, <2>2, EndRuns
  <2>4. \/ todo' = Then(e, rest)
        \/ state[t] = "ready" /\ todo' = Then(Then(one, AcceptComputed(t)), rest)
        \/ todo' = Then(<<Block(t)>>, rest)
    BY Zenon, <1>7 DEF PerformDecide, Then
  <2>5. Script(one) /\ Script(AcceptComputed(t)) /\ Then(e, rest) = rest
    BY <1>1, EmptyScript, ThenOne, ThenThree, ThenScript DEF AcceptComputed
  <2> HIDE DEF t, e, one
  <2>6. u \in Stands /\ u[t] = "running"
    BY <1>0, <2>2, PutFacts DEF TaskState
  <2> HIDE DEF u, rest
  <2>7. Runs(Then(AcceptComputed(t), rest), u, wf)
    BY <2>2, <2>3, <2>6, AcceptRuns
  <2>12. Cares(t, Then(AcceptComputed(t), rest))
    BY <1>1, <2>2, <2>5, <2>6, ResultRuns, CaresThen
  <2>8. state[t] = "ready" => Runs(Then(one, Then(AcceptComputed(t), rest)), state, wf)
    BY <1>0, <2>2, <2>7, <2>12, BegunRuns DEF u, one
  <2>9. Then(Then(one, AcceptComputed(t)), rest) = Then(one, Then(AcceptComputed(t), rest))
    BY <1>1, <2>5, ThenAssoc
  <2>10. Runs(Then(<<Block(t)>>, rest), state, wf)
    BY <2>3, BlockRuns
  <2>11. QED
    BY <2>3, <2>4, <2>5, <2>8, <2>9, <2>10
<1>8. QED
  BY <1>4, <1>5, <1>6, <1>7, IterateRuns DEF Rescripting

(* a step taken off the script does what it was followed for *)
LEMMA PoppedState ==
    ASSUME TypeOK, KindInv, StepDone(Head(todo))
    PROVE  state' = After(Head(todo), state) /\ wf' = AfterWf(Head(todo), wf)
<1> DEFINE x == Head(todo)
<1>1. todo # <<>> /\ todo' = Tail(todo) /\ x.op \notin {"each", "iterate", "drive", "decide"}
  BY DEF StepDone
<1>2. x \in AnyStep
  BY <1>1, HeadKind
<1>3. StoreTypeOK
  BY DEF TypeOK
<1>4. /\ x.op \in {"move", "fail"} => TransitionTask(x.task, x.to)
      /\ x.op \in {"start", "launch"} => \E n : TransitionToRunning(x.task, n)
      /\ x.op \in {"reserve", "release"} => UNCHANGED <<wf, state>>
  BY BudgetEffect DEF StepDone, StoreStep, storeVars
<1>5. /\ x.op = "block" => \/ UNCHANGED storeVars /\ state[x.task] \notin {"pending", "ready"}
                           \/ /\ state[x.task] \in {"pending", "ready"}
                              /\ TransitionTask(x.task, "blocked")
      /\ x.op = "workflow" => TransitionWorkflow(x.to)
      /\ x.op = "add" => \/ UNCHANGED storeVars /\ state[x.task] # "absent"
                         \/ AddTask(x.task, x.on)
  BY DEF StepDone, StoreStep
<1>6. /\ x.op = "depend" => UNCHANGED <<wf, state>>
      /\ x.op \in {"escalate", "update", "worktree", "kill", "processed", "archive", "submit"} =>
            UNCHANGED <<wf, state>>
  BY DEF StepDone, StoreStep, storeVars, UpdateDeps
<1>7. x.op \in {"move", "fail", "start", "launch", "reserve", "release", "block", "workflow", "add",
                "depend", "escalate", "update", "worktree", "kill", "processed", "archive",
                "submit"}
  BY <1>1, <1>2 DEF AnyStep, CommonSteps, IterSteps
<1> HIDE DEF x
<1>8. state' = After(x, state)
  BY <1>4, <1>5, <1>6, <1>7 DEF After, Hard, Goal, TransitionTask, TransitionToRunning,
     TransitionWorkflow, AddTask, storeVars
<1>9. wf' = AfterWf(x, wf)
  BY <1>4, <1>5, <1>6, <1>7 DEF AfterWf, TransitionTask, TransitionToRunning,
     TransitionWorkflow, AddTask, storeVars
<1>10. QED
  BY <1>8, <1>9 DEF x

LEMMA PoppedRuns ==
    ASSUME TypeOK, KindInv, Runs(todo, state, wf), StepDone(Head(todo))
    PROVE  Runs(todo', state', wf')
<1>1. /\ todo # <<>> /\ todo' = Tail(todo) /\ Head(todo).op # "each"
  BY DEF StepDone
<1>2. QED
  BY <1>1, RunsOn, PoppedState

RunInv == Runs(todo, state, wf)

LEMMA RunKept == RuntimeInv /\ LedgerInv /\ KindInv /\ RunInv /\ [Next]_vars => RunInv'
<1> SUFFICES ASSUME RuntimeInv, LedgerInv, KindInv, RunInv, [Next]_vars
             PROVE  Runs(todo', state', wf')
  BY DEF RunInv
<1>1. TypeOK /\ TodoInv /\ LoopInv /\ TaskFacts /\ StoreTypeOK /\ \A t \in Task : WorkerOf(t)
  BY DEF RuntimeInv, WorkerInv, LedgerInv, TypeOK
<1>2. Runs(todo, state, wf)
  BY DEF RunInv
<1>3. CASE Writing
  <2>1. state' = state /\ wf' = wf
    <3>1. UNCHANGED <<storeVars, fieldVars>>
      BY <1>1, <1>3, KindRest, ScriptWrites
    <3>2. QED
      BY <3>1 DEF storeVars
  <2>2. Close \/ Crash => todo' = <<>>
    BY DEF Close, Crash, Idle
  <2>3. Runs(todo', state, wf)
    BY <1>1, <1>2, <1>3, <2>2, PassRuns, HandleRuns, LaunchRuns, CollectRuns, DriveRuns,
       RescriptRuns, RunsNothing DEF Writing
  <2>4. QED
    BY <2>1, <2>3
<1>4. CASE StepDone(Head(todo))
  BY <1>1, <1>2, <1>4, PoppedRuns
<1>5. CASE Beside
  BY <1>2, <1>5 DEF Beside
<1>6. QED
  BY <1>3, <1>4, <1>5, NextShape

\* what a task holds is within what the workflow counts
LEMMA PartCovered ==
    ASSUME StoreTypeOK, LP!BudgetCoversTasks, NEW t \in Task
    PROVE  reserved[t] <= budgetReserved
<1>1. reserved \in [Task -> Nat] /\ budgetReserved \in Nat
  BY DEF StoreTypeOK
<1> DEFINE h == [reserved EXCEPT ![t] = 0]
<1>2. h \in [Task -> Nat] /\ h[t] = 0 /\ \A x \in Task \ {t} : h[x] = reserved[x]
  BY <1>1
<1> HIDE DEF h
<1>3. LP!SumFollows(reserved, h, t, Task)
  BY <1>1, <1>2, TaskAssumption, LedgerConstants, LP!SumUpdate
<1>4. LP!SumOf(reserved, Task) <= budgetReserved
  BY Zenon DEF LP!BudgetCoversTasks, LP!SumOf, FoldFunctionOnSet, MapThenFoldSet
<1>5. QED
  BY <1>1, <1>2, <1>3, <1>4 DEF LP!SumFollows

LEMMA RunsAlways == Spec => []RunInv
<1>1. Init => RunInv
  BY RunsNothing DEF Init, RunInv
<1>2. RuntimeInv /\ LedgerInv /\ KindInv /\ RunInv /\ [Next]_vars => RunInv'
  BY RunKept
<1>3. QED
  BY <1>1, <1>2, RuntimeInvAlways, LedgerAlways, KindAlways, PTL DEF Spec

(* The store accepts what the main loop appends (store._apply_event,         *)
(* release_budget against every handler of workflow.py, scheduler.py and     *)
(* recovery.py): in the middle of a handler, whatever happened between its    *)
(* decision and the append - worker threads, earlier appends, a crash and the  *)
(* recovery after it -, no task or workflow transition is one the tables      *)
(* forbid, and no release is larger than what is reserved.                    *)
THEOREM AppendsAreAccepted == Spec => []AppendsAccepted
<1>1. RuntimeInv /\ KindInv /\ RunInv /\ LP!BudgetCoversTasks => AppendsAccepted
  <2> SUFFICES ASSUME RuntimeInv, KindInv, RunInv, LP!BudgetCoversTasks, todo # <<>>
               PROVE  LET s == Head(todo)
                      IN /\ s.op \in {"move", "fail"} => CanTransitionTask(state[s.task], s.to)
                         /\ s.op \in {"start", "launch"} => state[s.task] = "ready"
                         /\ s.op = "workflow" => CanTransitionWorkflow(wf, s.to)
                         /\ s.op = "release" => reserved[s.task] <= budgetReserved
    BY DEF AppendsAccepted
  <2> DEFINE s == Head(todo)
  <2>1. s.op # "each" => Fits(s, Tail(todo), state, wf)
    BY RunsOn DEF RunInv
  <2> HIDE DEF s
  <2>2. s.op \in {"move", "fail"} => CanTransitionTask(state[s.task], s.to)
    BY <2>1 DEF Fits, Hard, Goal
  <2>3. s.op \in {"start", "launch"} => state[s.task] = "ready"
    BY <2>1 DEF Fits, Hard, Goal, CanTransitionTask
  <2>4. s.op = "workflow" => CanTransitionWorkflow(wf, s.to)
    BY <2>1 DEF Fits
  <2>5. ASSUME s.op = "release" PROVE reserved[s.task] <= budgetReserved
    <3>1. s \in AnyStep
      BY <2>5, HeadKind DEF s
    <3>2. s.task \in Task
      BY <2>5, <3>1 DEF AnyStep, CommonSteps, IterSteps
    <3>3. QED
      BY <3>2, PartCovered DEF RuntimeInv, TypeOK
  <2>6. QED
    BY <2>2, <2>3, <2>4, <2>5 DEF s
<1>2. Spec => []LP!BudgetCoversTasks
  BY RuntimeKeepsTheContract, PTL
<1>3. QED
  BY <1>1, <1>2, RuntimeInvAlways, KindAlways, RunsAlways, PTL

-----------------------------------------------------------------------------
(* Who looks after a running task.                                           *)
Unwatched(t) == state[t] = "running" /\ future[t] = "none"

\* what recovery writes
RecoverySteps ==
    [op : {"move"}, task : Task, to : {"interrupted"}]
        \cup [op : {"release"}, task : Task] \cup [op : {"workflow"}, to : WorkflowState]
RecoveryLoops == RecoverySteps \cup [op : {"each"}, items : SUBSET Seq(RecoverySteps)]

(* Until the first crash a running task has a worker, or the script on its    *)
(* way takes care of it.  A run that ends leaves running tasks behind only in *)
(* a workflow that the next run recovers.                                    *)
Watches ==
    /\ pc \notin {"closing", "off"} => \A t \in Task : Unwatched(t) => Cares(t, todo)
    /\ pc \in {"closing", "off"} =>
          \/ wf = "running" /\ todo = <<>>
          \/ /\ \A t \in Task : state[t] # "running"
             /\ todo \in Seq([op : {"workflow"}, to : WorkflowState])
    /\ pc = "recovered" => Running = {} /\ todo \in Seq(RecoveryLoops)
WatchInv == crashes = 0 => Watches

(* a worker of a repeat node that raises fails the node only (_run_repeat)    *)
ChildrenReport ==
    "failed" \in Outcomes => \A t \in Task : Node[t].kind # "repeat_until"

\* what a step leaves alone, whether it is one of a script or of another thread
Around(x) ==
    /\ UNCHANGED <<pc, error, progress, ready, crashes>>
    /\ future' = IF x.op = "submit" THEN [future EXCEPT ![x.task] = "queued"] ELSE future
    /\ x.op = "release" /\ reserved[x.task] # 0
          => ReleaseBudget(x.task, reserved[x.task], ReleaseOf(x.task))
Aside ==
    /\ UNCHANGED <<pc, error, progress, ready, crashes>>
    /\ \A t \in Task : future'[t] = "none" <=> future[t] = "none"

LEMMA PopsAround ==
    ASSUME Popping \/ PerformSubmit
    PROVE  StepDone(Head(todo)) /\ Around(Head(todo))
<1> USE DEF At, Around, loopVars, workerVars, envVars
<1>1. CASE PerformMove \/ PerformStart \/ PerformReserve \/ PerformLaunch \/ PerformRelease
  BY <1>1, PopDone DEF Popping, PerformMove, PerformStart, PerformReserve, PerformLaunch,
     PerformRelease
<1>2. CASE PerformBlock \/ PerformWorkflow \/ PerformAdd \/ PerformDepend \/ PerformFail
  BY <1>2, PopDone DEF Popping, PerformBlock, PerformWorkflow, PerformAdd, PerformDepend,
     PerformFail
<1>3. CASE PerformKill \/ PerformProcessed \/ PerformArchive \/ PerformWorktree
  BY <1>3, PopDone DEF Popping, PerformKill, PerformProcessed, PerformArchive, PerformWorktree
<1>4. CASE PerformEscalate \/ PerformUpdate
  BY <1>4, PopDone DEF Popping, PerformEscalate, PerformUpdate
<1>5. CASE PerformSubmit
  BY <1>5 DEF PerformSubmit, Pop, StepDone, FieldStep, fieldVars
<1>6. QED
  BY <1>1, <1>2, <1>3, <1>4, <1>5 DEF Popping

LEMMA NextAround ==
    ASSUME TypeOK, [Next]_vars
    PROVE  Writing \/ (StepDone(Head(todo)) /\ Around(Head(todo))) \/ (Beside /\ Aside)
<1>0. future \in [Task -> {"none", "queued", "spawned", "registered", "live", "done", "raised"}]
  BY DEF TypeOK
<1>1. ASSUME NEW t \in Task, Worker(t) PROVE Beside /\ Aside
  BY <1>0, <1>1 DEF Worker, Spawn, SpawnFails, Register, RecordPid, Finish, unchangedByWorker,
     Beside, Aside, storeVars, fieldVars, loopVars, envVars
<1>2. ASSUME NEW t \in Task, ReportUsage(t) PROVE Beside /\ Aside
  BY <1>2 DEF ReportUsage, RecordUsage, unchangedByWorker, Beside, Aside, fieldVars, loopVars,
     workerVars, envVars
<1>3. CASE (\E r \in Request : Submit(r)) \/ OrphanExits \/ UNCHANGED vars
  BY <1>3 DEF Submit, OrphanExits, Beside, Aside, storeVars, fieldVars, loopVars, workerVars,
     envVars, vars
<1>4. Perform => Popping \/ PerformSubmit \/ Rescripting
  BY DEF Perform, Popping, Rescripting
<1>5. QED
  BY <1>1, <1>2, <1>3, <1>4, PopsAround
     DEF Next, Main, Scripting, Repeat, Drives, Rescripting, Writing

LEMMA TendsNone ==
    ASSUME NEW x, x.op \notin {"move", "fail", "submit", "iterate", "drive", "each"}, NEW t
    PROVE  ~Among(t, x)
BY DEF Among, Tends

\* a step of a script
LEMMA PoppedWatch ==
    ASSUME TypeOK, KindInv, Runs(todo, state, wf), pc \notin {"closing", "off"},
           \A t \in Task : Unwatched(t) => Cares(t, todo),
           StepDone(Head(todo)), Around(Head(todo))
    PROVE  \A t \in Task : Unwatched(t)' => Cares(t, todo')
<1> DEFINE x == Head(todo)
           rest == Tail(todo)
<1>1. /\ todo # <<>> /\ todo' = rest /\ Script(todo) /\ Script(rest)
      /\ x.op \notin {"each", "iterate", "drive", "decide"}
  BY ScriptTail DEF StepDone, Runs
<1>2. x \in AnyStep
  BY <1>1, HeadKind
<1>3. Fits(x, rest, state, wf) /\ todo = Lead(x, rest) /\ state' = After(x, state)
  BY <1>1, RunsOn, LeadSplit, PoppedState
<1>4. /\ state \in [Task -> TaskState \cup {"absent"}]
      /\ future \in [Task -> {"none", "queued", "spawned", "registered", "live", "done", "raised"}]
  BY DEF TypeOK, StoreTypeOK
<1>5. future' = IF x.op = "submit" THEN [future EXCEPT ![x.task] = "queued"] ELSE future
  BY DEF Around
<1>6. x.op \in {"move", "fail"} => x.to # "running"
  BY <1>1, <1>2 DEF AnyStep, CommonSteps, IterSteps
<1> HIDE DEF x, rest
<1> SUFFICES ASSUME NEW t \in Task, Unwatched(t)' PROVE Cares(t, rest)
  BY <1>1
<1>7. state'[t] = "running" /\ future'[t] = "none"
  BY DEF Unwatched
<1>8. CASE x.op \in {"start", "launch"} /\ x.task = t
  BY <1>3, <1>8 DEF Fits
<1>9. CASE ~(x.op \in {"start", "launch"} /\ x.task = t)
  <2>1. state[t] = "running" /\ ~(x.op \in {"move", "fail"} /\ x.task = t)
    BY <1>3, <1>4, <1>6, <1>7, <1>9 DEF After, Hard, Goal
  <2>2. future[t] = "none" /\ ~(x.op = "submit" /\ x.task = t)
    BY <1>4, <1>5, <1>7
  <2>3. Cares(t, todo) /\ ~Among(t, x)
    BY <1>1, <2>1, <2>2 DEF Unwatched, Among, Tends
  <2>4. QED
    BY <1>1, <1>3, <2>3, CaresLead
<1>10. QED
  BY <1>8, <1>9

\* pieces of scripts that take care of a task
LEMMA FrontCares ==
    ASSUME NEW p, NEW q, NEW t, Script(p), Script(q), Cares(t, p)
    PROVE  Script(Then(p, q)) /\ Cares(t, Then(p, q))
BY ThenScript, CaresThen

LEMMA PieceCares ==
    ASSUME NEW t
    PROVE  /\ Script(CompleteSteps(t)) /\ Cares(t, CompleteSteps(t))
           /\ Script(AcceptComputed(t)) /\ Cares(t, AcceptComputed(t))
           /\ Script(FailSteps(t)) /\ Cares(t, FailSteps(t))
           /\ \A n : Script(Iterate(t, n)) /\ Cares(t, Iterate(t, n))
<1> DEFINE e == <<>>
<1>1. Script(e)
  BY EmptyScript
<1>2. /\ CompleteSteps(t)
           = Lead(ClearPid(t), Lead(Move(t, "completed"), Lead(Move(t, "verifying"), e)))
      /\ Script(CompleteSteps(t))
  BY <1>1, ThenThree, ThenScript DEF CompleteSteps
<1>3. /\ AcceptComputed(t) =
             Lead(Move(t, "completed"), Lead(Move(t, "verifying"), Lead(Move(t, "accepted"), e)))
      /\ Script(AcceptComputed(t))
  BY <1>1, ThenThree, ThenScript DEF AcceptComputed
<1>4. FailSteps(t) = Lead(Move(t, "failed"), Lead(Release(t), e)) /\ Script(FailSteps(t))
  BY <1>1, ThenTwo, ThenScript DEF FailSteps
<1>5. ASSUME NEW n PROVE Script(Iterate(t, n)) /\ Cares(t, Iterate(t, n))
  <2> DEFINE x == [op |-> "iterate", root |-> t, n |-> n]
  <2>1. x.op = "iterate" /\ x.root = t
    OBVIOUS
  <2>2. Iterate(t, n) = Lead(x, e)
    BY LeadTuple DEF Iterate
  <2> HIDE DEF x, e
  <2>3. QED
    BY <1>1, <2>1, <2>2, CaresSoon, LeadScript
<1> HIDE DEF e
<1>6. /\ Script(Lead(Release(t), e))
      /\ Script(Lead(Move(t, "verifying"), Lead(Move(t, "accepted"), e)))
      /\ Script(Lead(Move(t, "verifying"), e))
      /\ Script(Lead(Move(t, "completed"), Lead(Move(t, "verifying"), e)))
  BY <1>1, LeadScript
<1>7. Cares(t, Lead(Move(t, "completed"), Lead(Move(t, "verifying"), e)))
  BY <1>6, CaresSoon
<1>8. QED
  BY <1>2, <1>3, <1>4, <1>5, <1>6, <1>7, CaresSoon, CaresLead

\* what a worker comes to
LEMMA CollectCares ==
    ASSUME NEW t \in Task, state[t] = "running",
           \/ CollectCancelled(t) \/ CollectAccepted(t) \/ CollectDenied(t)
           \/ CollectRejected(t) \/ CollectExhausted(t) \/ CollectFailed(t)
           \/ CollectUnfinished(t)
    PROVE  Cares(t, todo')
<1> DEFINE e == <<>>
<1>1. Script(e)
  BY EmptyScript
<1>2. \A x, y : Script(<<x, y>>) /\ Script(<<x>>)
  BY Zenon, <1>1, ThenOne, ThenTwo
<1>3. \A f : Script(Escalate(t, f)) /\ Script(MaybeRetry(t, f))
  BY <1>1, <1>2 DEF Escalate, MaybeRetry
<1>4. Script(CompleteSteps(t)) /\ Cares(t, CompleteSteps(t))
  BY PieceCares
<1>5. \A x, y : x.op \in {"move", "fail"} /\ x.task = t => Cares(t, <<x, y>>)
  <2> SUFFICES ASSUME NEW x, NEW y, x.op \in {"move", "fail"}, x.task = t
               PROVE  Cares(t, <<x, y>>)
    OBVIOUS
  <2>1. Script(Lead(y, e)) /\ <<x, y>> = Lead(x, Lead(y, e))
    BY <1>1, LeadScript, LeadTuple, ThenTwo, ThenScript
  <2>2. Among(t, x)
    BY DEF Among, Tends
  <2>3. QED
    BY <2>1, <2>2, CaresLead
<1>6. CASE CollectAccepted(t) \/ CollectDenied(t) \/ CollectUnfinished(t)
  <2>1. PICK s : todo' = Then(CompleteSteps(t), s) /\ Script(s)
    BY <1>2, <1>6 DEF CollectAccepted, CollectDenied, CollectUnfinished, Collect, Then
  <2>2. QED
    BY <1>4, <2>1, FrontCares
<1>7. CASE CollectRejected(t)
  <2>1. PICK f \in Fingerprint :
           todo' = Then(Then(Then(CompleteSteps(t), <<Fail(t, "rejected", f), Release(t)>>),
                             Escalate(t, f)), MaybeRetry(t, f))
    BY <1>7 DEF CollectRejected, Collect, Then
  <2> DEFINE two == <<Fail(t, "rejected", f), Release(t)>>
  <2>2. Script(two)
    BY <1>2
  <2> HIDE DEF two
  <2>3. Script(Then(CompleteSteps(t), two)) /\ Cares(t, Then(CompleteSteps(t), two))
    BY <1>4, <2>2, FrontCares
  <2>4. /\ Script(Then(Then(CompleteSteps(t), two), Escalate(t, f)))
        /\ Cares(t, Then(Then(CompleteSteps(t), two), Escalate(t, f)))
    BY <1>3, <2>3, FrontCares
  <2>5. QED
    BY <1>3, <2>1, <2>4, FrontCares DEF two
<1>8. CASE CollectExhausted(t)
  <2> DEFINE x == ClearPid(t)
             y == Move(t, "budget_exhausted")
             z == Release(t)
  <2>1. todo' = <<x, y, z>>
    BY <1>8 DEF CollectExhausted, Collect
  <2>2. y.op = "move" /\ y.task = t
    BY DEF Move
  <2> HIDE DEF x, y, z
  <2>3. todo' = Lead(x, Lead(y, Lead(z, e)))
    BY <2>1, LeadTuple
  <2>4. Script(Lead(y, Lead(z, e))) /\ Script(Lead(z, e))
    BY <1>1, LeadScript
  <2>5. Among(t, y)
    BY <2>2 DEF Among, Tends
  <2>6. QED
    BY <2>3, <2>4, <2>5, CaresLead
<1>9. CASE CollectFailed(t)
  <2>1. PICK f \in Fingerprint :
           todo' = Then(<<Update(t, f)>>,
                        Then(Then(<<Fail(t, "failed", f), Release(t)>>, Escalate(t, f)),
                             MaybeRetry(t, f)))
    BY <1>9 DEF CollectFailed, Collect, Then
  <2> DEFINE two == <<Fail(t, "failed", f), Release(t)>>
             one == <<Update(t, f)>>
  <2>2. Script(two) /\ Script(one) /\ Cares(t, two)
    BY <1>2, <1>5 DEF Fail
  <2> HIDE DEF two, one
  <2>3. Script(Then(two, Escalate(t, f))) /\ Cares(t, Then(two, Escalate(t, f)))
    BY <1>3, <2>2, FrontCares
  <2>4. /\ Script(Then(Then(two, Escalate(t, f)), MaybeRetry(t, f)))
        /\ Cares(t, Then(Then(two, Escalate(t, f)), MaybeRetry(t, f)))
    BY <1>3, <2>3, FrontCares
  <2>5. QED
    BY <2>1, <2>2, <2>4, CaresThen DEF one, two
<1>10. ~CollectCancelled(t)
  BY DEF CollectCancelled
<1>11. QED
  BY <1>6, <1>7, <1>8, <1>9, <1>10

\* what an iteration comes to: the repeat node and its child are both cared for
LEMMA DriveCares ==
    ASSUME TypeOK, TodoInv, KindInv, ChildrenReport, Drives
    PROVE  /\ At("drive") /\ Tail(todo) = <<>> /\ Child \in Task
           /\ future' = [future EXCEPT ![Child] = "none"]
           /\ UNCHANGED <<pc, crashes, storeVars>>
           /\ Cares(Child, todo') /\ Cares(Head(todo).root, todo')
<1> DEFINE t == Head(todo).root
           c == Child
           end(to) == <<Move(c, to), Release(c)>>
<1>1. At("drive")
  BY Zenon DEF Drives, DriveAccepted, DriveRejected, DriveExhausted, DriveRaised, DriveUnfinished, Drive
<1>2. Tail(todo) = <<>> /\ t \in Task /\ c \in Task
  BY <1>1, DriveHead
<1>3. Node[t].kind = "repeat_until"
  BY <1>1, HeadKind DEF At, AnyStep, CommonSteps, IterSteps
<1>4. ~DriveRaised
  BY <1>2, <1>3 DEF ChildrenReport, DriveRaised
<1>5. /\ future' = [future EXCEPT ![Child] = "none"]
      /\ UNCHANGED <<pc, crashes, storeVars>>
  BY Zenon DEF Drives, DriveAccepted, DriveRejected, DriveExhausted, DriveRaised, DriveUnfinished, Drive,
     unchangedByMain, loopVars, envVars
<1> HIDE DEF t, c
<1>6. /\ Script(<<>>) /\ (\A s : Script(s) => Then(s, <<>>) = s)
      /\ \A to : Script(end(to)) /\ Script(<<ClearPid(c), Move(c, to), Release(c)>>)
  BY EmptyScript, ThenScript, ThenTwo, ThenThree
<1> HIDE DEF end
<1>7. CASE DriveAccepted \/ DriveRejected
  <2>1. PICK to \in {"accepted", "rejected"},
             next \in {AcceptComputed(t)} \cup {Iterate(t, n) : n \in {Head(todo).n + 1}}
                        \cup {FailSteps(t)} :
           todo' = Then(Then(Then(CompleteSteps(c), end(to)), next), <<>>)
    BY <1>2, <1>7 DEF DriveAccepted, DriveRejected, Drive, Then, end, t, c
  <2>2. Script(next) /\ Cares(t, next)
    BY PieceCares
  <2>3. /\ Script(Then(CompleteSteps(c), end(to))) /\ Cares(c, Then(CompleteSteps(c), end(to)))
    BY <1>6, PieceCares, FrontCares
  <2>4. Script(Then(Then(CompleteSteps(c), end(to)), next))
    BY <2>2, <2>3, ThenScript
  <2>5. QED
    BY <1>1, <1>2, <1>5, <1>6, <2>1, <2>2, <2>3, <2>4, CaresThen DEF t, c
<1>8. CASE DriveExhausted
  <2> DEFINE x == ClearPid(c)
             y == Move(c, "budget_exhausted")
             z == Release(c)
             three == <<x, y, z>>
  <2>1. todo' = Then(Then(three, FailSteps(t)), <<>>)
    BY <1>2, <1>8 DEF DriveExhausted, Drive, Then, t, c
  <2>2. y.op = "move" /\ y.task = c
    BY DEF Move
  <2>3. Script(three)
    BY <1>6
  <2> HIDE DEF x, y, z
  <2>4. three = Lead(x, Lead(y, Lead(z, <<>>)))
    BY LeadTuple
  <2>5. Script(Lead(y, Lead(z, <<>>))) /\ Script(Lead(z, <<>>)) /\ Among(c, y)
    BY <1>6, <2>2, LeadScript DEF Among, Tends
  <2>6. Cares(c, three)
    BY <2>4, <2>5, CaresLead
  <2> HIDE DEF three
  <2>7. Script(Then(three, FailSteps(t)))
    BY <2>3, PieceCares, ThenScript
  <2>8. QED
    BY <1>1, <1>2, <1>5, <1>6, <2>1, <2>3, <2>6, <2>7, PieceCares, CaresThen DEF t, c
<1>9. CASE DriveUnfinished
  <2>1. todo' = Then(Then(CompleteSteps(c), FailSteps(t)), <<>>)
    BY <1>2, <1>9 DEF DriveUnfinished, Drive, Then, t, c
  <2>2. Script(Then(CompleteSteps(c), FailSteps(t)))
    BY PieceCares, ThenScript
  <2>3. QED
    BY <1>1, <1>2, <1>5, <1>6, <2>1, <2>2, PieceCares, CaresThen DEF t, c
<1>10. QED
  BY <1>4, <1>7, <1>8, <1>9 DEF Drives

\* a loop cares for what its passes care for
LEMMA EachCares ==
    ASSUME NEW items, NEW j \in items, NEW t, Cares(t, j), \A y \in StepsOf(j) : y.op # "each"
    PROVE  Cares(t, Each(items))
<1> DEFINE x == [op |-> "each", items |-> items]
<1>1. \E z \in StepsOf(j) : Tends(z, t)
  BY DEF Cares, Among
<1>2. Among(t, x)
  BY <1>1 DEF Among
<1>3. Each(items) = Lead(x, <<>>) /\ Script(<<>>)
  BY LeadTuple, EmptyScript DEF Each
<1> HIDE DEF x
<1>4. QED
  BY <1>2, <1>3, CaresLead

\* the next iteration, or the failure of the repeat node
LEMMA IterateCares ==
    ASSUME PerformIterate
    PROVE  \E s : todo' = Then(s, Tail(todo)) /\ Script(s) /\ Cares(Head(todo).root, s)
<1> DEFINE t == Head(todo).root
           n == Head(todo).n
           child == Node[t].iterations[n]
           before == IF n = 1 THEN {} ELSE {Node[t].iterations[n - 1]}
           add == IF state[child] = "absent"
                  THEN <<[op |-> "add", task |-> child, on |-> before]>> ELSE <<>>
           one == <<Move(child, "ready")>>
           x == [op |-> "submit", task |-> child]
           y == [op |-> "drive", root |-> t, n |-> n]
           two == <<x, y>>
           s == Then(Then(Then(add, one), StartSteps(child, t)), two)
<1>1. todo' = Then(s, Tail(todo)) \/ todo' = Then(FailSteps(t), Tail(todo))
  BY Zenon DEF PerformIterate, Then
<1>2. Script(<<>>) /\ (\A a : Script(<<a>>)) /\ (\A a, b : Script(<<a, b>>))
  BY EmptyScript, ThenOne, ThenTwo
<1>3. Script(add) /\ Script(one) /\ Script(StartSteps(child, t)) /\ Script(two)
  BY <1>2 DEF StartSteps
<1>4. two = Lead(x, Lead(y, <<>>)) /\ Script(Lead(y, <<>>))
  BY <1>2, LeadTuple, LeadScript
<1>5. y.op = "drive" /\ y.root = t
  OBVIOUS
<1> HIDE DEF add, one, x, y, t, n, child, two
<1>6. Cares(t, two)
  <2>1. Among(t, y)
    BY <1>5 DEF Among, Tends
  <2>2. QED
    BY <1>2, <1>4, <2>1, CaresLead
<1>7. Script(Then(Then(add, one), StartSteps(child, t)))
  BY <1>3, ThenScript
<1>8. Script(s) /\ Cares(t, s)
  BY <1>3, <1>6, <1>7, CaresThen, ThenScript
<1>9. QED
  BY <1>1, <1>8, PieceCares DEF t

LEMMA RecoveryEach ==
    ASSUME NEW items, items \subseteq Seq(RecoverySteps)
    PROVE  Each(items) \in Seq(RecoveryLoops)
<1> DEFINE x == [op |-> "each", items |-> items]
<1>1. x \in RecoveryLoops
  BY DEF RecoveryLoops
<1> HIDE DEF x
<1>2. <<x>> \in Seq(RecoveryLoops)
  BY <1>1, OneIn
<1>3. QED
  BY <1>2, EmptyIn DEF Each, x

\* a script rewritten in the middle
LEMMA RescriptWatch ==
    ASSUME TypeOK, TodoInv, KindInv, Runs(todo, state, wf), pc \notin {"closing", "off"},
           \A t \in Task : Unwatched(t) => Cares(t, todo), Rescripting
    PROVE  \/ pc' = "closing" /\ wf' = "running" /\ todo' = <<>>
           \/ pc' = pc /\ \A t \in Task : Unwatched(t)' => Cares(t, todo')
<1> DEFINE x == Head(todo)
           rest == Tail(todo)
<1>1. todo # <<>> /\ Script(todo) /\ Script(rest)
  BY Zenon, ScriptTail DEF Runs, Rescripting, PerformReserveRefused, PerformReserveRefusedRepeat,
     ReserveRefused, PerformEach, PerformDecide, PerformIterate, At
<1>2. x \in Loops(AnyStep) /\ todo = Lead(x, rest)
  BY <1>1, LeadSplit DEF KindInv
<1>3. x.op # "each" => Fits(x, rest, state, wf) /\ x \in AnyStep
  BY <1>1, RunsOn, HeadKind
<1>4. CASE PerformReserveRefused
  <2>1. x.op = "reserve" /\ pc' = "closing" /\ todo' = <<>> /\ wf' = wf
    BY <1>4 DEF PerformReserveRefused, ReserveRefused, At, storeVars
  <2>2. HeadFact(x)
    BY <1>1, HeadFacts DEF TypeOK
  <2>3. QED
    BY <2>1, <2>2 DEF HeadFact
<1>5. ~PerformReserveRefused => UNCHANGED <<pc, state, future>>
  BY Zenon DEF Rescripting, PerformReserveRefusedRepeat, PerformEach, PerformDecide, PerformIterate,
     storeVars, loopVars, workerVars
<1> SUFFICES ASSUME ~PerformReserveRefused, NEW t \in Task, Cares(t, todo), state[t] = "running"
             PROVE  Cares(t, todo')
  BY <1>4, <1>5 DEF Unwatched
<1>6. Among(t, x) \/ Cares(t, rest)
  BY <1>1, <1>2, CaresLead
<1>7. CASE PerformReserveRefusedRepeat
  <2>1. x.op = "reserve" /\ x.by # x.task /\ todo' = FailSteps(x.by)
    BY <1>7 DEF PerformReserveRefusedRepeat, ReserveRefused, At
  <2>2. ~Among(t, x)
    BY <2>1, TendsNone
  <2>3. t \in {x.task, x.by} /\ state[x.task] = "ready"
    BY <1>3, <1>6, <2>1, <2>2 DEF Fits
  <2>4. QED
    BY <2>1, <2>3, PieceCares
<1>8. CASE PerformEach
  <2>1. x.op = "each"
    BY <1>8 DEF PerformEach, At
  <2>2. PICK i \in x.items : todo' = Then(Then(i, Each(x.items \ {i})), rest)
    BY <1>8 DEF PerformEach, Then
  <2>3. \A j \in x.items : Script(j) /\ \A y \in StepsOf(j) : y.op # "each"
    <3>1. x.items \subseteq Seq(CommonSteps)
      BY Zenon, <1>2, <2>1 DEF Loops, AnyStep, CommonSteps, IterSteps
    <3>2. \A y \in CommonSteps : y.op # "each"
      BY DEF CommonSteps
    <3>3. \A j \in Seq(CommonSteps) : \A k \in DOMAIN j : j[k] \in CommonSteps
      OBVIOUS
    <3> HIDE DEF x
    <3>4. QED
      BY <3>1, <3>2, <3>3 DEF Script, StepsOf
  <2>4. Script(Each(x.items \ {i})) /\ Script(Then(i, Each(x.items \ {i})))
    BY <2>3, LoopScript, ThenScript
  <2> HIDE DEF rest
  <2>5. CASE Cares(t, rest)
    BY <1>1, <2>2, <2>4, <2>5, CaresThen
  <2>6. CASE Among(t, x)
    <3>1. PICK j \in x.items : Cares(t, j)
      BY <2>1, <2>3, <2>6 DEF Among, Tends, Cares
    <3>2. Cares(t, Then(i, Each(x.items \ {i})))
      <4>1. CASE j = i
        BY <2>3, <2>4, <3>1, <4>1, CaresThen
      <4>2. CASE j # i
        <5>1. Cares(t, Each(x.items \ {i}))
          BY <2>3, <3>1, <4>2, EachCares
        <5>2. QED
          BY <2>3, <2>4, <5>1, CaresThen
      <4>3. QED
        BY <4>1, <4>2
    <3>3. QED
      BY <1>1, <2>2, <2>4, <3>2, CaresThen
  <2>7. QED
    BY <1>6, <2>5, <2>6
<1>9. CASE PerformDecide
  <2>1. x.op = "decide" /\ rest \in Seq(Closings)
    BY <1>3, <1>9 DEF PerformDecide, At, Fits
  <2>2. ~Among(t, x)
    BY <2>1, TendsNone
  <2> HIDE DEF x, rest
  <2>3. \A y \in StepsOf(rest) : y.op \in {"processed", "archive"}
    <3>1. \A k \in DOMAIN rest : rest[k] \in Closings
      BY <2>1
    <3>2. QED
      BY <3>1 DEF StepsOf, Closings
  <2>4. \A y \in StepsOf(rest) : ~Among(t, y)
    BY <2>3, TendsNone
  <2>5. QED
    BY <1>6, <2>2, <2>4 DEF Cares
<1>10. CASE PerformIterate
  <2>1. x.op = "iterate"
    BY Zenon, <1>10 DEF PerformIterate, At
  <2>2. PICK s : todo' = Then(s, rest) /\ Script(s) /\ Cares(x.root, s)
    BY <1>10, IterateCares
  <2>3. Among(t, x) => t = x.root
    BY <2>1 DEF Among, Tends
  <2>4. QED
    BY <1>1, <1>6, <2>2, <2>3, CaresThen
<1>11. QED
  BY <1>7, <1>8, <1>9, <1>10 DEF Rescripting

\* the main thread goes on, or it closes with no task running
LEMMA ScriptingCloses ==
    ASSUME TypeOK, LoopInv, Watches, Scripting, ~Boot
    PROVE  /\ pc \notin {"closing", "off"} /\ todo = <<>> /\ pc' \notin {"off", "recovered"}
           /\ \A t \in Task : ~Unwatched(t)
           /\ pc' = "closing" =>
                 /\ \A t \in Task : state[t] # "running"
                 /\ todo' \in Seq([op : {"workflow"}, to : WorkflowState])
<1> USE DEF Idle
<1>1. pc \notin {"closing", "off"} /\ todo = <<>> /\ pc' \notin {"off", "recovered"}
  BY Zenon DEF Scripting, Recovered, Resume, RefreshBefore, RefreshAfter, Refresh, TakeInbox,
     HandleRequest, HandlePause, HandleResume, HandleCancel, HandleRetry, HandleDecision, Handle,
     InboxDone, ListReady, LaunchTask, LaunchDenied, LaunchCondition, LaunchCheck, LaunchUnusable,
     LaunchMap, LaunchReduce, LaunchRepeat, LaunchApproval, LaunchNoSlot, LaunchCached,
     LaunchAgent, LaunchUnprepared, Launch, EndLaunch, SettleIteration, SettleWait, SettleAgain,
     SettleCancelled, SettleSucceeded, SettleExhausted, SettleFailed, SettleStalled,
     SettleRefused, Conclude, Settle, WaitTimeout
<1>2. \A t \in Task : ~Unwatched(t)
  BY <1>1, CaresNothing DEF Watches
<1>3. ASSUME pc' = "closing"
      PROVE  /\ \A t \in Task : state[t] # "running"
             /\ todo' \in Seq([op : {"workflow"}, to : WorkflowState])
  <2>1. Recovered \/ SettleIteration
    BY Zenon, <1>1, <1>3 DEF Scripting, Resume, RefreshBefore, RefreshAfter, Refresh, TakeInbox,
       HandleRequest, HandlePause, HandleResume, HandleCancel, HandleRetry, HandleDecision,
       Handle, InboxDone, ListReady, LaunchTask, LaunchDenied, LaunchCondition, LaunchCheck,
       LaunchUnusable, LaunchMap, LaunchReduce, LaunchRepeat, LaunchApproval, LaunchNoSlot,
       LaunchCached, LaunchAgent, LaunchUnprepared, Launch, EndLaunch, WaitTimeout
  <2>2. Running = {}
    <3>1. Recovered => Running = {}
      BY DEF Recovered, Watches
    <3>2. SettleIteration => Running = {}
      BY <1>3 DEF SettleIteration, SettleWait, SettleAgain, SettleCancelled, SettleSucceeded,
         SettleExhausted, SettleFailed, SettleStalled, SettleRefused, Conclude, Settle
    <3>3. QED
      BY <2>1, <3>1, <3>2
  <2>3. todo' = <<>> \/ \E to \in WorkflowState : todo' = <<Workflow(to)>>
    BY <1>1, <1>3, <2>1 DEF Recovered, SettleIteration, SettleWait, SettleAgain, SettleCancelled,
       SettleSucceeded, SettleExhausted, SettleFailed, SettleStalled, SettleRefused, Conclude,
       Settle, WorkflowState
  <2>4. \A to \in WorkflowState : Workflow(to) \in [op : {"workflow"}, to : WorkflowState]
    BY DEF Workflow
  <2>5. todo' \in Seq([op : {"workflow"}, to : WorkflowState])
    BY <2>3, <2>4, EmptyIn, OneIn
  <2>6. QED
    BY <1>2, <2>2, <2>5 DEF Unwatched, Running
<1>4. QED
  BY <1>1, <1>2, <1>3

\* a script written at rest
LEMMA ScriptingWatch ==
    ASSUME TypeOK, LoopInv, Watched, Watches, crashes = 0, Scripting
    PROVE  Watches'
<1> USE DEF Idle
<1>1. UNCHANGED <<storeVars, future, procs, pid>>
  BY ScriptingShape DEF workerVars, fieldVars
<1>2. /\ UNCHANGED <<state, wf>> /\ \A t \in Task : Unwatched(t)' <=> Unwatched(t)
      /\ Running' = Running
  BY <1>1 DEF storeVars, Unwatched, Running
<1>3. CASE Boot
  <2>1. pc = "off" /\ Running = {} /\ todo = <<>>
    BY <1>3 DEF Boot, Reconcile, LoopInv
  <2>2. CASE wf = "running"
    <3> DEFINE missing == {t \in Task : state[t] = "running" /\ ~Alive(t)}
               items == {<<Move(t, "interrupted"), Release(t)>> : t \in missing}
               last == IF missing = {} THEN <<>> ELSE <<Workflow("interrupted")>>
    <3>1. pc' = "recovered" /\ todo' = Then(Each(items), last)
      BY <1>3, <2>2 DEF Boot, Reconcile, Then
    <3>2. \A t \in Task : ~Alive(t)
      BY <2>1 DEF Watched, Alive, Running, TypeOK
    <3>3. \A t \in Task : state[t] = "running" => t \in missing
      BY <3>2
    <3>4. Script(Each(items)) /\ Script(last)
      BY LoopScript, EmptyScript, ThenOne
    <3>5. items \subseteq Seq(RecoverySteps) /\ last \in Seq(RecoveryLoops)
      <4>1. \A t \in Task : Move(t, "interrupted") \in RecoverySteps /\ Release(t) \in RecoverySteps
        BY DEF Move, Release, RecoverySteps
      <4>2. \A t \in Task : <<Move(t, "interrupted"), Release(t)>> \in Seq(RecoverySteps)
        BY <4>1, TwoIn
      <4>3. Workflow("interrupted") \in RecoveryLoops
        BY DEF Workflow, RecoveryLoops, RecoverySteps, WorkflowState
      <4>4. QED
        BY <4>2, <4>3, EmptyIn, OneIn
    <3>6. Each(items) \in Seq(RecoveryLoops)
      BY <3>5, RecoveryEach
    <3>7. todo' \in Seq(RecoveryLoops)
      <4> HIDE DEF items, last
      <4> QED
        BY <3>1, <3>5, <3>6, ConcatIn DEF Then
    <3>8. ASSUME NEW t \in Task, state[t] = "running" PROVE Cares(t, todo')
      <4> DEFINE x == Move(t, "interrupted")
                 y == Release(t)
                 j == <<x, y>>
      <4>1. j \in items
        BY <3>3, <3>8
      <4>2. x.op = "move" /\ x.task = t /\ y.op = "release"
        BY DEF Move, Release
      <4> HIDE DEF x, y, items, last
      <4>3. StepsOf(j) = {x, y}
        BY DEF StepsOf
      <4>4. Cares(t, j) /\ \A z \in StepsOf(j) : z.op # "each"
        BY <4>2, <4>3 DEF Cares, Among, Tends
      <4> HIDE DEF j
      <4>5. Cares(t, Each(items))
        BY <4>1, <4>4, EachCares
      <4>6. QED
        BY <3>1, <3>4, <4>5, CaresThen
    <3>9. QED
      BY <1>2, <2>1, <3>1, <3>7, <3>8 DEF Watches, Unwatched
  <2>3. CASE wf # "running"
    <3>1. pc' = "resume" /\ \A t \in Task : state[t] # "running"
      BY <1>3, <2>1, <2>3 DEF Boot, Reconcile, Watches
    <3>2. QED
      BY <1>2, <3>1 DEF Watches, Unwatched
  <2>4. QED
    BY <2>2, <2>3
<1>4. CASE ~Boot
  BY <1>2, <1>4, ScriptingCloses DEF Watches, Unwatched
<1>5. QED
  BY <1>3, <1>4

\* a script that only records a transition of the workflow
WorkflowOnly == [op : {"workflow"}, to : WorkflowState]
LEMMA RecordsWorkflow ==
    ASSUME todo \in Seq(WorkflowOnly), todo # <<>>
    PROVE  /\ Head(todo) \in WorkflowOnly /\ Head(todo).op = "workflow"
           /\ Tail(todo) \in Seq(WorkflowOnly)
<1>1. Head(todo) \in WorkflowOnly /\ Tail(todo) \in Seq(WorkflowOnly)
  OBVIOUS
<1>2. QED
  BY <1>1 DEF WorkflowOnly

\* what recovery writes is appended step by step
LEMMA RecoveredKept ==
    ASSUME todo # <<>>, todo \in Seq(RecoveryLoops)
    PROVE  /\ Head(todo).op \in {"move", "release", "workflow", "each"}
           /\ Head(todo).op # "each" /\ todo' = Tail(todo) => todo' \in Seq(RecoveryLoops)
           /\ PerformEach => todo' \in Seq(RecoveryLoops)
<1>1. Head(todo) \in RecoveryLoops /\ Tail(todo) \in Seq(RecoveryLoops)
  OBVIOUS
<1>2. Head(todo).op \in {"move", "release", "workflow", "each"}
  BY <1>1 DEF RecoveryLoops, RecoverySteps
<1>3. ASSUME PerformEach PROVE todo' \in Seq(RecoveryLoops)
  <2> DEFINE x == Head(todo)
  <2>1. x.op = "each"
    BY <1>3 DEF PerformEach, At
  <2>2. x.items \subseteq Seq(RecoverySteps)
    BY <1>1, <2>1 DEF RecoveryLoops, RecoverySteps
  <2>3. PICK i \in x.items : todo' = Then(Then(i, Each(x.items \ {i})), Tail(todo))
    BY <1>3 DEF PerformEach, Then
  <2> HIDE DEF x
  <2>4. i \in Seq(RecoveryLoops)
    BY <2>2, <2>3, SeqGrows DEF RecoveryLoops
  <2>5. Each(x.items \ {i}) \in Seq(RecoveryLoops)
    BY <2>2, RecoveryEach
  <2>6. Then(i, Each(x.items \ {i})) \in Seq(RecoveryLoops)
    BY <2>4, <2>5, ConcatIn DEF Then
  <2>7. QED
    BY <1>1, <2>3, <2>6, ConcatIn DEF Then
<1>4. QED
  BY <1>1, <1>2, <1>3

\* a worker that is collected, or all of them when the run returns
LEMMA CollectWatch ==
    ASSUME TypeOK, WorkerInv, Watches, CollectFuture
    PROVE  Watches'
<1>1. PICK t \in Task :
         \/ CollectCancelled(t) \/ CollectAccepted(t) \/ CollectDenied(t)
         \/ CollectRejected(t) \/ CollectExhausted(t) \/ CollectFailed(t)
         \/ CollectUnfinished(t)
  BY DEF CollectFuture
<1>2. /\ pc = "wait" /\ todo = <<>> /\ pc' \in {"wait", "top"} /\ UNCHANGED state
      /\ future' = [future EXCEPT ![t] = "none"]
  BY <1>1 DEF CollectCancelled, CollectAccepted, CollectDenied, CollectRejected,
     CollectExhausted, CollectFailed, CollectUnfinished, Collect, Idle, unchangedByMain, storeVars
<1>3. future \in [Task -> {"none", "queued", "spawned", "registered", "live", "done", "raised"}]
  BY DEF TypeOK
<1>4. \A u \in Task : ~Unwatched(u)
  BY <1>2, CaresNothing DEF Watches
<1>5. ASSUME NEW u \in Task, Unwatched(u)' PROVE Cares(u, todo')
  <2>1. u = t /\ state[t] = "running"
    BY <1>2, <1>3, <1>4, <1>5 DEF Unwatched
  <2>2. QED
    BY <1>1, <2>1, CollectCares
<1>6. QED
  BY <1>2, <1>5 DEF Watches

LEMMA CloseWatch ==
    ASSUME Watches, Close
    PROVE  Watches'
<1>1. /\ pc = "closing" /\ todo = <<>> /\ pc' = "off" /\ todo' = todo /\ UNCHANGED <<state, wf>>
  BY DEF Close, Idle, unchangedByMain, storeVars
<1>2. QED
  BY <1>1 DEF Watches

LEMMA DrivesWatch ==
    ASSUME TypeOK, TodoInv, KindInv, ChildrenReport, Watches, Drives
    PROVE  Watches'
<1> DEFINE x == Head(todo)
<1>1. /\ todo # <<>> /\ x.op = "drive" /\ Tail(todo) = <<>> /\ Child \in Task
      /\ future' = [future EXCEPT ![Child] = "none"]
      /\ UNCHANGED <<pc, crashes, storeVars>>
      /\ Cares(Child, todo') /\ Cares(x.root, todo')
  BY DriveCares DEF At
<1>2. future \in [Task -> {"none", "queued", "spawned", "registered", "live", "done", "raised"}]
  BY DEF TypeOK
<1>3. pc \notin {"closing", "off", "recovered"}
  <2>1. ~(todo \in Seq(WorkflowOnly))
    BY <1>1, RecordsWorkflow
  <2>2. ~(todo \in Seq(RecoveryLoops))
    BY <1>1, RecoveredKept
  <2>3. QED
    BY <1>1, <2>1, <2>2 DEF Watches, WorkflowOnly
<1>4. Script(todo)
  BY DEF KindInv, Script
<1>5. todo = Lead(x, <<>>) /\ Script(<<>>)
  BY <1>1, <1>4, LeadSplit, EmptyScript
<1>6. ASSUME NEW u \in Task, Unwatched(u)' PROVE Cares(u, todo')
  <2>1. CASE u = Child
    BY <1>1, <2>1
  <2>2. CASE u # Child
    <3>1. Unwatched(u)
      BY <1>1, <1>2, <1>6, <2>2 DEF Unwatched, storeVars
    <3>2. Cares(u, todo)
      BY <1>3, <3>1 DEF Watches
    <3> HIDE DEF x
    <3>3. Among(u, x)
      BY <1>5, <3>2, CaresLead, CaresNothing
    <3>4. u = x.root
      BY <1>1, <3>3 DEF Among, Tends
    <3>5. QED
      BY <1>1, <3>4
  <2>3. QED
    BY <2>1, <2>2
<1>7. QED
  BY <1>1, <1>3, <1>6 DEF Watches

\* a step of a script, and one of another thread
LEMMA StepWatch ==
    ASSUME TypeOK, KindInv, RunInv, Watches, StepDone(Head(todo)), Around(Head(todo))
    PROVE  Watches'
<1> DEFINE x == Head(todo)
<1>1. /\ pc' = pc /\ todo # <<>> /\ todo' = Tail(todo)
      /\ x.op \notin {"each", "iterate", "drive", "decide"}
  BY DEF StepDone, Around
<1>2. state' = After(x, state)
  BY PoppedState
<1>3. x.op \in {"release", "workflow"} => UNCHANGED <<state, future>>
  BY <1>2 DEF After, Hard, Around
<1>4. CASE pc \in {"closing", "off"}
  <2>1. todo \in Seq(WorkflowOnly) /\ \A t \in Task : state[t] # "running"
    BY <1>1, <1>4 DEF Watches, WorkflowOnly
  <2>2. x.op = "workflow" /\ todo' \in Seq(WorkflowOnly)
    BY <1>1, <2>1, RecordsWorkflow
  <2>3. UNCHANGED state
    BY <1>3, <2>2
  <2>4. QED
    BY <1>1, <1>4, <2>1, <2>2, <2>3 DEF Watches, WorkflowOnly
<1>5. CASE pc \notin {"closing", "off"}
  <2>1. \A t \in Task : Unwatched(t)' => Cares(t, todo')
    BY <1>5, PoppedWatch DEF RunInv, Watches
  <2>2. ASSUME pc = "recovered" PROVE Running' = {} /\ todo' \in Seq(RecoveryLoops)
    <3>1. todo \in Seq(RecoveryLoops) /\ Running = {}
      BY <2>2 DEF Watches
    <3>2. x.op # "submit" /\ todo' \in Seq(RecoveryLoops)
      BY <1>1, <3>1, RecoveredKept
    <3>3. future' = future
      BY <3>2 DEF Around
    <3>4. QED
      BY <3>1, <3>2, <3>3 DEF Running
  <2>3. QED
    BY <1>1, <1>5, <2>1, <2>2 DEF Watches
<1>6. QED
  BY <1>4, <1>5

LEMMA BesideWatch ==
    ASSUME Watches, Beside, Aside
    PROVE  Watches'
<1>1. /\ pc' = pc /\ todo' = todo /\ wf' = wf /\ state' = state
      /\ \A t \in Task : Unwatched(t)' <=> Unwatched(t)
      /\ Running' = Running
  BY DEF Beside, Aside, Unwatched, Running
<1>2. QED
  BY <1>1 DEF Watches

LEMMA RescriptingWatch ==
    ASSUME TypeOK, TodoInv, KindInv, RunInv, Watches, Rescripting
    PROVE  Watches'
<1> DEFINE x == Head(todo)
<1>1. todo # <<>> /\ x.op \in {"reserve", "each", "decide", "iterate"}
  BY Zenon DEF Rescripting, PerformReserveRefused, PerformReserveRefusedRepeat, ReserveRefused,
     PerformEach, PerformDecide, PerformIterate, At
<1>2. ~(todo \in Seq(WorkflowOnly))
  BY <1>1, RecordsWorkflow
<1>3. pc \notin {"closing", "off"}
  BY <1>1, <1>2 DEF Watches, WorkflowOnly
<1>4. CASE pc' = "closing" /\ wf' = "running" /\ todo' = <<>>
  BY <1>4 DEF Watches
<1>5. CASE pc' = pc /\ \A t \in Task : Unwatched(t)' => Cares(t, todo')
  <2>1. ASSUME pc = "recovered" PROVE Running' = {} /\ todo' \in Seq(RecoveryLoops)
    <3>1. todo \in Seq(RecoveryLoops) /\ Running = {}
      BY <2>1 DEF Watches
    <3>2. x.op = "each"
      BY <1>1, <3>1, RecoveredKept
    <3>3. PerformEach /\ UNCHANGED future
      BY Zenon, <3>2 DEF Rescripting, PerformReserveRefused, PerformReserveRefusedRepeat, ReserveRefused,
         PerformEach, PerformDecide, PerformIterate, At, workerVars
    <3>4. QED
      BY <1>1, <3>1, <3>3, RecoveredKept DEF Running
  <2>2. QED
    BY <1>3, <1>5, <2>1 DEF Watches
<1>6. QED
  BY <1>3, <1>4, <1>5, RescriptWatch DEF RunInv, Watches

LEMMA WatchKept ==
    ASSUME RuntimeInv, KindInv, RunInv, ChildrenReport, WatchInv, [Next]_vars
    PROVE  WatchInv'
<1>1. TypeOK /\ TodoInv /\ WorkerInv /\ LoopInv /\ Watched
  BY DEF RuntimeInv, WorkerInv
<1>2. crashes \in Nat
  BY <1>1 DEF LoopInv
<1>3. SUFFICES ASSUME crashes' = 0 PROVE Watches'
  BY DEF WatchInv
<1>4. ~Crash
  BY <1>2, <1>3 DEF Crash
<1>5. CASE Scripting
  <2>1. crashes' = crashes
    BY <1>1, <1>5, ScriptingShape DEF envVars
  <2>2. QED
    BY <1>1, <1>3, <1>5, <2>1, ScriptingWatch DEF WatchInv
<1>6. CASE CollectFuture \/ Drives \/ Rescripting \/ Close
  <2>1. crashes' = crashes
    BY Zenon, <1>6 DEF CollectFuture, CollectCancelled, CollectAccepted, CollectDenied, CollectRejected,
       CollectExhausted, CollectFailed, CollectUnfinished, Collect, Drives, DriveAccepted,
       DriveRejected, DriveExhausted, DriveRaised, DriveUnfinished, Drive, Rescripting,
       PerformReserveRefused, PerformReserveRefusedRepeat, PerformEach, PerformDecide,
       PerformIterate, Close, unchangedByMain, envVars
  <2>2. Watches
    BY <1>3, <2>1 DEF WatchInv
  <2>3. QED
    BY <1>1, <1>6, <2>2, CollectWatch, DrivesWatch, RescriptingWatch, CloseWatch
<1>7. CASE StepDone(Head(todo)) /\ Around(Head(todo))
  <2>1. Watches
    BY <1>3, <1>7 DEF Around, WatchInv
  <2>2. QED
    BY <1>1, <1>7, <2>1, StepWatch
<1>8. CASE Beside /\ Aside
  <2>1. Watches
    BY <1>3, <1>8 DEF Aside, WatchInv
  <2>2. QED
    BY <1>8, <2>1, BesideWatch
<1>9. QED
  BY <1>1, <1>4, <1>5, <1>6, <1>7, <1>8, NextAround DEF Writing

LEMMA WatchAlways == ChildrenReport => (Spec => []WatchInv)
<1> SUFFICES ASSUME ChildrenReport PROVE Spec => []WatchInv
  OBVIOUS
<1>1. Init => WatchInv
  <2> SUFFICES ASSUME Init PROVE Watches
    BY DEF WatchInv
  <2>1. pc = "off" /\ todo = <<>> /\ \A t \in Task : state[t] # "running"
    BY DEF Init, StoreInit
  <2>2. todo \in Seq([op : {"workflow"}, to : WorkflowState])
    BY <2>1
  <2>3. QED
    BY <2>1, <2>2 DEF Watches
<1>2. RuntimeInv /\ KindInv /\ RunInv /\ WatchInv /\ [Next]_vars => WatchInv'
  BY WatchKept
<1>3. QED
  BY <1>1, <1>2, RuntimeInvAlways, KindAlways, RunsAlways, PTL DEF Spec

(* A task recorded as running has a worker that will report on it (run's     *)
(* dictionary of futures), until the process dies for the first time: no      *)
(* handler forgets a task it started - neither a launch that is refused, nor   *)
(* a cancellation, a retry or an iteration of a repeat node -, provided the    *)
(* workers of repeat nodes do not raise.                                     *)
THEOREM RunningHasAWorker ==
    ChildrenReport => (Spec => [](crashes = 0 => RunningIsWatched))
<1> SUFFICES ASSUME ChildrenReport
             PROVE  Spec => [](crashes = 0 => RunningIsWatched)
  OBVIOUS
<1>1. WatchInv => (crashes = 0 => RunningIsWatched)
  <2> SUFFICES ASSUME Watches, AtRest,
                      pc \in {"top", "inbox", "handle", "refresh", "list", "launch", "settle",
                              "wait"},
                      NEW t \in Task, state[t] = "running"
               PROVE  t \in Running
    BY DEF WatchInv, RunningIsWatched
  <2>1. ~Unwatched(t)
    BY CaresNothing DEF Watches, AtRest
  <2>2. QED
    BY <2>1 DEF Unwatched, Running
<1>2. QED
  BY <1>1, WatchAlways, PTL

-----------------------------------------------------------------------------
(* What a verdict rests on: the pass before the list of ready tasks left no   *)
(* pending task that could run, the iteration that made no progress launched   *)
(* or passed over every ready one, and nothing became ready since.            *)
Stuck(t) == \E d \in deps[t] : state[d] # "accepted"
Judged ==
    \A t \in Task : /\ state[t] = "ready" => Node[t].kind = "approval"
                    /\ state[t] = "pending" => Stuck(t)

\* what the readiness pass writes
Turns == [op : {"move"}, task : Task, to : {"ready", "blocked"}]
TurnLoops == Turns \cup [op : {"each"}, items : SUBSET Seq(Turns)]
Readying(y, t) == y.op = "move" /\ y.task = t /\ y.to = "ready"
Readies(t, s) ==
    \E y \in StepsOf(s) :
        \/ Readying(y, t)
        \/ y.op = "each" /\ \E i \in y.items : \E z \in StepsOf(i) : Readying(z, t)

\* what a launch writes that does not count as progress
AttemptSteps ==
    {[op |-> "reserve", task |-> t, by |-> t] : t \in Task}
        \cup [op : {"launch", "worktree", "submit", "release"}, task : Task]
        \cup [op : {"move"}, task : Task, to : {"failed"}]
Launches(t, s) == \E y \in StepsOf(s) : y.op = "launch" /\ y.task = t

Verdicts == {"succeeded", "failed", "budget_exhausted"}
Refreshing ==
    /\ todo \in Seq(TurnLoops)
    /\ wf = "running" => \A t \in Task : state[t] = "pending" => Stuck(t) \/ Readies(t, todo)
Attempting ==
    /\ todo \in Seq(AttemptSteps)
    /\ wf = "running" =>
          \A t \in Task :
             /\ state[t] = "pending" => Stuck(t)
             /\ state[t] = "ready" =>
                   \/ t \in ready \/ Node[t].kind = "approval" \/ Running # {}
                   \/ Launches(t, todo)
Judges ==
    /\ pc = "list" => Refreshing
    /\ pc = "launch" /\ ~progress => Attempting
    /\ pc = "settle" =>
          todo = <<>> /\ (~progress /\ wf = "running" /\ Running = {} => Judged)
    /\ pc = "closing" /\ (todo # <<>> \/ wf \in Verdicts) => Judged
    /\ pc = "off" /\ wf \in Verdicts => Judged
JudgeInv == crashes = 0 => Judges

\* the head of a script
LEMMA ScriptHead ==
    ASSUME NEW S, todo \in Seq(S), todo # <<>>
    PROVE  /\ Head(todo) \in S /\ Tail(todo) \in Seq(S)
           /\ StepsOf(todo) = {Head(todo)} \cup StepsOf(Tail(todo))
<1>1. Head(todo) \in S /\ Tail(todo) \in Seq(S)
  OBVIOUS
<1>2. QED
  BY <1>1, StepsOfTail

LEMMA OneStepEach ==
    ASSUME NEW items, items # {}
    PROVE  StepsOf(Each(items)) = {[op |-> "each", items |-> items]}
<1> DEFINE x == [op |-> "each", items |-> items]
<1>1. Each(items) = <<x>>
  BY DEF Each
<1> HIDE DEF x
<1>2. QED
  BY <1>1, OneStep DEF x

LEMMA DepsStay ==
    ASSUME StepDone(Head(todo)), Head(todo).op \notin {"add", "depend"}
    PROVE  deps' = deps
<1> DEFINE x == Head(todo)
<1>1. StoreStep(x) \/ UNCHANGED storeVars
  BY DEF StepDone
<1> HIDE DEF x
<1>2. x.op \notin {"add", "depend"}
  BY DEF x
<1>3. QED
  BY <1>1, <1>2 DEF StoreStep, storeVars, TransitionTask, TransitionToRunning, ReserveBudget,
     ReleaseBudget, TransitionWorkflow

\* the readiness pass
LEMMA TurnsWritten ==
    /\ RefreshReady \in Seq(TurnLoops)
    /\ \A t \in Task : state[t] = "pending" => Stuck(t) \/ Readies(t, RefreshReady)
<1> DEFINE pending == {t \in Task : state[t] = "pending"}
           satisfied == {t \in pending : \A d \in deps[t] : state[d] = "accepted"}
           partial == {t \in pending \ satisfied : Node[t].allow_partial}
           dead == {t \in pending \ (satisfied \cup partial) :
                       \E d \in deps[t] : state[d] \in DeadState}
           items == {<<Move(t, "ready")>> : t \in satisfied \cup {u \in partial : PartialReady(u)}}
                       \cup {<<Move(t, "blocked")>> : t \in dead}
           x == [op |-> "each", items |-> items]
<1>1. RefreshReady = Each(items)
  BY DEF RefreshReady
<1>2. items \subseteq Seq(Turns)
  <2>1. \A t \in Task : Move(t, "ready") \in Turns /\ Move(t, "blocked") \in Turns
    BY DEF Move, Turns
  <2>2. \A t \in Task : <<Move(t, "ready")>> \in Seq(Turns) /\ <<Move(t, "blocked")>> \in Seq(Turns)
    BY <2>1, OneIn
  <2>3. QED
    BY <2>2
<1>3. \A t \in Task : state[t] = "pending" /\ ~Stuck(t) => <<Move(t, "ready")>> \in items
  BY DEF Stuck
<1>4. x \in TurnLoops
  BY <1>2 DEF TurnLoops
<1>5. x.op = "each" /\ x.items = items
  OBVIOUS
<1> HIDE DEF items
<1>6. Each(items) \in Seq(TurnLoops)
  <2>1. Each(items) = <<>> \/ Each(items) = <<x>>
    BY DEF Each
  <2> HIDE DEF x
  <2>2. QED
    BY <1>4, <2>1, EmptyIn, OneIn
<1>7. ASSUME NEW t \in Task, state[t] = "pending", ~Stuck(t)
      PROVE  Readies(t, Each(items))
  <2> DEFINE y == Move(t, "ready")
             i == <<y>>
  <2>1. i \in items /\ Readying(y, t)
    BY <1>3, <1>7 DEF Readying, Move
  <2> HIDE DEF y
  <2>2. y \in StepsOf(i)
    BY OneStep
  <2>3. StepsOf(Each(items)) = {x}
    BY <2>1, OneStepEach
  <2> HIDE DEF i, x
  <2>4. QED
    BY <1>5, <2>1, <2>2, <2>3 DEF Readies
<1>8. QED
  BY <1>1, <1>6, <1>7

LEMMA TurnStep ==
    ASSUME TypeOK, KindInv, RunInv, Refreshing, StepDone(Head(todo))
    PROVE  Refreshing'
<1> DEFINE x == Head(todo)
           rest == Tail(todo)
<1>1. /\ todo # <<>> /\ todo' = rest /\ x.op # "each"
      /\ state' = After(x, state) /\ wf' = AfterWf(x, wf)
  BY PoppedState DEF StepDone
<1>2. /\ x \in TurnLoops /\ rest \in Seq(TurnLoops) /\ StepsOf(todo) = {x} \cup StepsOf(rest)
  BY <1>1, ScriptHead DEF Refreshing
<1>3. x \in Turns
  BY <1>1, <1>2 DEF TurnLoops
<1>4. x.op = "move" /\ x.task \in Task /\ x.to \in {"ready", "blocked"}
  BY <1>3 DEF Turns
<1>5. deps' = deps
  BY <1>4, DepsStay
<1>6. state \in [Task -> TaskState \cup {"absent"}]
  BY DEF TypeOK, StoreTypeOK
<1> HIDE DEF x, rest
<1>7. wf' = wf /\ state' = [state EXCEPT ![x.task] = x.to]
  BY <1>1, <1>4 DEF After, AfterWf, Hard, Goal
<1>8. ASSUME wf = "running", NEW t \in Task, state'[t] = "pending"
      PROVE  Stuck(t)' \/ Readies(t, rest)
  <2>1. t # x.task /\ state[t] = "pending"
    BY <1>4, <1>6, <1>7, <1>8
  <2>2. CASE Stuck(t)
    <3>1. PICK d \in deps[t] : state[d] # "accepted"
      BY <2>2 DEF Stuck
    <3>2. state'[d] # "accepted"
      BY <1>4, <1>6, <1>7, <3>1
    <3>3. QED
      BY <1>5, <3>1, <3>2 DEF Stuck
  <2>3. CASE Readies(t, todo)
    BY <1>2, <1>4, <2>1, <2>3 DEF Readies, Readying
  <2>4. QED
    BY <1>8, <2>1, <2>2, <2>3 DEF Refreshing
<1>9. QED
  BY <1>1, <1>2, <1>7, <1>8 DEF Refreshing

LEMMA TurnEach ==
    ASSUME Refreshing, PerformEach
    PROVE  Refreshing'
<1> DEFINE x == Head(todo)
           rest == Tail(todo)
<1>1. todo # <<>> /\ x.op = "each" /\ UNCHANGED <<wf, state, deps>>
  BY DEF PerformEach, At, storeVars
<1>2. /\ x \in TurnLoops /\ rest \in Seq(TurnLoops) /\ StepsOf(todo) = {x} \cup StepsOf(rest)
  BY <1>1, ScriptHead DEF Refreshing
<1>3. x.items \subseteq Seq(Turns)
  BY <1>1, <1>2 DEF TurnLoops, Turns
<1>4. PICK i \in x.items : todo' = Then(Then(i, Each(x.items \ {i})), rest)
  BY DEF PerformEach, Then
<1> HIDE DEF x, rest
<1> DEFINE others == Each(x.items \ {i})
<1>5. others \in Seq(TurnLoops)
  <2> DEFINE y == [op |-> "each", items |-> x.items \ {i}]
  <2>1. y \in TurnLoops
    BY <1>3 DEF TurnLoops
  <2> HIDE DEF y
  <2>2. <<y>> \in Seq(TurnLoops)
    BY <2>1, OneIn
  <2>3. QED
    BY <2>2, EmptyIn DEF Each, y
<1>6. i \in Seq(TurnLoops) /\ i \in Seq(Turns)
  BY <1>3, <1>4, SeqGrows DEF TurnLoops
<1>7. /\ todo' \in Seq(TurnLoops)
      /\ StepsOf(todo') = StepsOf(i) \cup StepsOf(others) \cup StepsOf(rest)
  <2> DEFINE two == Then(i, others)
  <2> HIDE DEF others
  <2>1. two \in Seq(TurnLoops) /\ StepsOf(two) = StepsOf(i) \cup StepsOf(others)
    BY <1>5, <1>6, ConcatIn, StepsOfJoin DEF Then
  <2>2. todo' = Then(two, rest)
    BY <1>4 DEF others
  <2> HIDE DEF two
  <2>3. QED
    BY <1>2, <2>1, <2>2, ConcatIn, StepsOfJoin DEF Then
<1>8. ASSUME NEW t \in Task, Readies(t, todo) PROVE Readies(t, todo')
  <2>1. PICK y \in StepsOf(todo) :
           \/ Readying(y, t)
           \/ y.op = "each" /\ \E j \in y.items : \E z \in StepsOf(j) : Readying(z, t)
    BY <1>8 DEF Readies
  <2>2. CASE y \in StepsOf(rest)
    BY <1>7, <2>1, <2>2 DEF Readies
  <2>3. CASE y = x
    <3>1. PICK j \in x.items : \E z \in StepsOf(j) : Readying(z, t)
      BY <1>1, <2>1, <2>3 DEF Readying
    <3>2. CASE j = i
      BY <1>7, <3>1, <3>2 DEF Readies
    <3>3. CASE j # i
      <4> DEFINE w == [op |-> "each", items |-> x.items \ {i}]
      <4>1. StepsOf(others) = {w}
        BY <3>3, OneStepEach
      <4>2. w.op = "each" /\ j \in w.items
        BY <3>3
      <4> HIDE DEF w, others
      <4>3. w \in StepsOf(todo')
        BY <1>7, <4>1
      <4>4. QED
        BY <3>1, <4>2, <4>3 DEF Readies
    <3>4. QED
      BY <3>2, <3>3
  <2>4. QED
    BY <1>2, <2>1, <2>2, <2>3
<1>9. QED
  BY <1>1, <1>7, <1>8 DEF Refreshing, Stuck

\* a launch that does not count as progress
LEMMA AttemptStep ==
    ASSUME TypeOK, KindInv, RunInv, Attempting, StepDone(Head(todo)), Around(Head(todo))
    PROVE  Attempting'
<1> DEFINE x == Head(todo)
           rest == Tail(todo)
<1>1. /\ todo # <<>> /\ todo' = rest
      /\ state' = After(x, state) /\ wf' = AfterWf(x, wf)
  BY PoppedState DEF StepDone
<1>2. /\ x \in AttemptSteps /\ rest \in Seq(AttemptSteps) /\ StepsOf(todo) = {x} \cup StepsOf(rest)
  BY <1>1, ScriptHead DEF Attempting
<1>3. /\ x.op \in {"reserve", "launch", "worktree", "submit", "release", "move"}
      /\ x.task \in Task
      /\ x.op = "move" => x.to = "failed"
  BY <1>2 DEF AttemptSteps
<1>4. deps' = deps /\ ready' = ready
  BY <1>3, DepsStay DEF Around
<1>5. future' = IF x.op = "submit" THEN [future EXCEPT ![x.task] = "queued"] ELSE future
  BY DEF Around
<1>6. /\ state \in [Task -> TaskState \cup {"absent"}]
      /\ future \in [Task -> {"none", "queued", "spawned", "registered", "live", "done", "raised"}]
  BY DEF TypeOK, StoreTypeOK
<1> HIDE DEF x, rest
<1>7. /\ wf' = wf
      /\ \/ state' = state /\ x.op # "launch"
         \/ x.op = "launch" /\ state' = [state EXCEPT ![x.task] = "running"]
         \/ x.op = "move" /\ state' = [state EXCEPT ![x.task] = "failed"]
  BY <1>1, <1>3 DEF After, AfterWf, Hard, Goal
<1>8. Running # {} => Running' # {}
  BY <1>5, <1>6 DEF Running
<1>9. ASSUME wf = "running", NEW t \in Task
      PROVE  /\ state'[t] = "pending" => Stuck(t)'
             /\ state'[t] = "ready" =>
                   \/ t \in ready \/ Node[t].kind = "approval" \/ Running' # {}
                   \/ Launches(t, rest)
  <2>1. ASSUME state'[t] = "pending" PROVE Stuck(t)'
    <3>1. state[t] = "pending"
      BY <1>3, <1>6, <1>7, <2>1
    <3>2. PICK d \in deps[t] : state[d] # "accepted"
      BY <1>9, <3>1 DEF Attempting, Stuck
    <3>3. d \in Task
      BY <3>2 DEF TypeOK, StoreTypeOK
    <3>4. state'[d] \in {state[d], "running", "failed"}
      BY <1>3, <1>6, <1>7, <3>3
    <3>5. QED
      BY <1>4, <3>2, <3>4 DEF Stuck
  <2>2. ASSUME state'[t] = "ready", ~Launches(t, rest)
        PROVE  t \in ready \/ Node[t].kind = "approval" \/ Running' # {}
    <3>1. state[t] = "ready" /\ ~(x.op = "launch" /\ x.task = t)
      BY <1>3, <1>6, <1>7, <2>2
    <3>2. ~Launches(t, todo)
      BY <1>2, <2>2, <3>1 DEF Launches
    <3>3. QED
      BY <1>8, <1>9, <3>1, <3>2 DEF Attempting
  <2>3. QED
    BY <2>1, <2>2
<1>10. QED
  BY <1>1, <1>2, <1>4, <1>7, <1>9 DEF Attempting

\* a launch of the ready list
LEMMA AttemptWritten ==
    ASSUME TypeOK, Judges, LaunchTask, progress' = FALSE
    PROVE  Attempting'
<1>1. PICK t \in ready :
         \/ LaunchDenied(t) \/ LaunchCondition(t) \/ LaunchCheck(t)
         \/ LaunchUnusable(t) \/ LaunchMap(t) \/ LaunchReduce(t) \/ LaunchRepeat(t)
         \/ LaunchApproval(t)
         \/ LaunchNoSlot(t) \/ LaunchCached(t) \/ LaunchAgent(t) \/ LaunchUnprepared(t)
  BY DEF LaunchTask
<1>2. pc = "launch" /\ progress = FALSE /\ UNCHANGED <<storeVars, future>>
  BY <1>1 DEF LaunchDenied, LaunchCondition, LaunchCheck, LaunchUnusable, LaunchMap, LaunchReduce,
     LaunchRepeat, LaunchApproval, LaunchNoSlot, LaunchCached, LaunchAgent, LaunchUnprepared,
     Launch, Idle, unchangedByMain, workerVars, TypeOK
<1>3. t \in Task /\ ready' = ready \ {t} /\ todo = <<>> /\ UNCHANGED <<wf, state, deps>>
  BY <1>1 DEF LaunchDenied, LaunchCondition, LaunchCheck, LaunchUnusable, LaunchMap, LaunchReduce,
     LaunchRepeat, LaunchApproval, LaunchNoSlot, LaunchCached, LaunchAgent, LaunchUnprepared,
     Launch, Idle, unchangedByMain, storeVars, TypeOK
<1>4. Attempting /\ \A u \in Task : ~Launches(u, todo)
  BY <1>2, <1>3 DEF Judges, Launches, StepsOf
<1> SUFFICES /\ todo' \in Seq(AttemptSteps)
             /\ Node[t].kind = "approval" \/ Running' # {} \/ Launches(t, todo')
  BY <1>2, <1>3, <1>4 DEF Attempting, Stuck, Running
<1>5. CASE LaunchApproval(t) \/ LaunchRepeat(t)
  <2>1. todo' = <<>> /\ (Node[t].kind = "approval" \/ Running # {})
    BY <1>2, <1>5 DEF LaunchApproval, LaunchRepeat, Launch
  <2>2. QED
    BY <1>2, <2>1, EmptyIn DEF Running
<1>6. CASE LaunchAgent(t) \/ LaunchUnprepared(t)
  <2> DEFINE x == [op |-> "reserve", task |-> t, by |-> t]
             y == [op |-> "launch", task |-> t]
             z == [op |-> "worktree", task |-> t]
             v == [op |-> "submit", task |-> t]
             m == Move(t, "failed")
             r == Release(t)
             two == <<x, y>>
  <2>1. PICK s : /\ s \in {<<v>>, <<z>> \o <<v>>, <<m, r>>, <<>> \o <<v>>}
                 /\ todo' = two \o s
    <3>1. CASE LaunchUnprepared(t)
      BY <3>1 DEF LaunchUnprepared, Launch, StartSteps, FailSteps
    <3>2. CASE LaunchAgent(t)
      <4>1. todo' = two \o (IF NeedsWorktree(t) THEN <<z>> ELSE <<>>) \o <<v>>
        BY <3>2 DEF LaunchAgent, Launch, StartSteps
      <4> DEFINE p == IF NeedsWorktree(t) THEN <<z>> ELSE <<>>
                 front == {x, y, z, v}
      <4>2. two \in Seq(front) /\ p \in Seq(front) /\ <<v>> \in Seq(front)
        <5> HIDE DEF x, y, z, v
        <5>1. <<x, y>> \in Seq(front) /\ <<z>> \in Seq(front) /\ <<v>> \in Seq(front)
          BY TwoIn, OneIn
        <5>2. QED
          BY <5>1, EmptyIn
      <4>3. Script(two) /\ Script(p) /\ Script(<<v>>)
        BY <4>2 DEF Script
      <4> HIDE DEF two, v
      <4>4. Then(Then(two, p), <<v>>) = Then(two, Then(p, <<v>>))
        BY <4>3, ThenAssoc
      <4>5. QED
        BY <4>1, <4>4 DEF Then
    <3>3. QED
      BY <1>6, <3>1, <3>2
  <2>2. {x, y, z, v, m, r} \subseteq AttemptSteps
    BY <1>3 DEF AttemptSteps, Move, Release
  <2>3. y.op = "launch" /\ y.task = t
    OBVIOUS
  <2> HIDE DEF x, y, z, v, m, r
  <2>4. two \in Seq(AttemptSteps) /\ StepsOf(two) = {x, y}
    BY <2>2, TwoIn DEF StepsOf
  <2>5. s \in Seq(AttemptSteps)
    <3>1. /\ <<v>> \in Seq(AttemptSteps) /\ <<z>> \in Seq(AttemptSteps)
          /\ <<m, r>> \in Seq(AttemptSteps)
      BY <2>2, OneIn, TwoIn
    <3>2. QED
      BY <2>1, <3>1, ConcatIn, EmptyIn
  <2> HIDE DEF two
  <2>6. todo' \in Seq(AttemptSteps) /\ StepsOf(todo') = StepsOf(two) \cup StepsOf(s)
    BY <2>1, <2>4, <2>5, ConcatIn, StepsOfJoin
  <2>7. QED
    BY <2>3, <2>4, <2>6 DEF Launches
<1>7. CASE \/ LaunchDenied(t) \/ LaunchCondition(t) \/ LaunchCheck(t) \/ LaunchUnusable(t)
           \/ LaunchMap(t) \/ LaunchReduce(t) \/ LaunchNoSlot(t) \/ LaunchCached(t)
  <2>1. progress' = TRUE
    BY <1>2, <1>7 DEF LaunchDenied, LaunchCondition, LaunchCheck, LaunchUnusable, LaunchMap,
       LaunchReduce, LaunchNoSlot, LaunchCached, Launch
  <2>2. QED
    BY <2>1
<1>8. QED
  BY <1>1, <1>5, <1>6, <1>7

\* the main thread at rest
LEMMA JudgeScripting ==
    ASSUME TypeOK, LoopInv, Judges, Watches, LP!SucceededIsSettled, crashes = 0, Scripting
    PROVE  Judges'
<1> USE DEF Idle
<1>1. UNCHANGED <<storeVars, future>>
  BY ScriptingShape DEF workerVars
<1>2. UNCHANGED <<wf, state, deps>> /\ Running' = Running /\ (Judged' <=> Judged)
  BY <1>1 DEF storeVars, Running, Judged, Stuck
<1>3. CASE RefreshAfter
  <2>1. pc' = "list" /\ todo' = IF wf = "running" THEN RefreshReady ELSE <<>>
    BY <1>3 DEF RefreshAfter, Refresh
  <2>2. todo' \in Seq(TurnLoops)
    BY <2>1, TurnsWritten, EmptyIn
  <2>3. wf = "running" =>
           \A t \in Task : state[t] = "pending" => Stuck(t) \/ Readies(t, todo')
    BY <2>1, TurnsWritten
  <2>4. Refreshing'
    BY <1>2, <2>2, <2>3 DEF Refreshing, Stuck
  <2>5. QED
    BY <2>1, <2>4 DEF Judges
<1>4. CASE ListReady
  <2>1. /\ pc = "list" /\ pc' = "launch" /\ todo = <<>> /\ todo' = <<>>
        /\ ready' = IF wf = "running" THEN {t \in Task : state[t] = "ready"} ELSE {}
    BY <1>4 DEF ListReady
  <2>2. \A t \in Task : ~Readies(t, todo)
    BY <2>1 DEF Readies, StepsOf
  <2>3. Attempting'
    BY <1>2, <2>1, <2>2, EmptyIn DEF Judges, Refreshing, Attempting, Stuck
  <2>4. QED
    BY <2>1, <2>3 DEF Judges
<1>5. CASE LaunchTask
  <2>1. pc' = "launch" /\ progress' \in BOOLEAN
    <3>1. pc' = pc /\ pc = "launch"
      BY <1>5 DEF LaunchTask, LaunchDenied, LaunchCondition, LaunchCheck, LaunchUnusable,
         LaunchMap, LaunchReduce, LaunchRepeat, LaunchApproval, LaunchNoSlot, LaunchCached,
         LaunchAgent, LaunchUnprepared, Launch
    <3>2. QED
      BY <3>1, ScriptingShape
  <2>2. QED
    BY <1>5, <2>1, AttemptWritten DEF Judges
<1>6. CASE EndLaunch
  <2>1. /\ pc = "launch" /\ pc' = "settle" /\ todo = <<>> /\ todo' = <<>> /\ progress' = progress
        /\ ready = {} \/ Cardinality(Running) >= MaxWorkers
    BY <1>6 DEF EndLaunch
  <2>2. Running = {} => ready = {}
    BY <2>1, FS_EmptySet, RuntimeAssumption
  <2>3. \A t \in Task : ~Launches(t, todo)
    BY <2>1 DEF Launches, StepsOf
  <2>4. ~progress /\ wf = "running" /\ Running = {} => Judged
    BY <2>1, <2>2, <2>3 DEF Judges, Attempting, Judged
  <2>5. QED
    BY <1>2, <2>1, <2>4 DEF Judges
<1>7. CASE SettleIteration
  <2>1. pc = "settle" /\ pc' \in {"wait", "top", "closing"}
    BY <1>7 DEF SettleIteration, SettleWait, SettleAgain, SettleCancelled, SettleSucceeded,
       SettleExhausted, SettleFailed, SettleStalled, SettleRefused, Conclude, Settle
  <2>2. ASSUME pc' = "closing", todo' # <<>> \/ wf \in Verdicts
        PROVE  Judged
    <3>1. CASE SettleSucceeded \/ SettleExhausted \/ SettleFailed \/ SettleStalled
      BY <2>1, <3>1 DEF SettleSucceeded, SettleExhausted, SettleFailed, SettleStalled, Conclude,
         Judges
    <3>2. CASE SettleRefused
      BY <3>2 DEF SettleRefused, LP!SucceededIsSettled, Judged
    <3>3. CASE SettleCancelled
      BY <2>2, <3>3 DEF SettleCancelled, Settle, Verdicts
    <3>4. QED
      BY <1>7, <2>2, <3>1, <3>2, <3>3 DEF SettleIteration, SettleWait, SettleAgain, Settle
  <2>3. QED
    BY <1>2, <2>1, <2>2 DEF Judges
<1>8. ASSUME ~RefreshAfter, ~ListReady, ~LaunchTask, ~EndLaunch, ~SettleIteration
      PROVE  pc' \notin {"list", "launch", "settle", "closing", "off"}
  <2>1. ~(Recovered /\ pc' = "closing")
    BY CaresNothing DEF Recovered, Watches, Unwatched, Running
  <2>2. QED
    BY <1>8, <2>1 DEF Scripting, Boot, Reconcile, Recovered, Resume, RefreshBefore, Refresh,
       TakeInbox, HandleRequest, HandlePause, HandleResume, HandleCancel, HandleRetry,
       HandleDecision, Handle, InboxDone, WaitTimeout
<1>9. QED
  BY <1>3, <1>4, <1>5, <1>6, <1>7, <1>8 DEF Judges

LEMMA JudgeRescripting ==
    ASSUME TypeOK, TodoInv, LoopInv, Judges, Watches, Rescripting
    PROVE  Judges'
<1> DEFINE x == Head(todo)
<1>1. todo # <<>> /\ x.op \in {"reserve", "each", "decide", "iterate"}
  BY Zenon DEF Rescripting, PerformReserveRefused, PerformReserveRefusedRepeat, ReserveRefused,
     PerformEach, PerformDecide, PerformIterate, At
<1>2. pc \notin {"closing", "off"}
  <2>1. ~(todo \in Seq(WorkflowOnly))
    BY <1>1, RecordsWorkflow
  <2>2. QED
    BY <1>1, <2>1 DEF Watches, WorkflowOnly
<1>3. pc # "settle"
  BY <1>1 DEF Judges
<1>4. CASE PerformReserveRefused
  <2>1. x.op = "reserve" /\ pc' = "closing" /\ todo' = <<>> /\ wf' = wf
    BY <1>4 DEF PerformReserveRefused, ReserveRefused, At, storeVars
  <2>2. HeadFact(x)
    BY <1>1, HeadFacts DEF TypeOK
  <2>3. QED
    BY <2>1, <2>2 DEF HeadFact, Judges, Verdicts
<1>5. CASE ~PerformReserveRefused
  <2>1. pc' = pc /\ progress' = progress
    BY Zenon, <1>5 DEF Rescripting, PerformReserveRefusedRepeat, PerformEach, PerformDecide,
       PerformIterate, loopVars
  <2>2. ASSUME pc = "list" PROVE Refreshing'
    <3>1. x \in TurnLoops
      BY <1>1, <2>2, ScriptHead DEF Judges, Refreshing
    <3>2. x.op \in {"move", "each"}
      BY <3>1 DEF TurnLoops, Turns
    <3>3. PerformEach
      BY Zenon, <1>1, <1>5, <3>2 DEF Rescripting, PerformReserveRefusedRepeat, ReserveRefused,
         PerformDecide, PerformIterate, At
    <3>4. QED
      BY <2>2, <3>3, TurnEach DEF Judges
  <2>3. ~(pc = "launch" /\ ~progress)
    <3> SUFFICES ASSUME pc = "launch", ~progress PROVE FALSE
      OBVIOUS
    <3>1. x \in AttemptSteps
      BY <1>1, ScriptHead DEF Judges, Attempting
    <3>2. /\ x.op \notin {"each", "decide", "iterate"}
          /\ x.op = "reserve" => x.by = x.task
      BY <3>1 DEF AttemptSteps
    <3>3. QED
      BY Zenon, <1>5, <3>2 DEF Rescripting, PerformReserveRefusedRepeat, ReserveRefused, PerformEach,
         PerformDecide, PerformIterate, At
  <2>4. QED
    BY <1>2, <1>3, <2>1, <2>2, <2>3 DEF Judges
<1>6. QED
  BY <1>4, <1>5

LEMMA JudgeDrives ==
    ASSUME Judges, Watches, Drives
    PROVE  Judges'
<1>1. At("drive") /\ pc' = pc /\ progress' = progress
  BY Zenon DEF Drives, DriveAccepted, DriveRejected, DriveExhausted, DriveRaised, DriveUnfinished, Drive,
     loopVars
<1> DEFINE x == Head(todo)
<1>2. todo # <<>> /\ x.op = "drive"
  BY <1>1 DEF At
<1>3. pc \notin {"closing", "off", "settle"}
  <2>1. ~(todo \in Seq(WorkflowOnly))
    BY <1>2, RecordsWorkflow
  <2>2. QED
    BY <1>2, <2>1 DEF Watches, WorkflowOnly, Judges
<1>4. pc # "list"
  <2> SUFFICES ASSUME pc = "list" PROVE FALSE
    OBVIOUS
  <2>1. x \in TurnLoops
    BY <1>2, ScriptHead DEF Judges, Refreshing
  <2>2. QED
    BY <1>2, <2>1 DEF TurnLoops, Turns
<1>5. ~(pc = "launch" /\ ~progress)
  <2> SUFFICES ASSUME pc = "launch", ~progress PROVE FALSE
    OBVIOUS
  <2>1. x \in AttemptSteps
    BY <1>2, ScriptHead DEF Judges, Attempting
  <2>2. QED
    BY <1>2, <2>1 DEF AttemptSteps
<1>6. QED
  BY <1>1, <1>3, <1>4, <1>5 DEF Judges

LEMMA JudgePopped ==
    ASSUME TypeOK, KindInv, LoopInv, RunInv, Judges, Watches, StepDone(Head(todo)),
           Around(Head(todo))
    PROVE  Judges'
<1>1. todo # <<>> /\ todo' = Tail(todo) /\ pc' = pc /\ progress' = progress
  BY DEF StepDone, Around
<1>2. pc = "list" => Refreshing'
  BY TurnStep DEF Judges
<1>3. pc = "launch" /\ ~progress => Attempting'
  BY AttemptStep DEF Judges
<1>4. pc \notin {"settle", "off"}
  BY <1>1 DEF Judges, LoopInv
<1>5. ASSUME pc = "closing" PROVE Judged'
  <2>1. todo \in Seq(WorkflowOnly) /\ Judged
    BY <1>1, <1>5 DEF Watches, WorkflowOnly, Judges
  <2>2. Head(todo).op = "workflow"
    BY <1>1, <2>1, RecordsWorkflow
  <2>3. deps' = deps
    BY <2>2, DepsStay
  <2>4. state' = state
    BY <2>2, PoppedState DEF After, Hard
  <2>5. QED
    BY <2>1, <2>3, <2>4 DEF Judged, Stuck
<1>6. QED
  BY <1>1, <1>2, <1>3, <1>4, <1>5 DEF Judges

LEMMA JudgeBeside ==
    ASSUME Judges, Beside, Aside
    PROVE  Judges'
<1>1. /\ UNCHANGED <<pc, progress, ready, todo, wf, state, deps>>
      /\ Running' = Running
  BY DEF Beside, Aside, Running
<1>2. /\ Judged' <=> Judged
      /\ Refreshing' <=> Refreshing
      /\ Attempting' <=> Attempting
  BY <1>1 DEF Judged, Stuck, Refreshing, Attempting
<1>3. QED
  BY <1>1, <1>2 DEF Judges

LEMMA JudgeKept ==
    ASSUME RuntimeInv, KindInv, RunInv, LP!SucceededIsSettled, WatchInv, JudgeInv, [Next]_vars
    PROVE  JudgeInv'
<1>1. TypeOK /\ TodoInv /\ LoopInv
  BY DEF RuntimeInv, WorkerInv
<1>2. crashes \in Nat
  BY <1>1 DEF LoopInv
<1>3. SUFFICES ASSUME crashes' = 0 PROVE Judges'
  BY DEF JudgeInv
<1>4. ~Crash
  BY <1>2, <1>3 DEF Crash
<1>5. CASE Scripting
  <2>1. crashes' = crashes
    BY <1>1, <1>5, ScriptingShape DEF envVars
  <2>2. QED
    BY <1>1, <1>3, <1>5, <2>1, JudgeScripting DEF JudgeInv, WatchInv
<1>6. CASE CollectFuture
  <2>1. pc' \in {"wait", "top"}
    BY <1>6 DEF CollectFuture, CollectCancelled, CollectAccepted, CollectDenied, CollectRejected,
       CollectExhausted, CollectFailed, CollectUnfinished, Collect
  <2>2. QED
    BY <2>1 DEF Judges
<1>7. CASE Close
  <2>1. /\ pc = "closing" /\ pc' = "off" /\ crashes' = crashes /\ UNCHANGED <<wf, state, deps>>
    BY <1>7 DEF Close, Idle, unchangedByMain, storeVars, envVars
  <2>2. Judged' <=> Judged
    BY <2>1 DEF Judged, Stuck
  <2>3. QED
    BY <1>3, <2>1, <2>2 DEF JudgeInv, Judges
<1>8. CASE Drives \/ Rescripting
  <2>1. crashes' = crashes
    BY Zenon, <1>8 DEF Drives, DriveAccepted, DriveRejected, DriveExhausted, DriveRaised,
       DriveUnfinished, Drive, Rescripting, PerformReserveRefused, PerformReserveRefusedRepeat,
       PerformEach, PerformDecide, PerformIterate, unchangedByMain, envVars
  <2>2. QED
    BY <1>1, <1>3, <1>8, <2>1, JudgeDrives, JudgeRescripting DEF JudgeInv, WatchInv
<1>9. CASE StepDone(Head(todo)) /\ Around(Head(todo))
  <2>1. crashes' = crashes
    BY <1>9 DEF Around
  <2>2. QED
    BY <1>1, <1>3, <1>9, <2>1, JudgePopped DEF JudgeInv, WatchInv
<1>10. CASE Beside /\ Aside
  <2>1. crashes' = crashes
    BY <1>10 DEF Aside
  <2>2. QED
    BY <1>3, <1>10, <2>1, JudgeBeside DEF JudgeInv
<1>11. QED
  BY <1>1, <1>4, <1>5, <1>6, <1>7, <1>8, <1>9, <1>10, NextAround DEF Writing

(* A verdict is final (run): when a run that never crashed has ended with the *)
(* workflow succeeded, failed or out of budget, nothing is left that could    *)
(* still be run - no task runs, is ready without waiting for an approval, or   *)
(* waits for accepted dependencies only -, whatever requests, launches,        *)
(* outcomes and iterations led to it, provided the workers of repeat nodes do  *)
(* not raise.                                                                *)
THEOREM VerdictsAreFinal ==
    ChildrenReport => (Spec => [](crashes = 0 => VerdictIsFinal))
<1> SUFFICES ASSUME ChildrenReport
             PROVE  Spec => [](crashes = 0 => VerdictIsFinal)
  OBVIOUS
<1>1. Init => JudgeInv
  BY DEF Init, StoreInit, JudgeInv, Judges, Verdicts
<1>2. /\ RuntimeInv /\ KindInv /\ RunInv /\ LP!SucceededIsSettled /\ WatchInv /\ JudgeInv
      /\ [Next]_vars
      => JudgeInv'
  BY JudgeKept
<1>3. WatchInv /\ JudgeInv => (crashes = 0 => VerdictIsFinal)
  BY DEF WatchInv, Watches, JudgeInv, Judges, Judged, Stuck, VerdictIsFinal, Verdicts, Present
<1>4. Spec => []LP!SucceededIsSettled
  BY RuntimeKeepsTheContract, PTL
<1>5. QED
  BY <1>1, <1>2, <1>3, <1>4, RuntimeInvAlways, KindAlways, RunsAlways, WatchAlways, PTL DEF Spec

-----------------------------------------------------------------------------
(* What a script owes.  Some steps are followed at once by another of the     *)
(* same task: a reservation by the launch, a state between two verdicts by    *)
(* the next move, and the verdict of an agent by the release - but for those   *)
(* in Z, which have nothing to release.                                      *)
Moves(x) == x.op \in {"move", "fail"}
Middle == {"completed", "verifying", "retry_wait"}
Unreserving == {t \in Task : Node[t].kind # "agent"}
Wants(x, Z) ==
    \/ x.op = "reserve"
    \/ Moves(x) /\ x.to \in Middle
    \/ Moves(x) /\ x.to \in Over /\ x.task \notin Z
Meets(x, y) ==
    /\ x.op = "reserve" => y.op = "launch"
    /\ Moves(x) /\ x.to \in Middle => Moves(y)
    /\ Moves(x) /\ x.to \in Over => y.op = "release"
    /\ y.task = x.task
Ordered(s, Z) ==
    \A i \in DOMAIN s : Wants(s[i], Z) => i + 1 \in DOMAIN s /\ Meets(s[i], s[i + 1])
\* a script without reservations and loops, and one whose loops are such
Bare(s, Z) ==
    Script(s) /\ Ordered(s, Z) /\ \A x \in StepsOf(s) : x.op \notin {"each", "reserve"}
Whole(x, Z) ==
    /\ x.op = "reserve" => Node[x.task].kind = "agent"
    /\ x.op = "each" => \A i \in x.items : Bare(i, Z)
Neat(s, Z) == Script(s) /\ Ordered(s, Z) /\ \A x \in StepsOf(s) : Whole(x, Z)

LEMMA OrderedTail ==
    ASSUME NEW s, NEW Z, Script(s), s # <<>>, Ordered(s, Z)
    PROVE  /\ Ordered(Tail(s), Z)
           /\ Wants(Head(s), Z) => Tail(s) # <<>> /\ Meets(Head(s), Head(Tail(s)))
<1>1. PICK S : s \in Seq(S)
  BY DEF Script
<1> DEFINE u == Tail(s)
<1>2. /\ DOMAIN s = 1..Len(s) /\ Len(s) \in Nat \ {0} /\ Head(s) = s[1] /\ u \in Seq(S)
      /\ DOMAIN u = 1..(Len(s) - 1) /\ \A i \in 1..(Len(s) - 1) : u[i] = s[i + 1]
  BY <1>1
<1> HIDE DEF u
<1>3. ASSUME NEW i \in DOMAIN u, Wants(u[i], Z)
      PROVE  i + 1 \in DOMAIN u /\ Meets(u[i], u[i + 1])
  <2>1. i \in Nat /\ i + 1 \in DOMAIN s /\ u[i] = s[i + 1]
    BY <1>2
  <2>2. (i + 1) + 1 \in DOMAIN s /\ Meets(s[i + 1], s[(i + 1) + 1])
    BY <1>3, <2>1 DEF Ordered
  <2>3. i + 1 \in DOMAIN u
    BY <1>2, <2>1, <2>2
  <2>4. QED
    BY <1>2, <2>1, <2>2, <2>3
<1>4. ASSUME Wants(Head(s), Z) PROVE u # <<>> /\ Meets(Head(s), Head(u))
  <2>1. 1 \in DOMAIN s
    BY <1>2
  <2>2. 1 + 1 \in DOMAIN s /\ Meets(s[1], s[1 + 1])
    BY <1>2, <1>4, <2>1 DEF Ordered
  <2>3. 1 \in DOMAIN u
    BY <1>2, <2>2
  <2>4. u # <<>> /\ Head(u) = u[1]
    BY <1>2, <2>3
  <2>5. QED
    BY <1>2, <2>2, <2>3, <2>4
<1>5. QED
  BY <1>3, <1>4 DEF Ordered, u

LEMMA OrderedThen ==
    ASSUME NEW p, NEW s, NEW Z, Script(p), Script(s), Ordered(p, Z), Ordered(s, Z)
    PROVE  Ordered(Then(p, s), Z)
<1>1. PICK P : p \in Seq(P)
  BY DEF Script
<1>2. PICK S : s \in Seq(S)
  BY DEF Script
<1> DEFINE A == P \cup S
           u == p \o s
<1>3. p \in Seq(A) /\ s \in Seq(A)
  BY <1>1, <1>2, SeqGrows
<1> HIDE DEF A
<1>4. /\ u \in Seq(A) /\ Len(u) = Len(p) + Len(s) /\ Len(p) \in Nat /\ Len(s) \in Nat
      /\ \A i \in 1..Len(p) : u[i] = p[i]
      /\ \A i \in 1..Len(s) : u[Len(p) + i] = s[i]
  BY <1>3, JoinedAt
<1>5. DOMAIN u = 1..Len(u) /\ DOMAIN p = 1..Len(p) /\ DOMAIN s = 1..Len(s)
  BY <1>3, <1>4
<1> HIDE DEF u
<1>6. ASSUME NEW i \in DOMAIN u, Wants(u[i], Z)
      PROVE  i + 1 \in DOMAIN u /\ Meets(u[i], u[i + 1])
  <2>1. CASE i \in DOMAIN p
    <3>1. i + 1 \in DOMAIN p /\ Meets(p[i], p[i + 1])
      BY <1>4, <1>5, <1>6, <2>1 DEF Ordered
    <3>2. QED
      BY <1>4, <1>5, <2>1, <3>1
  <2>2. CASE i \notin DOMAIN p
    <3> DEFINE j == i - Len(p)
    <3>1. j \in DOMAIN s /\ i = Len(p) + j /\ j \in Nat
      BY <1>4, <1>5, <2>2
    <3> HIDE DEF j
    <3>2. u[i] = s[j]
      BY <1>4, <1>5, <3>1
    <3>3. j + 1 \in DOMAIN s /\ Meets(s[j], s[j + 1])
      BY <1>6, <3>1, <3>2 DEF Ordered
    <3> DEFINE m == j + 1
    <3>4. m \in 1..Len(s) /\ m = j + 1
      BY <1>5, <3>3
    <3> HIDE DEF m
    <3>5. Len(u) = Len(p) + Len(s) /\ Len(p) \in Nat /\ Len(s) \in Nat
      BY <1>4
    <3>6. i + 1 = Len(p) + m /\ i + 1 \in 1..Len(u)
      BY <3>1, <3>4, <3>5
    <3>7. u[Len(p) + m] = s[m]
      BY <1>4, <3>4
    <3>8. u[i + 1] = s[j + 1]
      BY <3>4, <3>6, <3>7
    <3>9. QED
      BY <1>5, <3>2, <3>3, <3>6, <3>8
  <2>3. QED
    BY <2>1, <2>2
<1>7. QED
  BY <1>6 DEF Ordered, Then, u

LEMMA ThenSteps ==
    \A p, s : Script(p) /\ Script(s) => StepsOf(Then(p, s)) = StepsOf(p) \cup StepsOf(s)
<1> SUFFICES ASSUME NEW p, NEW s, Script(p), Script(s)
             PROVE  StepsOf(Then(p, s)) = StepsOf(p) \cup StepsOf(s)
  OBVIOUS
<1>1. PICK P : p \in Seq(P)
  BY DEF Script
<1>2. PICK S : s \in Seq(S)
  BY DEF Script
<1>3. p \in Seq(P \cup S) /\ s \in Seq(P \cup S)
  BY <1>1, <1>2, SeqGrows
<1>4. QED
  BY <1>3, StepsOfJoin DEF Then

LEMMA LeadSteps == \A x, s : Script(s) => StepsOf(Lead(x, s)) = {x} \cup StepsOf(s)
<1> SUFFICES ASSUME NEW x, NEW s, Script(s) PROVE StepsOf(Lead(x, s)) = {x} \cup StepsOf(s)
  OBVIOUS
<1>1. Script(<<x>>) /\ Then(<<x>>, s) = Lead(x, s)
  BY ThenOne
<1>2. StepsOf(Then(<<x>>, s)) = StepsOf(<<x>>) \cup StepsOf(s)
  BY <1>1, ThenSteps
<1>3. StepsOf(<<x>>) = {x}
  BY OneStep
<1>4. QED
  BY <1>1, <1>2, <1>3

LEMMA OrderedFront ==
    ASSUME NEW x, NEW s, NEW Z, Script(s), Ordered(s, Z),
           Wants(x, Z) => s # <<>> /\ Meets(x, Head(s))
    PROVE  Ordered(Lead(x, s), Z)
<1>1. PICK S : s \in Seq(S)
  BY DEF Script
<1> DEFINE A == S \cup {x}
           one == <<x>>
           u == one \o s
<1>2. s \in Seq(A) /\ one \in Seq(A) /\ Len(one) = 1 /\ one[1] = x
  BY <1>1, SeqGrows, OneIn
<1> HIDE DEF A, one
<1>a. /\ u \in Seq(A) /\ Len(u) = Len(one) + Len(s)
      /\ \A i \in 1..Len(one) : u[i] = one[i]
      /\ \A i \in 1..Len(s) : u[Len(one) + i] = s[i]
  BY <1>2, JoinedAt
<1> HIDE DEF u
<1>3. /\ u \in Seq(A) /\ Len(u) = 1 + Len(s) /\ Len(s) \in Nat
      /\ u[1] = x /\ \A i \in 1..Len(s) : u[1 + i] = s[i]
  BY <1>2, <1>a
<1>4. DOMAIN u = 1..Len(u) /\ DOMAIN s = 1..Len(s)
  BY <1>2, <1>3
<1> HIDE DEF u
<1>5. ASSUME NEW i \in DOMAIN u, Wants(u[i], Z)
      PROVE  i + 1 \in DOMAIN u /\ Meets(u[i], u[i + 1])
  <2>1. CASE i = 1
    <3>1. s # <<>> /\ Meets(x, Head(s))
      BY <1>3, <1>5, <2>1
    <3>2. 1 \in DOMAIN s /\ Head(s) = s[1]
      BY <1>1, <3>1
    <3>3. 1 + 1 \in DOMAIN u /\ u[1 + 1] = s[1]
      BY <1>3, <1>4, <3>2
    <3>4. QED
      BY <1>3, <2>1, <3>1, <3>2, <3>3
  <2>2. CASE i # 1
    <3> DEFINE j == i - 1
    <3>1. j \in DOMAIN s /\ i = 1 + j /\ j \in Nat
      BY <1>3, <1>4, <2>2
    <3> HIDE DEF j
    <3>2. u[i] = s[j]
      BY <1>3, <1>4, <3>1
    <3>3. j + 1 \in DOMAIN s /\ Meets(s[j], s[j + 1])
      BY <1>5, <3>1, <3>2 DEF Ordered
    <3>4. i + 1 \in DOMAIN u /\ i + 1 = 1 + (j + 1)
      BY <1>3, <1>4, <3>1, <3>3
    <3>5. u[i + 1] = s[j + 1]
      BY <1>3, <1>4, <3>3, <3>4
    <3>6. QED
      BY <3>2, <3>3, <3>4, <3>5
  <2>3. QED
    BY <2>1, <2>2
<1>6. QED
  BY <1>5 DEF Ordered, Lead, u, one

LEMMA NeatTail ==
    ASSUME NEW s, NEW Z, Neat(s, Z), s # <<>>
    PROVE  /\ Neat(Tail(s), Z) /\ Whole(Head(s), Z)
           /\ Wants(Head(s), Z) => Tail(s) # <<>> /\ Meets(Head(s), Head(Tail(s)))
<1>1. Script(s) /\ Script(Tail(s))
  BY ScriptTail DEF Neat
<1>2. s = Lead(Head(s), Tail(s))
  BY <1>1, LeadSplit
<1>3. StepsOf(s) = {Head(s)} \cup StepsOf(Tail(s))
  BY <1>1, <1>2, LeadSteps
<1>4. QED
  BY <1>1, <1>3, OrderedTail DEF Neat

LEMMA NeatThen ==
    \A p, s, Z : Neat(p, Z) /\ Neat(s, Z) => Neat(Then(p, s), Z)
BY ThenScript, ThenSteps, OrderedThen DEF Neat

LEMMA BareThen ==
    \A p, s, Z : Bare(p, Z) /\ Bare(s, Z) => Bare(Then(p, s), Z)
BY ThenScript, ThenSteps, OrderedThen DEF Bare

LEMMA BareNeat == \A s, Z : Bare(s, Z) => Neat(s, Z)
BY DEF Bare, Neat, Whole

LEMMA BareNothing == \A s, Z : s = <<>> => Bare(s, Z) /\ Neat(s, Z)
<1> SUFFICES ASSUME NEW s, NEW Z, s = <<>> PROVE Bare(s, Z)
  BY BareNeat
<1>1. DOMAIN s = {}
  OBVIOUS
<1>2. QED
  BY <1>1, EmptyScript DEF Bare, Ordered, StepsOf

LEMMA BareFront ==
    ASSUME NEW x, NEW s, NEW Z, Bare(s, Z), x.op \notin {"each", "reserve"},
           Wants(x, Z) => s # <<>> /\ Meets(x, Head(s))
    PROVE  Bare(Lead(x, s), Z)
BY LeadScript, LeadSteps, OrderedFront DEF Bare

LEMMA NeatFront ==
    ASSUME NEW x, NEW s, NEW Z, Neat(s, Z), Whole(x, Z),
           Wants(x, Z) => s # <<>> /\ Meets(x, Head(s))
    PROVE  Neat(Lead(x, s), Z)
BY LeadScript, LeadSteps, OrderedFront DEF Neat

(* the pieces of the handlers *)
Lazy(x, Z) == x.op \notin {"each", "reserve"} /\ ~Wants(x, Z)

LEMMA BareOne == \A x, Z : Lazy(x, Z) => Bare(<<x>>, Z)
<1> SUFFICES ASSUME NEW x, NEW Z, Lazy(x, Z) PROVE Bare(<<x>>, Z)
  OBVIOUS
<1>1. <<x>> = Lead(x, <<>>)
  BY LeadTuple
<1> DEFINE e == <<>>
<1>2. Bare(e, Z)
  BY BareNothing
<1> HIDE DEF e
<1>3. Bare(Lead(x, e), Z)
  BY <1>2, BareFront DEF Lazy
<1>4. QED
  BY <1>1, <1>3 DEF e

LEMMA NeatLoop ==
    ASSUME NEW J, NEW Z, \A i \in J : Bare(i, Z)
    PROVE  Neat(Each(J), Z)
<1> DEFINE x == [op |-> "each", items |-> J]
           e == <<>>
<1>1. x.op = "each" /\ x.items = J
  OBVIOUS
<1>2. J = {} => Each(J) = e
  BY DEF Each
<1>3. J # {} => Each(J) = <<x>>
  BY DEF Each
<1>4. <<x>> = Lead(x, e)
  BY LeadTuple
<1>5. Neat(e, Z)
  BY BareNothing
<1> HIDE DEF x, e
<1>6. Whole(x, Z) /\ ~Wants(x, Z)
  BY <1>1 DEF Whole, Wants, Moves
<1>7. Neat(Lead(x, e), Z)
  BY <1>5, <1>6, NeatFront
<1>8. QED
  BY <1>2, <1>3, <1>4, <1>5, <1>7

LEMMA BareQuiet ==
    ASSUME NEW S, NEW s \in Seq(S), \A x \in S : x.op \notin {"move", "fail", "each", "reserve"},
           NEW Z
    PROVE  Bare(s, Z)
<1>1. \A i \in DOMAIN s : s[i] \in S
  OBVIOUS
<1>2. QED
  BY <1>1 DEF Bare, Script, Ordered, StepsOf, Wants, Moves

(* the pieces handlers are made of *)
LEMMA StepOps ==
    /\ \A t, to : Move(t, to).op = "move" /\ Move(t, to).task = t /\ Move(t, to).to = to
    /\ \A t, to, f : Fail(t, to, f).op = "fail" /\ Fail(t, to, f).task = t /\ Fail(t, to, f).to = to
    /\ \A t : /\ Release(t).op = "release" /\ Release(t).task = t
              /\ StartComputed(t).op = "start" /\ StartComputed(t).task = t
              /\ ClearPid(t).op = "update" /\ Block(t).op = "block"
    /\ \A t, f : Update(t, f).op = "update"
    /\ \A to : Workflow(to).op = "workflow"
BY DEF Move, Fail, Release, StartComputed, ClearPid, Update, Block, Workflow

LEMMA LazyOps ==
    ASSUME NEW x, NEW Z
    PROVE  /\ x.op \notin {"move", "fail", "each", "reserve"} => Lazy(x, Z)
           /\ Moves(x) /\ x.to \notin Middle \cup Over => Lazy(x, Z)
BY DEF Lazy, Wants, Moves

\* a verdict, with the release after it
LEMMA BareGone ==
    ASSUME NEW t, NEW to \in Over, NEW s, NEW Z, Bare(s, Z)
    PROVE  /\ Bare(Then(<<Move(t, to), Release(t)>>, s), Z)
           /\ \A f : Bare(Then(<<Fail(t, to, f), Release(t)>>, s), Z)
<1>1. Script(s)
  BY DEF Bare
<1> DEFINE y == Release(t)
           r == Lead(y, s)
<1>2. y.op = "release" /\ y.task = t
  BY StepOps
<1> HIDE DEF y
<1>3. Lazy(y, Z)
  BY <1>2, LazyOps
<1>4. Bare(r, Z) /\ r # <<>> /\ Head(r) = y
  BY <1>1, <1>3, BareFront, LeadScript DEF Lazy
<1> HIDE DEF r
<1>5. ASSUME NEW x, Moves(x), x.task = t, x.to = to
      PROVE  Bare(Lead(x, r), Z)
  <2>1. x.to \notin Middle /\ x.op \notin {"each", "reserve"}
    BY <1>5 DEF Middle, Over, Moves
  <2>2. Meets(x, y)
    BY <1>2, <1>5, <2>1 DEF Meets, Moves
  <2>3. QED
    BY <1>4, <2>1, <2>2, BareFront
<1>6. Moves(Move(t, to)) /\ \A f : Moves(Fail(t, to, f))
  BY StepOps DEF Moves
<1>7. Bare(Lead(Move(t, to), r), Z) /\ \A f : Bare(Lead(Fail(t, to, f), r), Z)
  BY <1>5, <1>6, StepOps
<1>8. /\ Then(<<Move(t, to), Release(t)>>, s) = Lead(Move(t, to), r)
      /\ \A f : Then(<<Fail(t, to, f), Release(t)>>, s) = Lead(Fail(t, to, f), r)
  BY <1>1, ThenTwo DEF r, y
<1>9. QED
  BY <1>7, <1>8

\* a state between two verdicts, with the move after it
LEMMA BareMid ==
    ASSUME NEW t, NEW to \in Middle, NEW s, NEW Z, Bare(s, Z), s # <<>>,
           Moves(Head(s)), Head(s).task = t
    PROVE  Bare(Lead(Move(t, to), s), Z)
<1> DEFINE x == Move(t, to)
<1>1. Moves(x) /\ x.op = "move" /\ x.task = t /\ x.to = to
  BY StepOps DEF Moves
<1> HIDE DEF x
<1>2. x.to \notin Over
  BY <1>1 DEF Middle, Over
<1>3. Meets(x, Head(s))
  BY <1>1, <1>2 DEF Meets
<1>4. QED
  BY <1>1, <1>3, BareFront DEF x

\* what a worker completed, up to the verdict
LEMMA BareComplete ==
    ASSUME NEW t, NEW s, NEW Z, Bare(s, Z), s # <<>>, Moves(Head(s)), Head(s).task = t
    PROVE  Bare(Then(CompleteSteps(t), s), Z)
<1>1. Script(s)
  BY DEF Bare
<1> DEFINE r == Lead(Move(t, "verifying"), s)
           q == Lead(Move(t, "completed"), r)
<1>2. Bare(r, Z)
  BY BareMid DEF Middle
<1>3. r # <<>> /\ Head(r) = Move(t, "verifying")
  BY <1>1, LeadScript
<1>4. Moves(Head(r)) /\ Head(r).task = t
  BY <1>3, StepOps DEF Moves
<1> HIDE DEF r
<1>5. Bare(q, Z)
  BY <1>2, <1>3, <1>4, BareMid DEF Middle
<1> HIDE DEF q
<1>6. Lazy(ClearPid(t), Z)
  BY StepOps, LazyOps
<1>7. Bare(Lead(ClearPid(t), q), Z)
  BY <1>5, <1>6, BareFront DEF Lazy
<1>8. Then(CompleteSteps(t), s) = Lead(ClearPid(t), q)
  BY <1>1, ThenThree DEF CompleteSteps, q, r
<1>9. QED
  BY <1>7, <1>8

\* the pieces that end a handler, or are followed by anything
LEMMA BareEnds ==
    ASSUME NEW t, NEW to \in Over, NEW Z
    PROVE  /\ Bare(<<Move(t, to), Release(t)>>, Z) /\ Bare(FailSteps(t), Z)
           /\ \A f : Bare(<<Fail(t, to, f), Release(t)>>, Z)
<1> DEFINE e == <<>>
<1>1. Bare(e, Z) /\ Script(e)
  BY BareNothing, EmptyScript
<1>2. \A x, y : Script(<<x, y>>) /\ Then(<<x, y>>, e) = <<x, y>>
  BY <1>1, ThenTwo, ThenScript
<1> HIDE DEF e
<1>3. "failed" \in Over
  BY DEF Over
<1>4. /\ Bare(Then(<<Move(t, to), Release(t)>>, e), Z)
      /\ Bare(Then(<<Move(t, "failed"), Release(t)>>, e), Z)
      /\ \A f : Bare(Then(<<Fail(t, to, f), Release(t)>>, e), Z)
  BY <1>1, <1>3, BareGone
<1>5. QED
  BY <1>2, <1>4 DEF FailSteps

LEMMA BareJudged ==
    ASSUME NEW t, NEW to \in Over, NEW Z
    PROVE  /\ Bare(Then(CompleteSteps(t), <<Move(t, to), Release(t)>>), Z)
           /\ \A f : Bare(Then(CompleteSteps(t), <<Fail(t, to, f), Release(t)>>), Z)
<1>1. ASSUME NEW x, NEW y, Moves(x), x.task = t, Bare(<<x, y>>, Z)
      PROVE  Bare(Then(CompleteSteps(t), <<x, y>>), Z)
  <2> DEFINE s == <<x, y>>
  <2>1. s # <<>> /\ Head(s) = x
    OBVIOUS
  <2> HIDE DEF s
  <2>2. QED
    BY <1>1, <2>1, BareComplete DEF s
<1>2. Moves(Move(t, to)) /\ Move(t, to).task = t
      /\ \A f : Moves(Fail(t, to, f)) /\ Fail(t, to, f).task = t
  BY StepOps DEF Moves
<1>3. QED
  BY <1>1, <1>2, BareEnds

LEMMA BareAccept ==
    ASSUME NEW Z, NEW t \in Z
    PROVE  Bare(AcceptComputed(t), Z)
<1> DEFINE e == <<>>
           x == Move(t, "accepted")
           r == Lead(x, e)
           q == Lead(Move(t, "verifying"), r)
           p == Lead(Move(t, "completed"), q)
<1>1. Bare(e, Z) /\ Script(e)
  BY BareNothing, EmptyScript
<1>2. AcceptComputed(t) = p
  BY LeadTuple DEF AcceptComputed
<1> HIDE DEF e
<1>3. x.op = "move" /\ x.task = t /\ x.to = "accepted"
  BY StepOps
<1> HIDE DEF x
<1>4. Lazy(x, Z)
  BY <1>3 DEF Lazy, Wants, Moves, Middle
<1>5. Bare(r, Z) /\ r # <<>> /\ Head(r) = x
  BY <1>1, <1>4, BareFront, LeadScript DEF Lazy
<1> HIDE DEF r
<1>6. Bare(q, Z)
  BY <1>3, <1>5, BareMid DEF Middle, Moves
<1>7. q # <<>> /\ Head(q) = Move(t, "verifying")
  BY <1>5, LeadScript DEF Bare
<1>8. Moves(Head(q)) /\ Head(q).task = t
  BY <1>7, StepOps DEF Moves
<1> HIDE DEF q
<1>9. Bare(p, Z)
  BY <1>6, <1>7, <1>8, BareMid DEF Middle
<1>10. QED
  BY <1>2, <1>9

\* a failure that is tried again
LEMMA BareAgain == \A t, Z : Bare(<<Move(t, "retry_wait"), Move(t, "ready")>>, Z)
<1> TAKE t, Z
<1> DEFINE e == <<>>
           x == Move(t, "ready")
           r == Lead(x, e)
<1>1. Bare(e, Z) /\ Script(e)
  BY BareNothing, EmptyScript
<1>2. <<Move(t, "retry_wait"), x>> = Lead(Move(t, "retry_wait"), r)
  BY LeadTuple
<1> HIDE DEF e
<1>3. x.op = "move" /\ x.task = t /\ x.to = "ready"
  BY StepOps
<1> HIDE DEF x
<1>4. Lazy(x, Z)
  BY <1>3 DEF Lazy, Wants, Moves, Middle, Over
<1>5. Bare(r, Z) /\ r # <<>> /\ Head(r) = x
  BY <1>1, <1>4, BareFront, LeadScript DEF Lazy
<1> HIDE DEF r
<1>6. Bare(Lead(Move(t, "retry_wait"), r), Z)
  BY <1>3, <1>5, BareMid DEF Middle, Moves
<1>7. QED
  BY <1>2, <1>6 DEF x

LEMMA BareRetry == \A t, f, Z : Bare(Escalate(t, f), Z) /\ Bare(MaybeRetry(t, f), Z)
<1> TAKE t, f, Z
<1> DEFINE e == <<>>
           x == [op |-> "escalate", task |-> t]
<1>1. Bare(e, Z)
  BY BareNothing
<1>2. x.op = "escalate"
  OBVIOUS
<1>3. Escalate(t, f) \in {e, <<x>>}
  BY DEF Escalate
<1>4. MaybeRetry(t, f) \in {e, <<Move(t, "retry_wait"), Move(t, "ready")>>}
  BY DEF MaybeRetry
<1> HIDE DEF e, x
<1>5. Bare(<<x>>, Z)
  BY <1>2, LazyOps, BareOne
<1>6. QED
  BY <1>1, <1>3, <1>4, <1>5, BareAgain

\* a reservation, with the launch after it
LEMMA NeatStart ==
    ASSUME NEW t, Node[t].kind = "agent", NEW by, NEW s, NEW Z, Neat(s, Z)
    PROVE  Neat(Then(StartSteps(t, by), s), Z)
<1> DEFINE x == [op |-> "reserve", task |-> t, by |-> by]
           y == [op |-> "launch", task |-> t]
           r == Lead(y, s)
<1>1. Script(s)
  BY DEF Neat
<1>2. Then(StartSteps(t, by), s) = Lead(x, r)
  BY <1>1, ThenTwo DEF StartSteps
<1>3. x.op = "reserve" /\ x.task = t /\ y.op = "launch" /\ y.task = t
  OBVIOUS
<1> HIDE DEF x, y
<1>4. Whole(y, Z) /\ ~Wants(y, Z) /\ Whole(x, Z) /\ Meets(x, y)
  BY <1>3 DEF Whole, Wants, Moves, Meets
<1>5. Neat(r, Z) /\ r # <<>> /\ Head(r) = y
  BY <1>1, <1>4, NeatFront, LeadScript
<1> HIDE DEF r
<1>6. Neat(Lead(x, r), Z)
  BY <1>4, <1>5, NeatFront
<1>7. QED
  BY <1>2, <1>6

-----------------------------------------------------------------------------
(* The scripts that are written are neat. *)
LEMMA RefreshNeat == \A Z : Neat(RefreshReady, Z)
<1> TAKE Z
<1> DEFINE pending == {t \in Task : state[t] = "pending"}
           satisfied == {t \in pending : \A d \in deps[t] : state[d] = "accepted"}
           partial == {t \in pending \ satisfied : Node[t].allow_partial}
           dead == {t \in pending \ (satisfied \cup partial) :
                       \E d \in deps[t] : state[d] \in DeadState}
           open == satisfied \cup {t \in partial : PartialReady(t)}
           items == {<<Move(t, "ready")>> : t \in open} \cup {<<Move(t, "blocked")>> : t \in dead}
<1>1. RefreshReady = Each(items)
  BY DEF RefreshReady
<1> HIDE DEF open, dead
<1>2. \A t : Lazy(Move(t, "ready"), Z) /\ Lazy(Move(t, "blocked"), Z)
  BY StepOps, LazyOps DEF Moves, Middle, Over
<1>3. \A t : Bare(<<Move(t, "ready")>>, Z) /\ Bare(<<Move(t, "blocked")>>, Z)
  BY <1>2, BareOne
<1>4. \A i \in items : Bare(i, Z)
  BY <1>3
<1> HIDE DEF items
<1>5. QED
  BY <1>1, <1>4, NeatLoop

LEMMA PassNeat ==
    ASSUME NEW Z, Scripting, ~HandleRequest, ~LaunchTask
    PROVE  Neat(todo', Z)
<1> DEFINE e == <<>>
<1>1. Neat(e, Z)
  BY BareNothing
<1>2. \A to : Neat(<<Workflow(to)>>, Z)
  BY StepOps, LazyOps, BareOne, BareNeat
<1>3. CASE Boot
  <2> DEFINE missing == {t \in Task : state[t] = "running" /\ ~Alive(t)}
             items == {<<Move(t, "interrupted"), Release(t)>> : t \in missing}
             end == IF missing = {} THEN <<>> ELSE <<Workflow("interrupted")>>
  <2>1. todo' = e \/ todo' = Then(Each(items), end)
    BY <1>3 DEF Boot, Reconcile, Then
  <2>2. Neat(end, Z)
    BY <1>1, <1>2
  <2>3. "interrupted" \in Over
    BY DEF Over
  <2>4. \A i \in items : Bare(i, Z)
    BY <2>3, BareEnds
  <2> HIDE DEF items, end, e
  <2>5. Neat(Then(Each(items), end), Z)
    BY <2>2, <2>4, NeatLoop, NeatThen
  <2>6. QED
    BY <1>1, <2>1, <2>5
<1>4. CASE Resume \/ SettleIteration
  <2>1. todo' = e \/ \E to : todo' = <<Workflow(to)>>
    BY <1>4 DEF Resume, SettleIteration, SettleWait, SettleAgain, SettleCancelled,
       SettleSucceeded, SettleExhausted, SettleFailed, SettleStalled, SettleRefused, Conclude,
       Settle
  <2> HIDE DEF e
  <2>2. QED
    BY <1>1, <1>2, <2>1
<1>5. CASE RefreshBefore \/ RefreshAfter
  <2>1. todo' = RefreshReady \/ todo' = e
    BY <1>5 DEF RefreshBefore, RefreshAfter, Refresh
  <2> HIDE DEF e
  <2>2. QED
    BY <1>1, <2>1, RefreshNeat
<1>6. CASE Recovered \/ TakeInbox \/ InboxDone \/ ListReady \/ EndLaunch \/ WaitTimeout
  <2>1. todo' = e
    BY <1>6 DEF Recovered, TakeInbox, InboxDone, ListReady, EndLaunch, WaitTimeout, Idle
  <2>2. QED
    BY <1>1, <2>1
<1>7. QED
  BY <1>3, <1>4, <1>5, <1>6 DEF Scripting

LEMMA BareCancel == \A t, stop, Z : Bare(CancelSteps(t, stop), Z)
<1> TAKE t, stop, Z
<1> DEFINE kill == [op |-> "kill", task |-> t]
           one == <<kill>>
           e == <<>>
           off == <<Move(t, "cancelled"), Release(t)>>
<1>1. CancelSteps(t, stop) = Then(one, off) \/ CancelSteps(t, stop) = Then(e, off)
  BY DEF CancelSteps, Then
<1>2. kill.op = "kill"
  OBVIOUS
<1> HIDE DEF kill
<1>3. Bare(one, Z) /\ Bare(e, Z)
  BY <1>2, LazyOps, BareOne, BareNothing
<1>4. Bare(off, Z)
  BY BareEnds DEF Over
<1> HIDE DEF one, e, off
<1>5. QED
  BY <1>1, <1>3, <1>4, BareThen

LEMMA HandleNeat ==
    ASSUME NEW Z, TypeOK, HandleRequest
    PROVE  Neat(todo', Z)
<1>1. PICK r \in batch :
         HandlePause(r) \/ HandleResume(r) \/ HandleCancel(r) \/ HandleRetry(r) \/ HandleDecision(r)
  BY DEF HandleRequest
<1>2. r \in Request
  BY <1>1 DEF TypeOK
<1> DEFINE end == <<[op |-> "processed", request |-> r], [op |-> "archive", request |-> r]>>
           e == <<>>
           again == <<Move(r.task, "retry_wait"), Move(r.task, "ready")>>
           x == [op |-> "decide", request |-> r]
           items == {CancelSteps(t, r.stop_active) :
                        t \in {u \in Task : state[u] \in {"pending", "ready", "retry_wait", "running"}}}
<1>3. end \in Seq(Closings) /\ \A y \in Closings : y.op \notin {"move", "fail", "each", "reserve"}
  BY <1>2, TwoIn DEF Closings
<1>4. \/ todo' = Then(e, end) \/ todo' = Then(again, end)
      \/ \E to : todo' = Then(<<Workflow(to)>>, end)
      \/ todo' = Then(Then(Each(items), <<Workflow("cancelled")>>), end)
      \/ todo' = Then(Then(RefreshReady, <<x>>), end)
  <2> HIDE DEF Closings
  <2>1. CASE HandlePause(r) \/ HandleResume(r)
    BY <2>1 DEF HandlePause, HandleResume, Handle, Then
  <2>2. CASE HandleCancel(r)
    BY <2>2 DEF HandleCancel, Handle, Then
  <2>3. CASE HandleRetry(r)
    BY <2>3 DEF HandleRetry, Handle, Then
  <2>4. CASE HandleDecision(r)
    BY <2>4 DEF HandleDecision, Handle, Then
  <2>5. QED
    BY <1>1, <2>1, <2>2, <2>3, <2>4
<1>5. x.op = "decide"
  OBVIOUS
<1>6. \A i \in items : Bare(i, Z)
  BY BareCancel
<1> HIDE DEF end, x, items
<1>7. Neat(end, Z)
  BY <1>3, BareQuiet, BareNeat
<1>8. Neat(e, Z) /\ Neat(again, Z)
  BY BareNothing, BareAgain, BareNeat
<1>9. Neat(<<x>>, Z) /\ \A to : Neat(<<Workflow(to)>>, Z)
  BY <1>5, StepOps, LazyOps, BareOne, BareNeat
<1> HIDE DEF e, again
<1>10. Neat(Each(items), Z) /\ Neat(RefreshReady, Z)
  BY <1>6, NeatLoop, RefreshNeat
<1>11. QED
  BY <1>4, <1>7, <1>8, <1>9, <1>10, NeatThen

(* launches: what a computed node does, and what is blocked *)
LEMMA ComputedNeat ==
    ASSUME NEW t \in Task, NEW Z, t \in Z,
           \/ LaunchDenied(t) \/ LaunchCondition(t) \/ LaunchCheck(t) \/ LaunchUnusable(t)
           \/ LaunchMap(t) \/ LaunchReduce(t) \/ LaunchRepeat(t) \/ LaunchApproval(t)
           \/ LaunchNoSlot(t) \/ LaunchCached(t)
    PROVE  Neat(todo', Z)
<1> DEFINE e == <<>>
           one == <<StartComputed(t)>>
           x == [op |-> "iterate", root |-> t, n |-> 1]
           Joining(c) == [op |-> "add", task |-> c, on |-> {t}]
           Tied(r) == [op |-> "depend", task |-> r, on |-> Node[t].children]
           adds == {<<Joining(c)>> : c \in Node[t].children}
           ties == {<<Tied(r)>> : r \in Node[t].reduce}
           Blocks(S) == {<<Block(b)>> : b \in S}
           end(to) == <<Move(t, "verifying"), Move(t, to), Release(t)>>
           two == <<StartComputed(t), Move(t, "completed")>>
<1>1. \/ todo' = <<Block(t)>> \/ todo' = e \/ todo' = Then(one, FailSteps(t))
      \/ todo' = Then(one, AcceptComputed(t))
      \/ \E S : todo' = Then(Then(one, AcceptComputed(t)), Each(Blocks(S)))
      \/ todo' = Then(one, <<x>>)
      \/ todo' = Then(Then(Then(one, Each(adds)), Each(ties)), AcceptComputed(t))
      \/ \E to \in {"accepted", "rejected"} : todo' = Then(two, end(to))
  <2>1. CASE \/ LaunchDenied(t) \/ LaunchNoSlot(t) \/ LaunchApproval(t)
             \/ LaunchUnusable(t) \/ LaunchReduce(t) \/ LaunchCached(t)
    BY <2>1 DEF LaunchDenied, LaunchNoSlot, LaunchApproval, LaunchUnusable, LaunchReduce,
       LaunchCached, Launch, Then
  <2>2. CASE LaunchCondition(t)
    <3> DEFINE skipped == IF branch[t] = "on_true" THEN Node[t].on_false ELSE Node[t].on_true
    <3>1. \/ todo' = Then(one, FailSteps(t))
          \/ todo' = Then(Then(one, AcceptComputed(t)), Each(Blocks(skipped)))
      BY <2>2 DEF LaunchCondition, Launch, Then
    <3> HIDE DEF skipped, e, one, Blocks
    <3>2. QED
      BY <3>1
  <2>3. CASE LaunchCheck(t)
    <3>1. PICK to \in {"accepted", "rejected"} :
             todo' = <<StartComputed(t), Move(t, "completed"), Move(t, "verifying"),
                       Move(t, to), Release(t)>>
      BY <2>3 DEF LaunchCheck, Launch
    <3>2. todo' = Then(two, end(to))
      BY <3>1, FiveSplit
    <3> HIDE DEF two, end
    <3>3. QED
      BY <3>2
  <2>4. CASE LaunchRepeat(t)
    BY <2>4 DEF LaunchRepeat, Launch, Iterate, Then
  <2>5. CASE LaunchMap(t)
    BY <2>5 DEF LaunchMap, Launch, Then
  <2>6. QED
    BY <2>1, <2>2, <2>3, <2>4, <2>5
<1>2. x.op = "iterate" /\ \A c : Joining(c).op = "add" /\ Tied(c).op = "depend"
  OBVIOUS
<1> HIDE DEF x, Joining, Tied
<1>3. /\ \A i \in adds : Bare(i, Z)
      /\ \A i \in ties : Bare(i, Z)
  BY <1>2, LazyOps, BareOne
<1>4. \A S : \A i \in Blocks(S) : Bare(i, Z)
  BY StepOps, LazyOps, BareOne
<1>5. Neat(e, Z) /\ Neat(AcceptComputed(t), Z) /\ Neat(FailSteps(t), Z)
  BY BareNothing, BareAccept, BareEnds, BareNeat DEF Over
<1>6. Neat(one, Z) /\ Neat(<<x>>, Z) /\ Neat(<<Block(t)>>, Z)
  BY <1>2, StepOps, LazyOps, BareOne, BareNeat
<1>7. \A to \in {"accepted", "rejected"} : Neat(Then(two, end(to)), Z)
  <2> TAKE to \in {"accepted", "rejected"}
  <2> DEFINE p == <<Move(t, to), Release(t)>>
             q == Lead(Move(t, "verifying"), p)
             r == Lead(Move(t, "completed"), q)
  <2>1. Bare(p, Z) /\ p # <<>> /\ Head(p) = Move(t, to)
    <3>1. to \in Over
      BY DEF Over
    <3>2. Bare(p, Z)
      BY <3>1, BareEnds
    <3>3. p # <<>> /\ Head(p) = Move(t, to)
      OBVIOUS
    <3>4. QED
      BY <3>2, <3>3
  <2>2. p = Lead(Move(t, to), Lead(Release(t), <<>>))
    BY LeadTuple
  <2>3. end(to) = Lead(Move(t, "verifying"), Lead(Move(t, to), Lead(Release(t), <<>>)))
    BY LeadTuple
  <2>4. end(to) = q
    BY <2>2, <2>3
  <2> HIDE DEF p
  <2>5. Bare(q, Z) /\ q # <<>> /\ Head(q) = Move(t, "verifying") /\ Script(q)
    BY <2>1, StepOps, BareMid, LeadScript DEF Moves, Middle, Bare
  <2> HIDE DEF q
  <2>6. Bare(r, Z) /\ Script(r)
    BY <2>5, StepOps, BareMid, LeadScript DEF Moves, Middle
  <2>7. Then(two, q) = Lead(StartComputed(t), r)
    BY <2>5, ThenTwo
  <2> HIDE DEF r, two, end
  <2>8. Lazy(StartComputed(t), Z)
    BY StepOps, LazyOps
  <2>9. Bare(Lead(StartComputed(t), r), Z)
    BY <2>6, <2>8, BareFront DEF Lazy
  <2>10. QED
    BY <2>4, <2>7, <2>9, BareNeat
<1> HIDE DEF adds, ties, Blocks, e, one, two, end
<1>8. Neat(Each(adds), Z) /\ Neat(Each(ties), Z) /\ \A S : Neat(Each(Blocks(S)), Z)
  BY <1>3, <1>4, NeatLoop
<1>9. QED
  BY <1>1, <1>5, <1>6, <1>7, <1>8, NeatThen

LEMMA AgentNeat ==
    ASSUME NEW t \in Task, NEW Z, LaunchAgent(t) \/ LaunchUnprepared(t)
    PROVE  Neat(todo', Z)
<1> DEFINE e == <<>>
           x == [op |-> "worktree", task |-> t]
           y == [op |-> "submit", task |-> t]
           prepare == IF NeedsWorktree(t) THEN <<x>> ELSE e
           last == <<y>>
<1>1. /\ Node[t].kind = "agent"
      /\ \/ todo' = Then(Then(StartSteps(t, t), prepare), last)
         \/ todo' = Then(StartSteps(t, t), FailSteps(t))
  BY DEF LaunchAgent, LaunchUnprepared, Launch, Then
<1>2. x.op = "worktree" /\ y.op = "submit"
  OBVIOUS
<1> HIDE DEF x, y
<1>3. Neat(e, Z) /\ Neat(<<x>>, Z) /\ Neat(last, Z) /\ Neat(FailSteps(t), Z)
  BY <1>2, LazyOps, BareOne, BareNothing, BareEnds, BareNeat DEF Over
<1>4. Neat(prepare, Z)
  BY <1>3
<1> HIDE DEF e, prepare, last
<1>5. Neat(Then(StartSteps(t, t), prepare), Z) /\ Neat(Then(StartSteps(t, t), FailSteps(t)), Z)
  BY <1>1, <1>3, <1>4, NeatStart
<1>6. QED
  BY <1>1, <1>3, <1>5, NeatThen

(* what workers come to, without an exception after complete() *)
LEMMA CollectNeat ==
    ASSUME NEW Z, "unfinished" \notin Outcomes, CollectFuture
    PROVE  Neat(todo', Z)
<1>1. PICK t \in Task :
         \/ CollectCancelled(t) \/ CollectAccepted(t) \/ CollectDenied(t)
         \/ CollectRejected(t) \/ CollectExhausted(t) \/ CollectFailed(t)
  BY DEF CollectFuture, CollectUnfinished
<1> DEFINE e == <<>>
           end(to) == <<Move(t, to), Release(t)>>
           bad(to, f) == <<Fail(t, to, f), Release(t)>>
<1>2. /\ Bare(e, Z) /\ \A f : Bare(<<Update(t, f)>>, Z)
      /\ \A f : Bare(Escalate(t, f), Z) /\ Bare(MaybeRetry(t, f), Z)
  BY StepOps, LazyOps, BareOne, BareNothing, BareRetry
<1>3. \A to \in Over : /\ Bare(end(to), Z) /\ Bare(Then(CompleteSteps(t), end(to)), Z)
                       /\ \A f : /\ Bare(bad(to, f), Z)
                                 /\ Bare(Then(CompleteSteps(t), bad(to, f)), Z)
  BY BareEnds, BareJudged
<1>4. {"accepted", "rejected", "failed", "budget_exhausted"} \subseteq Over
  BY DEF Over
<1>5. CASE CollectAccepted(t) \/ CollectDenied(t)
  <2>1. \E to \in {"accepted", "rejected"} : todo' = Then(CompleteSteps(t), end(to))
    BY <1>5 DEF CollectAccepted, CollectDenied, Collect, Then
  <2> HIDE DEF end
  <2>2. QED
    BY <1>3, <1>4, <2>1, BareNeat
<1>6. CASE CollectCancelled(t)
  <2>1. todo' = <<Update(t, fingerprint[t])>>
    BY <1>6 DEF CollectCancelled, Collect, ClearPid
  <2>2. QED
    BY <1>2, <2>1, BareNeat
<1>7. CASE CollectExhausted(t)
  <2> DEFINE x == ClearPid(t)
             p == end("budget_exhausted")
  <2>1. todo' = <<x, Move(t, "budget_exhausted"), Release(t)>>
    BY <1>7 DEF CollectExhausted, Collect
  <2>2. p = Lead(Move(t, "budget_exhausted"), Lead(Release(t), e))
    BY LeadTuple
  <2>3. todo' = Lead(x, p)
    BY <2>1, <2>2, LeadTuple
  <2>4. Lazy(x, Z) /\ Bare(p, Z)
    BY <1>3, <1>4, StepOps, LazyOps
  <2> HIDE DEF x, p
  <2>5. Bare(Lead(x, p), Z)
    BY <2>4, BareFront DEF Lazy
  <2>6. QED
    BY <2>3, <2>5, BareNeat
<1>8. CASE CollectRejected(t)
  <2>1. PICK f : todo' = Then(Then(Then(CompleteSteps(t), bad("rejected", f)), Escalate(t, f)),
                              MaybeRetry(t, f))
    BY <1>8 DEF CollectRejected, Collect, Then
  <2> HIDE DEF bad
  <2>2. QED
    BY <1>2, <1>3, <1>4, <2>1, BareThen, BareNeat
<1>9. CASE CollectFailed(t)
  <2>1. PICK f :
           \/ todo' = Then(<<Update(t, f)>>, e)
           \/ todo' = Then(<<Update(t, f)>>,
                           Then(Then(bad("failed", f), Escalate(t, f)), MaybeRetry(t, f)))
    BY <1>9 DEF CollectFailed, Collect, Then
  <2> HIDE DEF bad, e
  <2>2. Bare(Then(Then(bad("failed", f), Escalate(t, f)), MaybeRetry(t, f)), Z)
    BY <1>2, <1>3, <1>4, BareThen
  <2>3. QED
    BY <1>2, <2>1, <2>2, BareThen, BareNeat
<1>10. QED
  BY <1>1, <1>5, <1>6, <1>7, <1>8, <1>9

(* the roots of iterations are computed *)
LEMMA RootKind ==
    ASSUME KindInv, todo # <<>>, Head(todo).op \in {"iterate", "drive"}
    PROVE  Head(todo).root \in Unreserving
<1>1. Head(todo) \in AnyStep
  BY HeadKind
<1>2. Head(todo).root \in Task /\ Node[Head(todo).root].kind = "repeat_until"
  BY <1>1 DEF AnyStep, CommonSteps, IterSteps
<1>3. QED
  BY <1>2 DEF Unreserving

LEMMA DriveNeat ==
    ASSUME TypeOK, TodoInv, KindInv, "unfinished" \notin Outcomes, Drives
    PROVE  Neat(todo', Unreserving)
<1> DEFINE t == Head(todo).root
           c == Child
           n == Head(todo).n
           end(to) == <<Move(c, to), Release(c)>>
           Z == Unreserving
           e == <<>>
<1>1. At("drive")
  BY Zenon DEF Drives, DriveAccepted, DriveRejected, DriveExhausted, DriveRaised, DriveUnfinished, Drive
<1>2. Tail(todo) = e /\ t \in Z
  BY <1>1, DriveHead, RootKind DEF At
<1> HIDE DEF t, c, n, Z
<1>3. {"accepted", "rejected", "failed", "budget_exhausted"} \subseteq Over
  BY DEF Over
<1>4. /\ Neat(e, Z) /\ Neat(FailSteps(t), Z) /\ Neat(AcceptComputed(t), Z)
      /\ \A to \in {"accepted", "rejected"} : Neat(Then(CompleteSteps(c), end(to)), Z)
  BY <1>2, <1>3, BareNothing, BareEnds, BareAccept, BareJudged, BareNeat
<1>5. \A m : Neat(Iterate(t, m), Z)
  <2> TAKE m
  <2> DEFINE x == [op |-> "iterate", root |-> t, n |-> m]
  <2>1. x.op = "iterate" /\ Iterate(t, m) = <<x>>
    BY DEF Iterate
  <2> HIDE DEF x
  <2>2. QED
    BY <2>1, LazyOps, BareOne, BareNeat
<1>6. CASE DriveAccepted \/ DriveRejected
  <2>1. PICK to \in {"accepted", "rejected"},
             next \in {AcceptComputed(t), Iterate(t, n + 1), FailSteps(t)} :
           todo' = Then(Then(Then(CompleteSteps(c), end(to)), next), e)
    BY Zenon, <1>2, <1>6 DEF DriveAccepted, DriveRejected, Drive, Then, t, c, n
  <2> HIDE DEF end, e
  <2>2. Neat(next, Z)
    BY <1>4, <1>5
  <2>3. QED
    BY <1>4, <2>1, <2>2, NeatThen DEF Z
<1>7. CASE DriveExhausted
  <2> DEFINE x == ClearPid(c)
             p == end("budget_exhausted")
             three == <<x, Move(c, "budget_exhausted"), Release(c)>>
  <2>1. todo' = Then(Then(three, FailSteps(t)), e)
    BY <1>2, <1>7 DEF DriveExhausted, Drive, Then, t, c
  <2>2. p = Lead(Move(c, "budget_exhausted"), Lead(Release(c), e))
    BY LeadTuple
  <2>3. three = Lead(x, p)
    BY <2>2, LeadTuple
  <2>4. Lazy(x, Z) /\ Bare(p, Z)
    BY <1>3, BareEnds, StepOps, LazyOps
  <2> HIDE DEF x, p
  <2>5. Bare(Lead(x, p), Z)
    BY <2>4, BareFront DEF Lazy
  <2> HIDE DEF three, e
  <2>6. QED
    BY <1>4, <2>1, <2>3, <2>5, NeatThen, BareNeat DEF Z
<1>8. CASE DriveRaised
  <2>1. todo' = Then(FailSteps(t), e)
    BY <1>2, <1>8 DEF DriveRaised, Drive, Then, t
  <2> HIDE DEF e
  <2>2. QED
    BY <1>4, <2>1, NeatThen DEF Z
<1>9. QED
  BY <1>6, <1>7, <1>8 DEF Drives, DriveUnfinished

LEMMA IterateNeat ==
    ASSUME TypeOK, TodoInv, KindInv, Neat(todo, Unreserving), PerformIterate
    PROVE  Neat(todo', Unreserving)
<1>1. todo # <<>> /\ Head(todo).op = "iterate"
  BY Zenon DEF PerformIterate, At
<1>2. PICK t \in Calm, n \in Nat \ {0} : todo = <<Iterating(t, n)>>
  BY <1>1, HeadFacts, EndingShape DEF HeadFact, TypeOK, Launching, Driving
<1>3. t \in Task /\ Head(todo).root = t /\ Head(todo).n = n /\ Tail(todo) = <<>>
  BY <1>2, CalmIsTask DEF Iterating
<1> DEFINE more == n <= Len(Node[t].iterations)
           c == Node[t].iterations[n]
           before == IF n = 1 THEN {} ELSE {Node[t].iterations[n - 1]}
           x == [op |-> "add", task |-> c, on |-> before]
           add == IF state[c] = "absent" THEN <<x>> ELSE <<>>
           open == <<Move(c, "ready")>>
           y == [op |-> "submit", task |-> c]
           z == [op |-> "drive", root |-> t, n |-> n]
           out == <<y, z>>
           e == <<>>
           Z == Unreserving
<1>4. \/ more /\ todo' = Then(Then(Then(Then(add, open), StartSteps(c, t)), out), e)
      \/ todo' = Then(FailSteps(t), e)
  BY Zenon, <1>3 DEF PerformIterate, Then
<1>5. more => Node[c].kind = "agent"
  <2>1. Node[t].iterations \in Seq(Task \ {t})
    BY <1>3, RuntimeAssumption
  <2>2. more => n \in DOMAIN Node[t].iterations
    BY <2>1
  <2>3. QED
    BY <1>3, <2>2, GraphAssumption
<1>6. x.op = "add" /\ y.op = "submit" /\ z.op = "drive"
  OBVIOUS
<1>7. add = <<x>> \/ add = e
  OBVIOUS
<1> HIDE DEF more, c, Z, x, y, z, add
<1>8. Neat(<<x>>, Z) /\ Neat(e, Z) /\ Neat(FailSteps(t), Z)
  BY Zenon, <1>6, LazyOps, BareOne, BareNothing, BareEnds, BareNeat DEF Over
<1>9. Neat(open, Z)
  <2>1. Lazy(Move(c, "ready"), Z)
    BY StepOps, LazyOps DEF Moves, Middle, Over
  <2>2. QED
    BY <2>1, BareOne, BareNeat
<1>10. Neat(out, Z)
  <2>1. out = Lead(y, <<z>>)
    <3>1. <<y, z>> = Lead(y, Lead(z, <<>>)) /\ <<z>> = Lead(z, <<>>)
      BY LeadTuple
    <3>2. QED
      BY <3>1
  <2>2. Bare(<<z>>, Z) /\ Lazy(y, Z)
    BY <1>6, LazyOps, BareOne
  <2>3. Bare(Lead(y, <<z>>), Z)
    BY <2>2, BareFront DEF Lazy
  <2>4. QED
    BY <2>1, <2>3, BareNeat
<1> HIDE DEF open, out
<1>11. Neat(e, Z) /\ more => Neat(StartSteps(c, t), Z)
  <2> HAVE Neat(e, Z) /\ more
  <2>1. Neat(Then(StartSteps(c, t), e), Z)
    BY <1>5, NeatStart
  <2>2. Script(StartSteps(c, t)) /\ Script(e)
    BY EmptyScript, ThenTwo DEF StartSteps
  <2>3. Then(StartSteps(c, t), e) = StartSteps(c, t)
    BY <2>2, ThenScript
  <2>4. QED
    BY <2>1, <2>3
<1> HIDE DEF e
<1>12. QED
  BY <1>4, <1>7, <1>8, <1>9, <1>10, <1>11, NeatThen DEF Z

LEMMA RescriptNeat ==
    ASSUME TypeOK, TodoInv, KindInv, Neat(todo, Unreserving), Rescripting
    PROVE  Neat(todo', Unreserving)
<1> DEFINE x == Head(todo)
           rest == Tail(todo)
           Z == Unreserving
<1>1. todo # <<>>
  BY Zenon DEF Rescripting, PerformReserveRefused, PerformReserveRefusedRepeat, ReserveRefused,
     PerformEach, PerformDecide, PerformIterate, At
<1>2. Neat(rest, Z) /\ Whole(x, Z)
  BY <1>1, NeatTail
<1>3. CASE PerformReserveRefused
  <2>1. todo' = <<>>
    BY <1>3 DEF PerformReserveRefused
  <2>2. QED
    BY <2>1, BareNothing
<1>4. CASE PerformReserveRefusedRepeat
  <2>1. todo' = FailSteps(x.by)
    BY <1>4 DEF PerformReserveRefusedRepeat
  <2>2. QED
    BY <2>1, BareEnds, BareNeat DEF Over
<1>5. CASE PerformEach
  <2>1. x.op = "each"
    BY <1>5 DEF PerformEach, At
  <2>2. PICK i \in x.items : todo' = Then(Then(i, Each(x.items \ {i})), rest)
    BY <1>5 DEF PerformEach, Then
  <2>3. \A j \in x.items : Bare(j, Z)
    BY <1>2, <2>1 DEF Whole
  <2> HIDE DEF x, rest, Z
  <2>4. Neat(i, Z) /\ Neat(Each(x.items \ {i}), Z)
    BY <2>2, <2>3, BareNeat, NeatLoop
  <2>5. QED
    BY <1>2, <2>2, <2>4, NeatThen DEF Z
<1>6. CASE PerformDecide
  <2> DEFINE t == x.request.task
             e == <<>>
             one == <<StartComputed(t)>>
  <2>1. x.op = "decide"
    BY <1>6 DEF PerformDecide, At
  <2>2. x \in AnyStep
    BY <1>1, <2>1, HeadKind
  <2>3. t \in Task /\ Node[t].kind = "approval"
    BY <2>1, <2>2, RuntimeAssumption DEF AnyStep, CommonSteps, IterSteps
  <2>4. t \in Z
    BY <2>3 DEF Unreserving
  <2>5. \/ todo' = Then(e, rest) \/ todo' = Then(Then(one, AcceptComputed(t)), rest)
        \/ todo' = Then(<<Block(t)>>, rest)
    BY Zenon, <1>6 DEF PerformDecide, Then
  <2> HIDE DEF t, rest, Z
  <2>6. Neat(e, Z) /\ Neat(one, Z) /\ Neat(<<Block(t)>>, Z) /\ Neat(AcceptComputed(t), Z)
    BY <2>4, BareNothing, StepOps, LazyOps, BareOne, BareAccept, BareNeat
  <2> HIDE DEF e, one
  <2>7. QED
    BY <1>2, <2>5, <2>6, NeatThen DEF Z
<1>7. QED
  BY <1>3, <1>4, <1>5, <1>6, IterateNeat DEF Rescripting

-----------------------------------------------------------------------------
(* The script on its way is neat; the one exception to the releases is an    *)
(* agent whose result is taken from the cache, which holds no reservation.   *)
AtOnce(t) == [op : {"start"}, task : {t}] \cup
             [op : {"move"}, task : {t}, to : {"completed", "verifying", "accepted"}]
Tidy ==
    \E Z \in SUBSET Task :
       /\ Unreserving \subseteq Z /\ Neat(todo, Z)
       /\ \A t \in Z \ Unreserving : reserved[t] = 0 /\ todo \in Seq(AtOnce(t))

HeadIs(op, t) == todo # <<>> /\ Head(todo).op = op /\ Head(todo).task = t
Launched(t) == HeadIs("launch", t)
(* what a task holds, and the state it is in, between two steps of a script   *)
Owes(t) ==
    /\ reserved[t] > 0 =>
          /\ Node[t].kind = "agent"
          /\ \/ state[t] \in {"running", "completed", "verifying"}
             \/ state[t] \in Over /\ HeadIs("release", t)
             \/ state[t] = "ready" /\ Launched(t)
    /\ state[t] \in Middle => HeadIs("move", t) \/ HeadIs("fail", t)
Owing == \A t \in Task : Owes(t)

LEMMA TidyUnreserving ==
    ASSUME Tidy, todo = <<>> \/ Head(todo).op \notin {"start", "move"}
    PROVE  Neat(todo, Unreserving)
<1>1. PICK Z \in SUBSET Task :
         /\ Unreserving \subseteq Z /\ Neat(todo, Z)
         /\ \A t \in Z \ Unreserving : reserved[t] = 0 /\ todo \in Seq(AtOnce(t))
  BY DEF Tidy
<1>2. CASE todo = <<>>
  BY <1>2, BareNothing
<1>3. ASSUME todo # <<>>, NEW t \in Z \ Unreserving PROVE FALSE
  <2>1. Head(todo) \in AtOnce(t)
    BY <1>1, <1>3
  <2>2. QED
    BY <1>3, <2>1 DEF AtOnce
<1>4. todo # <<>> => Z = Unreserving
  BY <1>1, <1>3
<1>5. QED
  BY <1>1, <1>2, <1>4

LEMMA TidyOf == ASSUME Neat(todo', Unreserving) PROVE Tidy'
<1>1. Unreserving \in SUBSET Task
  BY DEF Unreserving
<1>2. QED
  BY <1>1 DEF Tidy

LEMMA LaunchTidy ==
    ASSUME TypeOK, WorkerInv, Owing, LaunchTask
    PROVE  Tidy'
<1>1. PICK t \in ready :
         \/ LaunchDenied(t) \/ LaunchCondition(t) \/ LaunchCheck(t)
         \/ LaunchUnusable(t) \/ LaunchMap(t) \/ LaunchReduce(t) \/ LaunchRepeat(t)
         \/ LaunchApproval(t)
         \/ LaunchNoSlot(t) \/ LaunchCached(t) \/ LaunchAgent(t) \/ LaunchUnprepared(t)
  BY DEF LaunchTask
<1>2. t \in Task
  BY <1>1 DEF TypeOK
<1>3. CASE LaunchDenied(t) \/ LaunchNoSlot(t)
  <2>1. todo' = <<Block(t)>>
    BY <1>3 DEF LaunchDenied, LaunchNoSlot, Launch
  <2>2. Neat(<<Block(t)>>, Unreserving)
    BY StepOps, LazyOps, BareOne, BareNeat
  <2>3. QED
    BY <2>1, <2>2, TidyOf
<1>4. CASE LaunchAgent(t) \/ LaunchUnprepared(t)
  BY <1>2, <1>4, AgentNeat, TidyOf
<1>5. CASE \/ LaunchCondition(t) \/ LaunchCheck(t) \/ LaunchUnusable(t) \/ LaunchMap(t)
           \/ LaunchReduce(t) \/ LaunchRepeat(t) \/ LaunchApproval(t)
  <2>1. Node[t].kind # "agent"
    BY <1>5 DEF LaunchCondition, LaunchCheck, LaunchUnusable, LaunchMap, LaunchReduce,
       LaunchRepeat, LaunchApproval
  <2>2. t \in Unreserving
    BY <1>2, <2>1 DEF Unreserving
  <2>3. QED
    BY <1>2, <1>5, <2>2, ComputedNeat, TidyOf
<1>6. CASE LaunchCached(t)
  <2> DEFINE Z == Unreserving \cup {t}
  <2>1. t \in Z /\ Z \in SUBSET Task /\ Unreserving \subseteq Z
    BY <1>2 DEF Unreserving
  <2>2. Neat(todo', Z)
    BY <1>2, <1>6, <2>1, ComputedNeat
  <2>3. /\ todo = <<>> /\ reserved' = reserved
        /\ todo' = Then(<<StartComputed(t)>>, AcceptComputed(t))
    BY <1>6 DEF LaunchCached, Launch, Idle, unchangedByMain, storeVars, Then
  <2>4. state[t] \in {"ready", "blocked"}
    BY <1>1, <1>2 DEF WorkerInv, WorkerOf
  <2>5. reserved[t] \in Nat /\ ~(reserved[t] > 0)
    BY <1>2, <2>3, <2>4 DEF Owing, Owes, HeadIs, Launched, Over, TypeOK, StoreTypeOK
  <2>6. todo' \in Seq(AtOnce(t))
    <3> DEFINE S == AtOnce(t)
    <3>1. /\ StartComputed(t) \in S /\ Move(t, "completed") \in S /\ Move(t, "verifying") \in S
          /\ Move(t, "accepted") \in S
      BY DEF AtOnce, StartComputed, Move
    <3> HIDE DEF S
    <3>2. <<StartComputed(t)>> \in Seq(S) /\ AcceptComputed(t) \in Seq(S)
      BY <3>1, OneIn, ThreeIn DEF AcceptComputed
    <3>3. QED
      BY <2>3, <3>2, ConcatIn DEF Then, S
  <2>7. \A u \in Z \ Unreserving : u = t
    OBVIOUS
  <2> HIDE DEF Z
  <2>8. reserved'[t] = 0
    BY <2>3, <2>5
  <2>9. QED
    BY <2>1, <2>2, <2>6, <2>7, <2>8 DEF Tidy
<1>7. QED
  BY <1>1, <1>3, <1>4, <1>5, <1>6

LEMMA TidyWritten ==
    ASSUME TypeOK, TodoInv, WorkerInv, KindInv, "unfinished" \notin Outcomes, Tidy, Owing,
           Writing, ~Crash
    PROVE  Tidy'
<1>1. LoopInv
  BY DEF WorkerInv
<1>2. CASE LaunchTask
  BY <1>2, LaunchTidy
<1>3. CASE HandleRequest
  BY <1>3, HandleNeat, TidyOf
<1>4. CASE Scripting /\ ~HandleRequest /\ ~LaunchTask
  BY <1>4, PassNeat, TidyOf
<1>5. CASE CollectFuture
  BY <1>5, CollectNeat, TidyOf
<1>6. CASE Drives
  BY <1>6, DriveNeat, TidyOf
<1>7. CASE Rescripting
  <2>1. Head(todo).op \notin {"start", "move"}
    BY Zenon, <1>7 DEF Rescripting, PerformReserveRefused, PerformReserveRefusedRepeat, ReserveRefused,
       PerformEach, PerformDecide, PerformIterate, At
  <2>2. QED
    BY <1>7, <2>1, TidyUnreserving, RescriptNeat, TidyOf
<1>8. CASE Close
  <2>1. todo' = <<>>
    BY <1>8 DEF Close, Idle
  <2>2. QED
    BY <2>1, BareNothing, TidyOf
<1>9. QED
  BY <1>2, <1>3, <1>4, <1>5, <1>6, <1>7, <1>8 DEF Writing

\* a step of a script: what the next one has to be
LEMMA TidyPopped ==
    ASSUME TypeOK, Tidy, StepDone(Head(todo))
    PROVE  /\ Tidy'
           /\ \A t : Head(todo).op = "reserve" /\ Head(todo).task = t =>
                 Node[t].kind = "agent" /\ HeadIs("launch", t)'
           /\ \A t : Moves(Head(todo)) /\ Head(todo).to \in Middle /\ Head(todo).task = t =>
                 HeadIs("move", t)' \/ HeadIs("fail", t)'
           /\ \A t : Moves(Head(todo)) /\ Head(todo).to \in Over /\ Head(todo).task = t =>
                 HeadIs("release", t)' \/ t \in Unreserving \/ reserved[t] = 0
<1> DEFINE x == Head(todo)
<1>1. PICK Z \in SUBSET Task :
         /\ Unreserving \subseteq Z /\ Neat(todo, Z)
         /\ \A t \in Z \ Unreserving : reserved[t] = 0 /\ todo \in Seq(AtOnce(t))
  BY DEF Tidy
<1>2. todo # <<>> /\ todo' = Tail(todo)
  BY DEF StepDone
<1>3. /\ Neat(todo', Z) /\ Whole(x, Z)
      /\ Wants(x, Z) => todo' # <<>> /\ Meets(x, Head(todo'))
  BY <1>1, <1>2, NeatTail
<1>4. ASSUME NEW t \in Z \ Unreserving PROVE reserved'[t] = 0 /\ todo' \in Seq(AtOnce(t))
  <2>1. x \in AtOnce(t) /\ todo' \in Seq(AtOnce(t)) /\ reserved[t] = 0
    BY <1>1, <1>2, <1>4
  <2>2. x.task = t /\ x.op \in {"start", "move"}
    BY <2>1 DEF AtOnce
  <2>3. reserved \in [Task -> Nat] /\ t \in Task
    BY <1>1, <1>4 DEF TypeOK, StoreTypeOK
  <2>4. reserved' = reserved \/ reserved' = [reserved EXCEPT ![t] = reserved[t]]
    BY <2>2 DEF StepDone, StoreStep, TransitionTask, TransitionToRunning, storeVars
  <2>5. QED
    BY <2>1, <2>3, <2>4
<1>5. Tidy'
  BY <1>1, <1>3, <1>4 DEF Tidy
<1> HIDE DEF x
<1>6. ASSUME NEW t, x.op = "reserve", x.task = t
      PROVE  Node[t].kind = "agent" /\ HeadIs("launch", t)'
  BY <1>3, <1>6 DEF Whole, Wants, Meets, HeadIs
<1>7. ASSUME NEW t, Moves(x), x.to \in Middle, x.task = t
      PROVE  HeadIs("move", t)' \/ HeadIs("fail", t)'
  BY <1>3, <1>7 DEF Wants, Meets, Moves, HeadIs
<1>8. ASSUME NEW t, Moves(x), x.to \in Over, x.task = t
      PROVE  HeadIs("release", t)' \/ t \in Unreserving \/ reserved[t] = 0
  BY <1>1, <1>3, <1>8 DEF Wants, Meets, HeadIs
<1>9. QED
  BY <1>5, <1>6, <1>7, <1>8 DEF x

LEMMA TidyBeside == ASSUME Tidy, Beside PROVE Tidy'
BY DEF Tidy, Beside

-----------------------------------------------------------------------------
(* What the journal holds.  A reservation's key is a step ahead of the        *)
(* attempts only until the launch, and a key of a release is used once only:  *)
(* the task that released it holds nothing until it is launched again.        *)
Keyed ==
    \A x \in keys :
       IF x.kind = "reserve"
       THEN /\ Node[x.task].kind = "agent"
            /\ \/ x.attempt <= attempt[x.task]
               \/ /\ x.attempt = attempt[x.task] + 1 /\ Launched(x.task)
                  /\ reserved[x.task] = Node[x.task].reserve
       ELSE /\ x.attempt <= attempt[x.task]
            /\ x.attempt = attempt[x.task] => reserved[x.task] = 0 \/ Launched(x.task)
Balanced == budgetReserved = LP!SumOf(reserved, Task)
Leaves == Tidy /\ Owing /\ Keyed /\ Balanced
LeftInv == crashes = 0 => Leaves

\* a task the next step is not about
Quits(t) == (reserved[t] > 0 => Node[t].kind = "agent" /\ state[t] = "running")
            /\ state[t] \notin Middle
LEMMA OwingQuits ==
    ASSUME Owing, NEW t \in Task,
           todo = <<>> \/ Head(todo).op \notin {"move", "fail", "release", "launch"}
              \/ Head(todo).task # t
    PROVE  Quits(t)
BY DEF Owing, Owes, Quits, HeadIs, Launched, Middle

\* the keys, when the next step is not a launch of the task
LEMMA KeyedStrong ==
    ASSUME Keyed, NEW x \in keys, ~Launched(x.task)
    PROVE  /\ x.kind = "reserve" => Node[x.task].kind = "agent"
           /\ x.attempt <= attempt[x.task]
           /\ x.kind # "reserve" /\ x.attempt = attempt[x.task] => reserved[x.task] = 0
BY DEF Keyed

\* steps that leave what is held alone
LEMMA HeldStays ==
    ASSUME StoreTypeOK, Keyed, UNCHANGED <<attempt, reserved, budgetReserved, keys>>,
           todo = <<>> \/ Head(todo).op # "launch" \/ todo' = todo
    PROVE  Keyed'
<1>1. CASE todo' = todo
  BY <1>1 DEF Keyed, Launched, HeadIs
<1>2. CASE todo = <<>> \/ Head(todo).op # "launch"
  <2>1. \A t : ~Launched(t)
    BY <1>2 DEF Launched, HeadIs
  <2>2. QED
    BY <2>1, KeyedStrong DEF Keyed
<1>3. QED
  BY <1>1, <1>2

LEMMA BalancedStays ==
    ASSUME Balanced, UNCHANGED <<reserved, budgetReserved>>
    PROVE  Balanced'
BY DEF Balanced

\* one task's part of the sum changes with the workflow's counter
LEMMA BalancedUpdate ==
    ASSUME StoreTypeOK, StoreTypeOK', Balanced, NEW t \in Task,
           \A u \in Task \ {t} : reserved'[u] = reserved[u],
           budgetReserved' - budgetReserved = reserved'[t] - reserved[t]
    PROVE  Balanced'
<1>1. reserved \in [Task -> Nat] /\ reserved' \in [Task -> Nat]
  BY DEF StoreTypeOK
<1>2. budgetReserved \in Nat /\ budgetReserved' \in Nat /\ reserved[t] \in Nat /\ reserved'[t] \in Nat
  BY DEF StoreTypeOK
<1>3. LP!SumFollows(reserved, reserved', t, Task)
  BY <1>1, TaskAssumption, LedgerConstants, LP!SumUpdate
<1>4. budgetReserved = LP!SumOf(reserved, Task)
  BY DEF Balanced
<1>5. budgetReserved' = LP!SumOf(reserved', Task)
  BY <1>2, <1>3, <1>4 DEF LP!SumFollows
<1>6. QED
  BY <1>5 DEF Balanced

-----------------------------------------------------------------------------
(* One step of a script. *)
LEMMA OthersOwe ==
    ASSUME Owing, NEW u \in Task,
           \/ Head(todo).op \notin {"move", "fail", "release", "launch"}
           \/ Head(todo).task # u,
           reserved'[u] = reserved[u],
           \/ state'[u] = state[u]
           \/ state[u] \in {"pending", "ready", "absent"} /\ state'[u] \in {"blocked", "pending"}
    PROVE  Owes(u)'
<1>1. Quits(u)
  BY OwingQuits
<1>2. reserved'[u] > 0 => Node[u].kind = "agent" /\ state'[u] = "running"
  BY <1>1 DEF Quits
<1>3. state'[u] \notin Middle
  BY <1>1 DEF Quits, Middle
<1>4. QED
  BY <1>2, <1>3 DEF Owes

LEMMA MoveHeld ==
    ASSUME StoreTypeOK, Owing, Keyed, Balanced, todo # <<>>, Moves(Head(todo)),
           NEW t \in Task, Head(todo).task = t, NEW to, TransitionTask(t, to),
           to = "retry_wait" => state[t] \in Over,
           to \in Middle => HeadIs("move", t)' \/ HeadIs("fail", t)',
           to \in Over => HeadIs("release", t)' \/ t \in Unreserving \/ reserved[t] = 0
    PROVE  Owing' /\ Keyed' /\ Balanced'
<1>1. /\ state \in [Task -> TaskState \cup {"absent"}] /\ reserved \in [Task -> Nat]
      /\ state' = [state EXCEPT ![t] = to] /\ CanTransitionTask(state[t], to)
      /\ UNCHANGED <<attempt, reserved, budgetReserved, keys>>
  BY DEF StoreTypeOK, TransitionTask
<1>2. Head(todo).op \notin {"release", "launch"}
  BY DEF Moves
<1>3. Keyed' /\ Balanced'
  BY <1>1, <1>2, HeldStays, BalancedStays
<1>4. \A u \in Task \ {t} : Owes(u)'
  BY <1>1, OthersOwe
<1>5. ASSUME reserved'[t] > 0
      PROVE  /\ Node[t].kind = "agent"
             /\ to \in {"completed", "verifying"} \/ (to \in Over /\ HeadIs("release", t)')
  <2>1. reserved[t] > 0 /\ reserved[t] # 0
    BY <1>1, <1>5
  <2>2. Node[t].kind = "agent" /\ state[t] \in {"running", "completed", "verifying"}
    BY <1>2, <2>1 DEF Owing, Owes, HeadIs, Launched
  <2>3. to \in Over \cup {"completed", "verifying"}
    BY <1>1, <2>2 DEF CanTransitionTask, Over
  <2>4. t \notin Unreserving
    BY <2>2 DEF Unreserving
  <2>5. QED
    BY <2>1, <2>2, <2>3, <2>4
<1>6. Owes(t)'
  BY <1>1, <1>5 DEF Owes
<1>7. QED
  BY <1>3, <1>4, <1>6 DEF Owing

LEMMA StartHeld ==
    ASSUME StoreTypeOK, Owing, Keyed, Balanced, todo # <<>>, Head(todo).op = "start",
           NEW t \in Task, TransitionToRunning(t, reserved[t])
    PROVE  Owing' /\ Keyed' /\ Balanced'
<1>1. /\ state \in [Task -> TaskState \cup {"absent"}] /\ reserved \in [Task -> Nat]
      /\ attempt \in [Task -> Nat] /\ keys \subseteq Key
      /\ state' = [state EXCEPT ![t] = "running"] /\ reserved' = reserved
      /\ attempt' = [attempt EXCEPT ![t] = attempt[t] + 1]
      /\ UNCHANGED <<budgetReserved, keys>>
  BY DEF StoreTypeOK, TransitionToRunning
<1>2. \A u \in Task \ {t} : Owes(u)'
  BY <1>1, OthersOwe
<1>3. Owes(t)'
  BY <1>1, OwingQuits DEF Owes, Quits, Middle
<1>4. \A u : ~Launched(u)
  BY DEF Launched, HeadIs
<1>5. ASSUME NEW x \in keys
      PROVE  /\ x.kind = "reserve" => Node[x.task].kind = "agent"
             /\ x.attempt <= attempt'[x.task]
             /\ x.kind # "reserve" /\ x.attempt = attempt'[x.task] => reserved[x.task] = 0
  <2>1. /\ x.kind = "reserve" => Node[x.task].kind = "agent"
        /\ x.attempt <= attempt[x.task]
        /\ x.kind # "reserve" /\ x.attempt = attempt[x.task] => reserved[x.task] = 0
    BY <1>4, KeyedStrong
  <2>2. x.task \in Task /\ x.attempt \in Nat /\ attempt[x.task] \in Nat
    BY <1>1 DEF Key
  <2>3. attempt'[x.task] = attempt[x.task] \/ attempt'[x.task] = attempt[x.task] + 1
    BY <1>1, <2>2
  <2>4. QED
    BY <2>1, <2>2, <2>3
<1>6. Keyed'
  BY <1>1, <1>5 DEF Keyed
<1>7. QED
  BY <1>1, <1>2, <1>3, <1>6, BalancedStays DEF Owing

LEMMA ReserveHeld ==
    ASSUME StoreTypeOK, StoreTypeOK', Owing, Keyed, Balanced, todo # <<>>,
           Head(todo).op = "reserve", NEW t \in Task, Head(todo).task = t, state[t] = "ready",
           Node[t].kind = "agent", HeadIs("launch", t)',
           ReserveBudget(t, Node[t].reserve, ReserveKey(t, attempt[t] + 1))
    PROVE  Owing' /\ Keyed' /\ Balanced'
<1> DEFINE k == ReserveKey(t, attempt[t] + 1)
           n == Node[t].reserve
<1>1. k.kind = "reserve" /\ k.task = t /\ k.attempt = attempt[t] + 1
  BY DEF ReserveKey
<1>2. /\ state \in [Task -> TaskState \cup {"absent"}] /\ reserved \in [Task -> Nat]
      /\ attempt \in [Task -> Nat] /\ keys \subseteq Key /\ n \in Nat
  BY RuntimeAssumption DEF StoreTypeOK, NodeType
<1>3. \A u : ~Launched(u)
  BY DEF Launched, HeadIs
<1>4. k \notin keys
  <2>1. ASSUME k \in keys PROVE FALSE
    <3>1. k.attempt <= attempt[k.task]
      BY <1>3, <2>1, KeyedStrong
    <3>2. QED
      BY <1>1, <1>2, <3>1
  <2>2. QED
    BY <2>1
<1>5. reserved[t] = 0
  <2>1. reserved[t] \in Nat /\ state[t] = "ready" /\ ~Launched(t)
    BY <1>2, <1>3
  <2>2. ~(reserved[t] > 0)
    BY <2>1 DEF Owing, Owes, Over
  <2>3. QED
    BY <2>1, <2>2
<1> HIDE DEF k, n
<1>6. /\ budgetReserved' = budgetReserved + n /\ keys' = keys \cup {k}
      /\ reserved' = [reserved EXCEPT ![t] = reserved[t] + n] /\ UNCHANGED <<state, attempt>>
  BY <1>4 DEF ReserveBudget, k, n
<1>7. reserved'[t] = n /\ \A u \in Task \ {t} : reserved'[u] = reserved[u]
  BY <1>2, <1>5, <1>6
<1>8. \A u \in Task \ {t} : Owes(u)'
  BY <1>6, <1>7, OthersOwe
<1>9. Owes(t)'
  BY <1>6 DEF Owes, Launched, Middle
<1>10. Keyed'
  <2>1. ASSUME NEW x \in keys
        PROVE  /\ x.kind = "reserve" => Node[x.task].kind = "agent"
               /\ x.attempt <= attempt[x.task]
               /\ x.kind # "reserve" /\ x.attempt = attempt[x.task] /\ x.task # t =>
                     reserved'[x.task] = 0
    <3>1. x.task \in Task
      BY <1>2 DEF Key
    <3>2. QED
      BY <1>3, <1>7, <3>1, KeyedStrong
  <2>2. Launched(t)'
    BY DEF Launched
  <2>3. QED
    BY <1>1, <1>6, <1>7, <2>1, <2>2 DEF Keyed, n
<1>11. Balanced'
  <2>1. budgetReserved' - budgetReserved = reserved'[t] - reserved[t]
    BY <1>2, <1>5, <1>6, <1>7 DEF StoreTypeOK
  <2>2. QED
    BY <1>7, <2>1, BalancedUpdate
<1>12. QED
  BY <1>8, <1>9, <1>10, <1>11 DEF Owing

LEMMA LaunchHeld ==
    ASSUME StoreTypeOK, Owing, Keyed, Balanced, todo # <<>>, Head(todo).op = "launch",
           NEW t \in Task, Head(todo).task = t, ReserveKey(t, attempt[t] + 1) \in keys,
           TransitionToRunning(t, Node[t].reserve)
    PROVE  Owing' /\ Keyed' /\ Balanced'
<1> DEFINE k == ReserveKey(t, attempt[t] + 1)
           n == Node[t].reserve
<1>1. k.kind = "reserve" /\ k.task = t /\ k.attempt = attempt[t] + 1 /\ k \in keys
  BY DEF ReserveKey
<1>2. /\ state \in [Task -> TaskState \cup {"absent"}] /\ reserved \in [Task -> Nat]
      /\ attempt \in [Task -> Nat] /\ keys \subseteq Key
      /\ state' = [state EXCEPT ![t] = "running"] /\ reserved' = [reserved EXCEPT ![t] = n]
      /\ attempt' = [attempt EXCEPT ![t] = attempt[t] + 1]
      /\ UNCHANGED <<budgetReserved, keys>>
  BY DEF StoreTypeOK, TransitionToRunning
<1> HIDE DEF k, n
<1>3. Node[t].kind = "agent" /\ reserved[t] = n
  <2>1. ~(k.attempt <= attempt[k.task])
    BY <1>1, <1>2
  <2>2. Node[k.task].kind = "agent" /\ reserved[k.task] = Node[k.task].reserve
    BY <1>1, <2>1 DEF Keyed
  <2>3. QED
    BY <1>1, <2>2 DEF n
<1>4. reserved' = reserved
  BY <1>2, <1>3
<1>5. \A u \in Task \ {t} : Owes(u)'
  BY <1>2, <1>4, OthersOwe
<1>6. Owes(t)'
  BY <1>2, <1>3 DEF Owes, Middle
<1>7. \A u : u # t => ~Launched(u)
  BY DEF Launched, HeadIs
<1>8. ASSUME NEW x \in keys
      PROVE  /\ x.kind = "reserve" => Node[x.task].kind = "agent"
             /\ x.attempt <= attempt'[x.task]
             /\ x.kind # "reserve" /\ x.attempt = attempt'[x.task] => reserved[x.task] = 0
  <2>1. x.task \in Task /\ x.attempt \in Nat /\ attempt[x.task] \in Nat
    BY <1>2 DEF Key
  <2>2. CASE x.task = t
    <3>1. attempt'[t] = attempt[t] + 1
      BY <1>2
    <3>2. /\ x.kind = "reserve" => Node[t].kind = "agent" /\ x.attempt <= attempt[t] + 1
          /\ x.kind # "reserve" => x.attempt <= attempt[t]
      BY <2>1, <2>2 DEF Keyed
    <3>3. QED
      BY <2>1, <2>2, <3>1, <3>2
  <2>3. CASE x.task # t
    <3>1. attempt'[x.task] = attempt[x.task]
      BY <1>2, <2>1, <2>3
    <3>2. QED
      BY <1>7, <2>3, <3>1, KeyedStrong
  <2>4. QED
    BY <2>2, <2>3
<1>9. Keyed'
  BY <1>2, <1>4, <1>8 DEF Keyed
<1>10. QED
  BY <1>2, <1>4, <1>5, <1>6, <1>9, BalancedStays DEF Owing

LEMMA ReleaseHeld ==
    ASSUME StoreTypeOK, StoreTypeOK', Owing, Keyed, Balanced, todo # <<>>,
           Head(todo).op = "release", NEW t \in Task, Head(todo).task = t, state[t] \in Over,
           reserved[t] = 0 => UNCHANGED storeVars,
           reserved[t] # 0 => ReleaseBudget(t, reserved[t], ReleaseOf(t))
    PROVE  Owing' /\ Keyed' /\ Balanced'
<1> DEFINE k == ReleaseOf(t)
<1>1. k.kind # "reserve" /\ k.task = t /\ k.attempt = attempt[t]
  BY DEF ReleaseOf, RecoveryKey, ReleaseKey
<1>2. /\ state \in [Task -> TaskState \cup {"absent"}] /\ reserved \in [Task -> Nat]
      /\ reserved' \in [Task -> Nat] /\ attempt \in [Task -> Nat] /\ keys \subseteq Key
      /\ budgetReserved \in Nat /\ budgetReserved' \in Nat
  BY DEF StoreTypeOK
<1>3. \A u : ~Launched(u)
  BY DEF Launched, HeadIs
<1>4. k \in keys => reserved[t] = 0
  BY <1>1, <1>3, KeyedStrong
<1> HIDE DEF k
<1>5. /\ UNCHANGED <<state, attempt>> /\ keys' \subseteq keys \cup {k} /\ keys \subseteq keys'
      /\ reserved'[t] = 0 /\ \A u \in Task \ {t} : reserved'[u] = reserved[u]
      /\ budgetReserved' = budgetReserved - reserved[t]
  <2>1. CASE reserved[t] = 0
    BY <1>2, <2>1 DEF storeVars
  <2>2. CASE reserved[t] # 0
    <3>1. k \notin keys /\ ReleaseBudget(t, reserved[t], k)
      BY <1>4, <2>2 DEF k
    <3>2. /\ UNCHANGED <<state, attempt>> /\ keys' = keys \cup {k}
          /\ budgetReserved' = budgetReserved - reserved[t]
          /\ reserved' = [reserved EXCEPT ![t] =
                             IF reserved[t] < reserved[t] THEN reserved[t] - reserved[t] ELSE 0]
      BY <3>1 DEF ReleaseBudget
    <3>3. ~(reserved[t] < reserved[t])
      BY <1>2
    <3>4. QED
      BY <1>2, <3>2, <3>3
  <2>3. QED
    BY <2>1, <2>2
<1>6. \A u \in Task \ {t} : Owes(u)'
  BY <1>5, OthersOwe
<1>7. Owes(t)'
  BY <1>2, <1>5 DEF Owes, Over, Middle
<1>8. ASSUME NEW x \in keys'
      PROVE  /\ x.kind = "reserve" => Node[x.task].kind = "agent"
             /\ x.attempt <= attempt[x.task]
             /\ x.kind # "reserve" /\ x.attempt = attempt[x.task] => reserved'[x.task] = 0
  <2>1. CASE x = k
    BY <1>1, <1>2, <1>5, <2>1
  <2>2. CASE x \in keys
    <3>1. x.task \in Task
      BY <1>2, <2>2 DEF Key
    <3>2. QED
      BY <1>3, <1>5, <2>2, <3>1, KeyedStrong
  <2>3. QED
    BY <1>5, <2>1, <2>2
<1>9. Keyed'
  BY <1>5, <1>8 DEF Keyed
<1>10. Balanced'
  <2>1. budgetReserved' - budgetReserved = reserved'[t] - reserved[t]
    BY <1>2, <1>5
  <2>2. QED
    BY <1>5, <2>1, BalancedUpdate
<1>11. QED
  BY <1>6, <1>7, <1>9, <1>10 DEF Owing

LEMMA OtherHeld ==
    ASSUME StoreTypeOK, Owing, Keyed, Balanced,
           todo = <<>> \/ Head(todo).op \notin {"move", "fail", "release", "launch"},
           UNCHANGED <<attempt, reserved, budgetReserved, keys>>,
           \A u \in Task :
              \/ state'[u] = state[u]
              \/ state[u] \in {"pending", "ready", "absent"} /\ state'[u] \in {"blocked", "pending"}
    PROVE  Owing' /\ Keyed' /\ Balanced'
<1>1. ASSUME NEW u \in Task PROVE Owes(u)'
  <2>1. Quits(u)
    BY OwingQuits
  <2>2. reserved'[u] > 0 => Node[u].kind = "agent" /\ state'[u] = "running"
    BY <2>1 DEF Quits
  <2>3. state'[u] \notin Middle
    BY <2>1 DEF Quits, Middle
  <2>4. QED
    BY <2>2, <2>3 DEF Owes
<1>2. QED
  BY <1>1, HeldStays, BalancedStays DEF Owing

LEMMA HeldPopped ==
    ASSUME TypeOK, StoreTypeOK', KindInv, RunInv, HeadNeeds, Tidy, Owing, Keyed, Balanced,
           StepDone(Head(todo)), Around(Head(todo))
    PROVE  Owing' /\ Keyed' /\ Balanced'
<1> DEFINE x == Head(todo)
<1>1. /\ todo # <<>> /\ Needs(x)
      /\ StoreStep(x) \/ (x.op = "submit" /\ UNCHANGED storeVars)
      /\ x.op \notin {"each", "iterate", "drive", "decide"}
  BY DEF StepDone, HeadNeeds
<1>2. x \in AnyStep /\ StoreTypeOK
  BY <1>1, HeadKind DEF TypeOK
<1>3. x.op \notin {"submit", "workflow", "processed", "archive"} => x.task \in Task
  BY <1>1, <1>2 DEF AnyStep, CommonSteps, IterSteps, Iteration
<1>4. state' = After(x, state)
  BY PoppedState
<1>5. CASE Moves(x)
  <2>1. TransitionTask(x.task, x.to)
    BY <1>1, <1>5 DEF StoreStep, Moves
  <2>2. x.to = "retry_wait" => state[x.task] \in Over
    BY <1>1, <1>2, <1>5 DEF Needs, Moves, AnyStep, CommonSteps, IterSteps
  <2>3. PICK t \in Task : x.task = t
    BY <1>3, <1>5 DEF Moves
  <2>4. PICK to : x.to = to
    OBVIOUS
  <2>5. /\ to \in Middle => HeadIs("move", t)' \/ HeadIs("fail", t)'
        /\ to \in Over => HeadIs("release", t)' \/ t \in Unreserving \/ reserved[t] = 0
    BY <1>5, <2>3, <2>4, TidyPopped
  <2>6. QED
    BY <1>1, <1>2, <1>5, <2>1, <2>2, <2>3, <2>4, <2>5, MoveHeld
<1>6. CASE x.op = "start"
  BY <1>1, <1>2, <1>3, <1>6, StartHeld DEF StoreStep
<1>7. CASE x.op = "reserve"
  <2>1. PICK t \in Task : x.task = t
    BY <1>3, <1>7
  <2>2. Node[t].kind = "agent" /\ HeadIs("launch", t)'
    BY <1>7, <2>1, TidyPopped
  <2>3. state[t] = "ready"
    BY <1>1, <1>7, <2>1 DEF Needs
  <2>4. ReserveBudget(t, Node[t].reserve, ReserveKey(t, attempt[t] + 1))
    BY <1>1, <1>7, <2>1 DEF StoreStep
  <2>5. QED
    BY <1>1, <1>2, <1>7, <2>1, <2>2, <2>3, <2>4, ReserveHeld
<1>8. CASE x.op = "launch"
  <2>1. ReserveKey(x.task, attempt[x.task] + 1) \in keys
    BY <1>1, <1>8 DEF Needs
  <2>2. TransitionToRunning(x.task, Node[x.task].reserve)
    BY <1>1, <1>8 DEF StoreStep
  <2>3. QED
    BY <1>1, <1>2, <1>3, <1>8, <2>1, <2>2, LaunchHeld
<1>9. CASE x.op = "release"
  <2>1. state[x.task] \in Over
    BY <1>1, <1>9 DEF Needs
  <2>2. reserved[x.task] = 0 => UNCHANGED storeVars
    BY <1>1, <1>9 DEF StoreStep
  <2>3. reserved[x.task] # 0 => ReleaseBudget(x.task, reserved[x.task], ReleaseOf(x.task))
    BY <1>9 DEF Around
  <2>4. QED
    BY <1>1, <1>2, <1>3, <1>9, <2>1, <2>2, <2>3, ReleaseHeld
<1>10. CASE x.op \notin {"move", "fail", "start", "reserve", "launch", "release"}
  <2>1. UNCHANGED <<attempt, reserved, budgetReserved, keys>>
    BY <1>1, <1>10 DEF StoreStep, TransitionTask, TransitionWorkflow, AddTask, UpdateDeps,
       storeVars
  <2>2. state \in [Task -> TaskState \cup {"absent"}]
    BY <1>2 DEF StoreTypeOK
  <2>3. \A u \in Task :
           \/ state'[u] = state[u]
           \/ state[u] \in {"pending", "ready", "absent"} /\ state'[u] \in {"blocked", "pending"}
    BY <1>4, <1>10, <2>2 DEF After, Hard
  <2>4. QED
    BY <1>2, <1>10, <2>1, <2>3, OtherHeld
<1>11. QED
  BY <1>5, <1>6, <1>7, <1>8, <1>9, <1>10 DEF Moves

\* a script that is written
LEMMA WritingAtRest ==
    ASSUME LoopInv, Writing, ~Crash, todo # <<>>
    PROVE  Head(todo).op \in {"each", "decide", "reserve", "iterate", "drive"}
<1>1. CASE Scripting
  BY Zenon, <1>1 DEF Scripting, Boot, Reconcile, LoopInv, Recovered, Resume, RefreshBefore,
     RefreshAfter, Refresh, TakeInbox, HandleRequest, HandlePause, HandleResume, HandleCancel,
     HandleRetry, HandleDecision, Handle, InboxDone, ListReady, LaunchTask, LaunchDenied,
     LaunchCondition, LaunchCheck, LaunchUnusable, LaunchMap, LaunchReduce, LaunchRepeat,
     LaunchApproval, LaunchNoSlot, LaunchCached, LaunchAgent, LaunchUnprepared, Launch, EndLaunch,
     SettleIteration, SettleWait, SettleAgain, SettleCancelled, SettleSucceeded, SettleExhausted,
     SettleFailed, SettleStalled, SettleRefused, Conclude, Settle, WaitTimeout, Idle
<1>2. CASE CollectFuture \/ Close
  BY <1>2 DEF CollectFuture, CollectCancelled, CollectAccepted, CollectDenied, CollectRejected,
     CollectExhausted, CollectFailed, CollectUnfinished, Collect, Close, Idle
<1>3. CASE Drives \/ Rescripting
  BY Zenon, <1>3 DEF Drives, DriveAccepted, DriveRejected, DriveExhausted, DriveRaised,
     DriveUnfinished, Drive, Rescripting, PerformReserveRefused, PerformReserveRefusedRepeat,
     ReserveRefused, PerformEach, PerformDecide, PerformIterate, At
<1>4. QED
  BY <1>1, <1>2, <1>3 DEF Writing

LEMMA HeldWritten ==
    ASSUME TypeOK, TodoInv, LoopInv, KindInv, Owing, Keyed, Balanced, Writing, ~Crash
    PROVE  Owing' /\ Keyed' /\ Balanced'
<1>1. UNCHANGED <<storeVars, fieldVars>>
  <2>1. Rest(AnyStep)
    BY KindRest
  <2>2. QED
    BY <2>1, ScriptWrites
<1>2. UNCHANGED <<attempt, reserved, budgetReserved, keys, state>>
  BY <1>1 DEF storeVars
<1>3. todo = <<>> \/ Head(todo).op \notin {"move", "fail", "release", "launch"}
  BY WritingAtRest
<1>4. StoreTypeOK
  BY DEF TypeOK
<1>5. QED
  BY <1>2, <1>3, <1>4, OtherHeld

LEMMA HeldBeside ==
    ASSUME TypeOK, Owing, Keyed, Balanced, Beside
    PROVE  Owing' /\ Keyed' /\ Balanced'
<1>1. /\ todo' = todo /\ UNCHANGED <<state, attempt, reserved, budgetReserved, keys>> /\ StoreTypeOK
  BY DEF Beside, TypeOK
<1>2. Owing'
  BY <1>1 DEF Owing, Owes, HeadIs, Launched
<1>3. QED
  BY <1>1, <1>2, HeldStays, BalancedStays

\* the time before the first crash
LEMMA NeverCrashed ==
    ASSUME TypeOK, LoopInv, [Next]_vars, crashes' = 0
    PROVE  crashes = 0 /\ ~Crash
<1>1. crashes \in Nat
  BY DEF LoopInv
<1>2. ~Crash
  BY <1>1 DEF Crash
<1>3. Scripting => crashes' = crashes
  BY ScriptingShape DEF envVars
<1>4. CollectFuture \/ Close => crashes' = crashes
  BY Zenon DEF CollectFuture, CollectCancelled, CollectAccepted, CollectDenied, CollectRejected,
     CollectExhausted, CollectFailed, CollectUnfinished, Collect, Close, unchangedByMain,
     envVars
<1>5. Drives \/ Rescripting => crashes' = crashes
  BY Zenon DEF Drives, DriveAccepted, DriveRejected, DriveExhausted, DriveRaised,
     DriveUnfinished, Drive, Rescripting, PerformReserveRefused, PerformReserveRefusedRepeat,
     PerformEach, PerformDecide, PerformIterate, unchangedByMain, envVars
<1>6. QED
  BY <1>2, <1>3, <1>4, <1>5, NextAround DEF Writing, Around, Aside

LEMMA LeftKept ==
    ASSUME RuntimeInv, RuntimeInv', KindInv, RunInv, LedgerInv, "unfinished" \notin Outcomes,
           LeftInv, [Next]_vars
    PROVE  LeftInv'
<1>1. /\ TypeOK /\ TodoInv /\ WorkerInv /\ LoopInv /\ HeadNeeds /\ StoreTypeOK'
  BY DEF RuntimeInv, WorkerInv, LedgerInv, TypeOK
<1>2. SUFFICES ASSUME crashes' = 0 PROVE Leaves'
  BY DEF LeftInv
<1>3. crashes = 0 /\ ~Crash
  BY <1>1, <1>2, NeverCrashed
<1>4. Leaves
  BY <1>3 DEF LeftInv
<1>5. CASE Writing
  BY <1>1, <1>3, <1>4, <1>5, TidyWritten, HeldWritten DEF Leaves
<1>6. CASE StepDone(Head(todo)) /\ Around(Head(todo))
  BY <1>1, <1>4, <1>6, TidyPopped, HeldPopped DEF Leaves
<1>7. CASE Beside
  BY <1>1, <1>4, <1>7, TidyBeside, HeldBeside DEF Leaves
<1>8. QED
  BY <1>1, <1>5, <1>6, <1>7, NextAround

-----------------------------------------------------------------------------
(* A run that ends by itself leaves no task running; only the exception of a  *)
(* refused reservation does.                                                 *)
Rested ==
    pc \in {"closing", "off"} /\ error # "budget" => \A t \in Task : state[t] # "running"
RestInv == crashes = 0 => Rested

LEMMA RestKept ==
    ASSUME RuntimeInv, KindInv, RunInv, WatchInv, RestInv, [Next]_vars
    PROVE  RestInv'
<1>1. TypeOK /\ TodoInv /\ LoopInv
  BY DEF RuntimeInv, WorkerInv
<1>2. SUFFICES ASSUME crashes' = 0, pc' \in {"closing", "off"}, error' # "budget"
               PROVE  \A t \in Task : state'[t] # "running"
  BY DEF RestInv, Rested
<1>3. crashes = 0 /\ ~Crash
  BY <1>1, <1>2, NeverCrashed
<1>4. Watches /\ Rested
  BY <1>3 DEF WatchInv, RestInv
<1>5. ASSUME UNCHANGED <<pc, error, state>> PROVE \A t \in Task : state'[t] # "running"
  BY <1>2, <1>4, <1>5 DEF Rested
<1>6. CASE Scripting
  <2>1. ~Boot
    BY <1>2 DEF Boot, Reconcile
  <2>2. \A t \in Task : state[t] # "running"
    BY <1>1, <1>2, <1>4, <1>6, <2>1, ScriptingCloses
  <2>3. state' = state
    BY <1>1, <1>6, ScriptingShape DEF storeVars
  <2>4. QED
    BY <2>2, <2>3
<1>7. CASE CollectFuture
  BY <1>2, <1>7 DEF CollectFuture, CollectCancelled, CollectAccepted, CollectDenied,
     CollectRejected, CollectExhausted, CollectFailed, CollectUnfinished, Collect
<1>8. CASE Drives \/ Rescripting
  <2>1. UNCHANGED <<pc, error, state>>
    BY Zenon, <1>2, <1>8 DEF Drives, DriveAccepted, DriveRejected, DriveExhausted, DriveRaised,
       DriveUnfinished, Drive, Rescripting, PerformReserveRefused, PerformReserveRefusedRepeat,
       PerformEach, PerformDecide, PerformIterate, unchangedByMain, loopVars, storeVars
  <2>2. QED
    BY <1>5, <2>1
<1>9. CASE Close
  <2>1. pc = "closing" /\ UNCHANGED <<error, state>>
    BY <1>9 DEF Close, Idle, unchangedByMain, storeVars
  <2>2. QED
    BY <1>2, <1>4, <2>1 DEF Rested
<1>10. CASE StepDone(Head(todo)) /\ Around(Head(todo))
  <2>1. todo # <<>> /\ UNCHANGED <<pc, error>>
    BY <1>10 DEF StepDone, Around
  <2>2. todo \in Seq(WorkflowOnly)
    BY <1>1, <1>2, <1>4, <2>1 DEF Watches, WorkflowOnly, LoopInv
  <2>3. Head(todo).op = "workflow"
    BY <2>1, <2>2, RecordsWorkflow
  <2>4. state' = state
    BY <1>1, <1>10, <2>3, PoppedState DEF After, Hard
  <2>5. QED
    BY <1>5, <2>1, <2>4
<1>11. CASE Beside /\ Aside
  BY <1>5, <1>11 DEF Beside, Aside
<1>12. QED
  BY <1>1, <1>3, <1>6, <1>7, <1>8, <1>9, <1>10, <1>11, NextAround DEF Writing

LEMMA NothingHeld ==
    ASSUME TypeOK, Watches, Leaves, Rested, error # "budget"
    PROVE  NothingLeftBehind
<1> SUFFICES ASSUME todo = <<>>
             PROVE  /\ \A t \in Task : reserved[t] > 0 => state[t] = "running" /\ t \in Running
                    /\ \A t \in Task : state[t] \notin Middle
                    /\ budgetReserved = FoldFunctionOnSet(+, 0, reserved, Task)
  BY Zenon DEF NothingLeftBehind, AtRest, Middle
<1>1. \A t \in Task : Quits(t)
  BY OwingQuits DEF Leaves
<1>2. ASSUME NEW t \in Task, reserved[t] > 0 PROVE state[t] = "running" /\ t \in Running
  <2>1. state[t] = "running"
    BY <1>1, <1>2 DEF Quits
  <2>2. pc \notin {"closing", "off"}
    BY <2>1 DEF Rested
  <2>3. future[t] # "none"
    BY <2>1, <2>2, CaresNothing DEF Watches, Unwatched
  <2>4. QED
    BY <2>1, <2>3 DEF Running
<1>3. budgetReserved = FoldFunctionOnSet(+, 0, reserved, Task)
  BY DEF Leaves, Balanced, LP!SumOf, FoldFunctionOnSet, MapThenFoldSet, LP!FoldFunctionOnSet,
     LP!MapThenFoldSet
<1>4. QED
  BY Zenon, <1>1, <1>2, <1>3 DEF Quits

LEMMA LeftStarts == Init => LeftInv /\ RestInv
<1> SUFFICES ASSUME Init PROVE Leaves /\ Rested
  BY DEF LeftInv, RestInv
<1>1. /\ todo = <<>> /\ keys = {} /\ budgetReserved = 0 /\ reserved = [t \in Task |-> 0]
      /\ state = [t \in Task |-> IF t \in Static THEN "pending" ELSE "absent"]
  BY DEF Init, StoreInit
<1>2. Unreserving \in SUBSET Task
  BY DEF Unreserving
<1>3. Neat(todo, Unreserving)
  BY <1>1, BareNothing
<1>4. Tidy
  BY <1>2, <1>3 DEF Tidy
<1>5. Owing
  BY <1>1 DEF Owing, Owes, Middle
<1>6. Keyed
  BY <1>1 DEF Keyed
<1>7. LP!SumOf(reserved, Task) = 0
  BY <1>1, TaskAssumption, LedgerConstants, LP!SumOfZeros
<1>8. QED
  BY <1>1, <1>4, <1>5, <1>6, <1>7 DEF Leaves, Balanced, Rested

(* Without a crash nothing is left behind (run, its handlers and the releases *)
(* of scheduler.py): whenever no handler is under way, a task holds a         *)
(* reservation only while a worker runs it, the workflow's counter is the     *)
(* sum of what the tasks hold, and no task rests in a state between two        *)
(* verdicts, whatever requests, failures, retries and cancellations came       *)
(* before.  Three exceptions leave running tasks to the recovery of the next   *)
(* run, or for good: a run that a refused reservation ended, a worker of a     *)
(* repeat node that raises, and an exception after complete().                 *)
THEOREM NothingStaysBehind ==
    ChildrenReport /\ "unfinished" \notin Outcomes
        => (Spec => [](error # "budget" => NothingLeftBehind))
<1> SUFFICES ASSUME ChildrenReport, "unfinished" \notin Outcomes
             PROVE  Spec => [](error # "budget" => NothingLeftBehind)
  OBVIOUS
<1>1. /\ RuntimeInv /\ RuntimeInv' /\ KindInv /\ RunInv /\ LedgerInv /\ WatchInv
      /\ LeftInv /\ RestInv /\ [Next]_vars
      => (LeftInv /\ RestInv)'
  BY LeftKept, RestKept
<1>2. RuntimeInv /\ WatchInv /\ LeftInv /\ RestInv
      => (error # "budget" => NothingLeftBehind)
  BY Zenon, NothingHeld DEF RuntimeInv, WatchInv, LeftInv, RestInv, NothingLeftBehind
<1>3. QED
  BY <1>1, <1>2, LeftStarts, RuntimeInvAlways, KindAlways, RunsAlways, LedgerAlways, WatchAlways,
     PTL DEF Spec

=============================================================================
