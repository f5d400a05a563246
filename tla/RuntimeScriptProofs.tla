------------------------- MODULE RuntimeScriptProofs -------------------------
(***************************************************************************)
(* Proofs about what the handlers of the main loop (module Runtime) decide  *)
(* when they write their scripts: the limit on terra tasks, retries that    *)
(* make no progress, the branches of a condition, the fan-in of a map, and  *)
(* the iterations of a repeat node.                                         *)
(***************************************************************************)
EXTENDS RuntimeLedgerProofs, FiniteSetTheorems

-----------------------------------------------------------------------------
(* The steps handlers write, whatever the state, and those of a task u that  *)
(* depend on it: to retry it, to launch it, or to start it as an iteration.  *)
(* The results of conditions, maps and repeat nodes are accepted by three    *)
(* actions only.                                                             *)
Settling == {"condition", "map", "repeat_until"}
CommonSteps ==
    [op : {"move"}, task : Task,
     to : TaskState \ {"retry_wait", "accepted", "running", "pending", "paused"}]
        \cup [op : {"move"}, task : {t \in Task : Node[t].kind \notin Settling}, to : {"accepted"}]
        \cup [op : {"fail"}, task : Task, to : {"rejected", "failed"}, fp : Fingerprint]
        \cup [op : {"update"}, task : Task, fp : Fingerprint]
        \cup [op : {"release", "block", "kill", "worktree"}, task : Task]
        \cup [op : {"reserve"}, task : Task, by : Task]
        \cup [op : {"start"}, task : {t \in Task : Node[t].kind # "agent"}]
        \cup [op : {"add"}, task : Task \ Iteration, on : SUBSET Task]
        \cup [op : {"depend"}, task : Task, on : SUBSET Task]
        \cup [op : {"workflow"}, to : WorkflowState]
        \cup [op : {"processed", "archive"}, request : Request]
        \cup [op : {"decide"}, request : {r \in Request : Node[r.task].kind = "approval"}]
IterSteps ==
    [op : {"iterate", "drive"}, root : {t \in Task : Node[t].kind = "repeat_until"},
     n : Nat \ {0}]
AnyStep ==
    CommonSteps \cup IterSteps
        \cup [op : {"move"}, task : Task, to : {"retry_wait", "accepted"}]
        \cup [op : {"update"}, task : Task, fp : {NoFingerprint}]
        \cup [op : {"start", "launch", "escalate"}, task : Task]
        \cup [op : {"add"}, task : Iteration, on : SUBSET Task]
        \cup [op : {"submit"}, task : {t \in Task : Node[t].kind = "agent"}]

(* The steps of S, and loops, which are over sequences of common steps.      *)
Loops(S) == S \cup [op : {"each"}, items : SUBSET Seq(CommonSteps)]

MayEscalate(u) ==
    u \notin terra /\ Node[u].kind = "agent" /\ Node[u].escalate_on # {} /\ SlotAvailable(u)
MayRetry(u) ==
    \/ \E f \in Fingerprint : fingerprint[u] # f
    \/ \E r \in Request : r.type = "retry" /\ r.task = u
MayLaunch(u) == Node[u].kind = "agent" /\ HasSlot(u)

RetryOwn(u) ==
    {x \in [op : {"escalate"}, task : {u}] : MayEscalate(u)}
        \cup {x \in [op : {"move"}, task : {u}, to : {"retry_wait"}] : MayRetry(u)}
LaunchOwn(u) ==
    {x \in [op : {"start", "launch"}, task : {u}] : MayLaunch(u)}
        \cup {x \in [op : {"submit"}, task : {u}] : Node[u].kind = "agent"}
        \cup {x \in [op : {"iterate"}, root : {u}, n : {1}] : LaunchRepeat(u)}
ChildOwn(c) ==
    {x \in [op : {"launch"}, task : {c}] : state[c] \in {"absent", "pending"}}
        \cup [op : {"submit"}, task : {c}] \cup [op : {"add"}, task : {c}, on : SUBSET Task]

Settles(t) ==
    \/ LaunchCondition(t) \/ LaunchMap(t)
    \/ DriveAccepted /\ Head(todo).root = t
SettleSteps == [op : {"move"}, task : {t \in Task : Settles(t)}, to : {"accepted"}]

(* only agents have workers *)
KindInv ==
    /\ todo \in Seq(Loops(AnyStep))
    /\ \A t \in Task : future[t] # "none" => Node[t].kind = "agent"

(* What is written: after an attempt or for a request to retry, by other      *)
(* handlers, in the middle of a script, and by the iterations of a repeat     *)
(* node.                                                                     *)
Retrying == CollectFuture \/ \E r \in Request : r.type = "retry" /\ HandleRetry(r)
Wrote(s, G) ==
    \/ /\ Retrying /\ todo = <<>>
       /\ \E u \in Task : s \in Seq(Loops(CommonSteps \cup RetryOwn(u)))
    \/ todo = <<>> /\ \E u \in Task : s \in Seq(Loops(CommonSteps \cup LaunchOwn(u) \cup SettleSteps))
    \/ s \in Seq(Loops(G \cup CommonSteps))
    \/ /\ todo # <<>> /\ Head(todo).op \in {"iterate", "drive"}
       /\ \E c \in Iteration :
             s \in Seq(Loops(CommonSteps \cup ChildOwn(c) \cup IterSteps \cup SettleSteps))
Writes(G) ==
    \E s : /\ Wrote(s, G)
           /\ \/ todo' = s
              \/ /\ todo = <<>> \/ Head(todo).op \in {"iterate", "drive"}
                 /\ \E u \in Task : todo' = <<ClearPid(u)>> \o s

(* what is left of a script after its next step *)
Rest(G) ==
    todo # <<>> =>
        /\ Tail(todo) \in Seq(Loops(G))
        /\ Head(todo).op = "each" => Head(todo).items \subseteq Seq(CommonSteps)

-----------------------------------------------------------------------------
(* Sequences of steps and of loops.                                          *)
LEMMA LoopsGrow ==
    ASSUME NEW S, NEW T, S \subseteq T
    PROVE  /\ Loops(S) \subseteq Loops(T)
           /\ Seq(Loops(S)) \subseteq Seq(Loops(T))
           /\ Seq(S) \subseteq Seq(Loops(T))
           /\ S \subseteq Loops(T)
<1>1. Seq(S) \subseteq Seq(T)
  BY SeqGrows
<1>2. Loops(S) \subseteq Loops(T) /\ S \subseteq Loops(T)
  BY <1>1 DEF Loops
<1>3. QED
  BY <1>2, SeqGrows

LEMMA EachIn ==
    ASSUME NEW S, NEW items, items \subseteq Seq(CommonSteps)
    PROVE  Each(items) \in Seq(Loops(S))
<1>1. [op |-> "each", items |-> items] \in Loops(S)
  BY DEF Loops
<1> DEFINE x == [op |-> "each", items |-> items]
<1> HIDE DEF x
<1>2. x \in Loops(S) => <<x>> \in Seq(Loops(S))
  BY OneIn
<1>3. QED
  BY <1>1, <1>2, EmptyIn DEF Each, x

-----------------------------------------------------------------------------
(* The pieces scripts are made of.                                           *)
LEMMA CommonIn ==
    ASSUME NEW t \in Task
    PROVE  /\ \A to \in TaskState \ {"retry_wait", "accepted", "running", "pending", "paused"} :
                 Move(t, to) \in CommonSteps
           /\ Node[t].kind \notin Settling => Move(t, "accepted") \in CommonSteps
           /\ \A f \in Fingerprint : Update(t, f) \in CommonSteps
           /\ \A to \in {"rejected", "failed"}, f \in Fingerprint : Fail(t, to, f) \in CommonSteps
           /\ Release(t) \in CommonSteps /\ Block(t) \in CommonSteps
           /\ [op |-> "kill", task |-> t] \in CommonSteps
           /\ [op |-> "worktree", task |-> t] \in CommonSteps
           /\ Node[t].kind # "agent" => StartComputed(t) \in CommonSteps
           /\ \A by \in Task : [op |-> "reserve", task |-> t, by |-> by] \in CommonSteps
           /\ \A on \in SUBSET Task :
                 /\ t \notin Iteration => [op |-> "add", task |-> t, on |-> on] \in CommonSteps
                 /\ [op |-> "depend", task |-> t, on |-> on] \in CommonSteps
           /\ Node[t].kind = "repeat_until" => \A n \in Nat \ {0} :
                                   /\ [op |-> "iterate", root |-> t, n |-> n] \in IterSteps
                                   /\ [op |-> "drive", root |-> t, n |-> n] \in IterSteps
<1>1. /\ \A to \in TaskState \ {"retry_wait", "accepted", "running", "pending", "paused"} :
            Move(t, to) \in CommonSteps
      /\ Node[t].kind \notin Settling => Move(t, "accepted") \in CommonSteps
  BY DEF CommonSteps, Move
<1>2. /\ \A f \in Fingerprint : Update(t, f) \in CommonSteps
      /\ \A to \in {"rejected", "failed"}, f \in Fingerprint : Fail(t, to, f) \in CommonSteps
  BY DEF CommonSteps, Update, Fail
<1>3. /\ Release(t) \in CommonSteps /\ Block(t) \in CommonSteps
      /\ [op |-> "kill", task |-> t] \in CommonSteps
      /\ [op |-> "worktree", task |-> t] \in CommonSteps
  BY DEF CommonSteps, Release, Block
<1>4. /\ Node[t].kind # "agent" => StartComputed(t) \in CommonSteps
      /\ \A by \in Task : [op |-> "reserve", task |-> t, by |-> by] \in CommonSteps
  BY DEF CommonSteps, StartComputed
<1>5. \A on \in SUBSET Task :
         /\ t \notin Iteration => [op |-> "add", task |-> t, on |-> on] \in CommonSteps
         /\ [op |-> "depend", task |-> t, on |-> on] \in CommonSteps
  BY DEF CommonSteps
<1>6. Node[t].kind = "repeat_until" =>
         \A n \in Nat \ {0} : /\ [op |-> "iterate", root |-> t, n |-> n] \in IterSteps
                              /\ [op |-> "drive", root |-> t, n |-> n] \in IterSteps
  BY DEF IterSteps
<1>7. QED
  BY <1>1, <1>2, <1>3, <1>4, <1>5, <1>6

LEMMA ControlIn ==
    /\ \A to \in WorkflowState : Workflow(to) \in CommonSteps
    /\ \A r \in Request : /\ [op |-> "processed", request |-> r] \in CommonSteps
                          /\ [op |-> "archive", request |-> r] \in CommonSteps
                          /\ Node[r.task].kind = "approval"
                                => [op |-> "decide", request |-> r] \in CommonSteps
BY DEF CommonSteps, Workflow

LEMMA OwnIn ==
    ASSUME NEW t \in Task
    PROVE  /\ MayLaunch(t) => /\ StartComputed(t) \in LaunchOwn(t)
                              /\ [op |-> "launch", task |-> t] \in LaunchOwn(t)
                              /\ [op |-> "submit", task |-> t] \in LaunchOwn(t)
           /\ LaunchRepeat(t) => [op |-> "iterate", root |-> t, n |-> 1] \in LaunchOwn(t)
           /\ MayEscalate(t) => [op |-> "escalate", task |-> t] \in RetryOwn(t)
           /\ MayRetry(t) => Move(t, "retry_wait") \in RetryOwn(t)
           /\ state[t] \in {"absent", "pending"} => [op |-> "launch", task |-> t] \in ChildOwn(t)
           /\ [op |-> "submit", task |-> t] \in ChildOwn(t)
           /\ \A on \in SUBSET Task : [op |-> "add", task |-> t, on |-> on] \in ChildOwn(t)
BY DEF LaunchOwn, RetryOwn, ChildOwn, MayLaunch, StartComputed, Move

LEMMA PieceIn ==
    ASSUME NEW S, CommonSteps \subseteq S, NEW t \in Task
    PROVE  /\ FailSteps(t) \in Seq(S)
           /\ <<Move(t, "rejected"), Release(t)>> \in Seq(S)
           /\ <<Move(t, "completed"), Move(t, "verifying")>> \in Seq(S)
           /\ <<Move(t, "budget_exhausted"), Release(t)>> \in Seq(S)
           /\ Move(t, "accepted") \in S => /\ AcceptComputed(t) \in Seq(S)
                                           /\ <<Move(t, "accepted"), Release(t)>> \in Seq(S)
           /\ \A to \in {"rejected", "failed"}, f \in Fingerprint :
                 <<Fail(t, to, f), Release(t)>> \in Seq(S)
<1>1. /\ Move(t, "completed") \in S /\ Move(t, "verifying") \in S /\ Move(t, "failed") \in S
      /\ Move(t, "rejected") \in S /\ Move(t, "budget_exhausted") \in S /\ Release(t) \in S
      /\ \A to \in {"rejected", "failed"}, f \in Fingerprint : Fail(t, to, f) \in S
  BY CommonIn DEF TaskState
<1>2. /\ FailSteps(t) \in Seq(S) /\ <<Move(t, "rejected"), Release(t)>> \in Seq(S)
      /\ <<Move(t, "completed"), Move(t, "verifying")>> \in Seq(S)
      /\ <<Move(t, "budget_exhausted"), Release(t)>> \in Seq(S)
  BY <1>1, TwoIn DEF FailSteps
<1>3. ASSUME Move(t, "accepted") \in S
      PROVE  /\ AcceptComputed(t) \in Seq(S)
             /\ <<Move(t, "accepted"), Release(t)>> \in Seq(S)
  BY <1>1, <1>3, TwoIn, ThreeIn DEF AcceptComputed
<1>4. ASSUME NEW to \in {"rejected", "failed"}, NEW f \in Fingerprint
      PROVE  <<Fail(t, to, f), Release(t)>> \in Seq(S)
  BY <1>1, <1>4, TwoIn
<1>5. QED
  BY <1>2, <1>3, <1>4

(* what completes a task, with its first step apart *)
LEMMA CompleteIs ==
    ASSUME NEW t
    PROVE  /\ CompleteSteps(t) = <<ClearPid(t)>> \o <<Move(t, "completed"), Move(t, "verifying")>>
           /\ <<ClearPid(t), Move(t, "budget_exhausted"), Release(t)>>
                 = <<ClearPid(t)>> \o <<Move(t, "budget_exhausted"), Release(t)>>
<1>1. ASSUME NEW x, NEW y, NEW z
      PROVE  <<x, y, z>> = <<x>> \o <<y, z>>
  <2> DEFINE S == {x, y, z}
  <2>1. <<x>> \o <<y, z>> \in Seq(S) /\ <<x, y, z>> \in Seq(S)
    OBVIOUS
  <2>2. Len(<<x>> \o <<y, z>>) = 3 /\ Len(<<x, y, z>>) = 3
    OBVIOUS
  <2>3. \A i \in 1..3 : (<<x>> \o <<y, z>>)[i] = <<x, y, z>>[i]
    OBVIOUS
  <2>4. QED
    BY <2>1, <2>2, <2>3, SeqEqual
<1>2. QED
  BY <1>1 DEF CompleteSteps

-----------------------------------------------------------------------------
(* The scripts of the handlers that find none.                               *)
LEMMA WritesGrow ==
    ASSUME NEW G
    PROVE  /\ \A s \in Seq(Loops(CommonSteps)) : todo' = s => Writes(G)
           /\ \A s \in Seq(CommonSteps) : todo' = s => Writes(G)
           /\ \A u \in Task : \A s \in Seq(CommonSteps \cup RetryOwn(u)) :
                 Retrying /\ todo = <<>> /\ (todo' = s \/ \E t \in Task : todo' = <<ClearPid(t)>> \o s)
                    => Writes(G)
           /\ \A u \in Task : \A s \in Seq(CommonSteps \cup LaunchOwn(u)) :
                 todo = <<>> /\ todo' = s => Writes(G)
           /\ \A u \in Task : \A s \in Seq(Loops(CommonSteps \cup SettleSteps)) :
                 todo = <<>> /\ todo' = s => Writes(G)
<1>1. /\ Seq(Loops(CommonSteps)) \subseteq Seq(Loops(G \cup CommonSteps))
      /\ Seq(CommonSteps) \subseteq Seq(Loops(G \cup CommonSteps))
  BY LoopsGrow
<1>2. \A u \in Task : /\ Seq(CommonSteps \cup RetryOwn(u))
                            \subseteq Seq(Loops(CommonSteps \cup RetryOwn(u)))
                      /\ Seq(CommonSteps \cup LaunchOwn(u))
                            \subseteq Seq(Loops(CommonSteps \cup LaunchOwn(u) \cup SettleSteps))
                      /\ Seq(Loops(CommonSteps \cup SettleSteps))
                            \subseteq Seq(Loops(CommonSteps \cup LaunchOwn(u) \cup SettleSteps))
  BY LoopsGrow
<1>3. ASSUME NEW s \in Seq(Loops(CommonSteps)) \cup Seq(CommonSteps), todo' = s PROVE Writes(G)
  BY <1>1, <1>3 DEF Writes, Wrote
<1>4. ASSUME NEW u \in Task, NEW s \in Seq(CommonSteps \cup RetryOwn(u)), Retrying, todo = <<>>,
             todo' = s \/ \E t \in Task : todo' = <<ClearPid(t)>> \o s
      PROVE  Writes(G)
  BY <1>2, <1>4 DEF Writes, Wrote
<1>5. ASSUME NEW u \in Task, todo = <<>>,
             NEW s \in Seq(CommonSteps \cup LaunchOwn(u)) \cup Seq(Loops(CommonSteps \cup SettleSteps)),
             todo' = s
      PROVE  Writes(G)
  BY <1>2, <1>5 DEF Writes, Wrote
<1>6. QED
  BY <1>3, <1>4, <1>5

LEMMA RefreshCommon == RefreshReady \in Seq(Loops(CommonSteps))
<1>1. \A t \in Task : <<Move(t, "ready")>> \in Seq(CommonSteps)
                      /\ <<Move(t, "blocked")>> \in Seq(CommonSteps)
  BY CommonIn, OneIn DEF TaskState
<1>2. QED
  BY <1>1, EachIn DEF RefreshReady

LEMMA PassWrites ==
    ASSUME TypeOK, NEW G,
           \/ Boot \/ Recovered \/ Resume \/ RefreshBefore \/ RefreshAfter \/ TakeInbox
           \/ InboxDone \/ ListReady \/ EndLaunch \/ SettleIteration \/ WaitTimeout
    PROVE  Writes(G)
<1>1. CASE \/ Recovered \/ TakeInbox \/ InboxDone \/ ListReady \/ EndLaunch \/ WaitTimeout
  <2>1. todo' = <<>>
    BY <1>1 DEF Recovered, TakeInbox, InboxDone, ListReady, EndLaunch, WaitTimeout, Idle
  <2>2. QED
    BY <2>1, EmptyIn, WritesGrow
<1>2. CASE Boot
  <2> DEFINE missing == {t \in Task : state[t] = "running" /\ ~Alive(t)}
             each == Each({<<Move(t, "interrupted"), Release(t)>> : t \in missing})
             last == IF missing = {} THEN <<>> ELSE <<Workflow("interrupted")>>
  <2>1. todo' = each \o last \/ todo' = <<>>
    BY <1>2 DEF Boot, Reconcile
  <2>2. \A t \in Task : <<Move(t, "interrupted"), Release(t)>> \in Seq(CommonSteps)
    BY CommonIn, TwoIn DEF TaskState
  <2>3. each \in Seq(Loops(CommonSteps))
    BY <2>2, EachIn
  <2>4. <<Workflow("interrupted")>> \in Seq(CommonSteps)
    BY ControlIn, OneIn DEF WorkflowState
  <2>5. last \in Seq(Loops(CommonSteps))
    BY <2>4, LoopsGrow, EmptyIn
  <2> HIDE DEF each, last
  <2>6. QED
    BY <2>1, <2>3, <2>5, ConcatIn, EmptyIn, WritesGrow
<1>3. CASE Resume
  <2>1. <<Workflow("running")>> \in Seq(CommonSteps) /\ <<>> \in Seq(CommonSteps)
    BY ControlIn, OneIn, EmptyIn DEF WorkflowState
  <2>2. QED
    BY <1>3, <2>1, WritesGrow DEF Resume
<1>4. CASE RefreshBefore \/ RefreshAfter
  BY <1>4, RefreshCommon, EmptyIn, WritesGrow DEF RefreshBefore, RefreshAfter, Refresh
<1>5. CASE SettleIteration
  <2>1. \A to \in WorkflowState : <<Workflow(to)>> \in Seq(CommonSteps)
    BY ControlIn, OneIn
  <2>2. todo' = <<>> \/ \E to \in WorkflowState : todo' = <<Workflow(to)>>
    BY <1>5 DEF SettleIteration, SettleWait, SettleAgain, SettleCancelled, SettleSucceeded,
         SettleExhausted, SettleFailed, SettleStalled, SettleRefused, Conclude, Settle, WorkflowState
  <2>3. QED
    BY <2>1, <2>2, EmptyIn, WritesGrow
<1>6. QED
  BY <1>1, <1>2, <1>3, <1>4, <1>5

LEMMA HandleWrites ==
    ASSUME TypeOK, NEW G, HandleRequest
    PROVE  Writes(G)
<1>1. PICK r \in batch : HandlePause(r) \/ HandleResume(r) \/ HandleCancel(r)
                           \/ HandleRetry(r) \/ HandleDecision(r)
  BY DEF HandleRequest
<1>2. r \in Request /\ r.task \in Task
  BY <1>1, RuntimeAssumption DEF TypeOK
<1> DEFINE end == <<[op |-> "processed", request |-> r], [op |-> "archive", request |-> r]>>
           Own == CommonSteps \cup RetryOwn(r.task)
<1>3. end \in Seq(CommonSteps) /\ end \in Seq(Own)
  BY <1>2, ControlIn, TwoIn
<1>4. ASSUME NEW steps, Handle(r, steps),
             steps \in Seq(Loops(CommonSteps)) \/ (Retrying /\ steps \in Seq(Own))
      PROVE  Writes(G)
  <2>1. todo' = steps \o end /\ todo = <<>>
    BY <1>4 DEF Handle, Idle
  <2> HIDE DEF end
  <2>2. CASE steps \in Seq(Loops(CommonSteps))
    <3>1. steps \o end \in Seq(Loops(CommonSteps))
      BY <1>3, <2>2, LoopsGrow, ConcatIn
    <3>2. QED
      BY <2>1, <3>1, WritesGrow
  <2>3. CASE Retrying /\ steps \in Seq(Own)
    <3>1. steps \o end \in Seq(Own)
      BY <1>3, <2>3, ConcatIn
    <3>2. QED
      BY <1>2, <2>1, <2>3, <3>1, WritesGrow
  <2>4. QED
    BY <1>4, <2>2, <2>3
<1>5. <<>> \in Seq(Loops(CommonSteps))
  BY EmptyIn
<1>6. CASE HandlePause(r) \/ HandleResume(r)
  <2>1. /\ <<Workflow("paused")>> \in Seq(CommonSteps)
        /\ <<Workflow("running")>> \in Seq(CommonSteps)
    BY ControlIn, OneIn DEF WorkflowState
  <2>2. QED
    BY <1>4, <1>5, <1>6, <2>1, LoopsGrow DEF HandlePause, HandleResume
<1>7. CASE HandleCancel(r)
  <2> DEFINE active == {t \in Task : state[t] \in {"pending", "ready", "retry_wait", "running"}}
             each == Each({CancelSteps(t, r.stop_active) : t \in active})
             last == <<Workflow("cancelled")>>
  <2>1. ASSUME NEW t \in Task PROVE CancelSteps(t, r.stop_active) \in Seq(CommonSteps)
    <3>1. /\ <<Move(t, "cancelled"), Release(t)>> \in Seq(CommonSteps)
          /\ <<[op |-> "kill", task |-> t]>> \in Seq(CommonSteps)
      BY CommonIn, OneIn, TwoIn DEF TaskState
    <3>2. QED
      BY <3>1, EmptyIn, ConcatIn DEF CancelSteps
  <2>2. each \in Seq(Loops(CommonSteps))
    BY <2>1, EachIn
  <2>3. last \in Seq(Loops(CommonSteps))
    BY ControlIn, OneIn, LoopsGrow DEF WorkflowState
  <2> HIDE DEF each, last
  <2>4. each \o last \in Seq(Loops(CommonSteps))
    BY <2>2, <2>3, ConcatIn
  <2>5. QED
    BY <1>4, <1>5, <1>7, <2>4 DEF HandleCancel, each, last
<1>8. CASE HandleRetry(r)
  <2>1. MayRetry(r.task) /\ Retrying
    BY <1>2, <1>8 DEF HandleRetry, MayRetry, Retrying
  <2>2. <<Move(r.task, "retry_wait"), Move(r.task, "ready")>> \in Seq(Own)
    BY <1>2, <2>1, CommonIn, OwnIn, TwoIn DEF TaskState
  <2>3. QED
    BY <1>4, <1>5, <1>8, <2>1, <2>2 DEF HandleRetry
<1>9. CASE HandleDecision(r)
  <2> DEFINE x == [op |-> "decide", request |-> r]
             last == <<x>>
  <2>1. ASSUME Node[r.task].kind = "approval" PROVE last \in Seq(Loops(CommonSteps))
    <3>1. x \in CommonSteps
      BY <1>2, <2>1, ControlIn
    <3> HIDE DEF x
    <3>2. last \in Seq(CommonSteps)
      BY <3>1, OneIn
    <3>3. QED
      BY <3>2, LoopsGrow
  <2> HIDE DEF last
  <2>2. Node[r.task].kind = "approval" => RefreshReady \o last \in Seq(Loops(CommonSteps))
    BY <2>1, RefreshCommon, ConcatIn
  <2>3. QED
    BY <1>4, <1>5, <1>9, <2>2 DEF HandleDecision, last, x
<1>10. QED
  BY <1>1, <1>6, <1>7, <1>8, <1>9

LEMMA LaunchWrites ==
    ASSUME TypeOK, NEW G, LaunchTask
    PROVE  Writes(G)
<1>1. PICK t \in ready :
         \/ LaunchDenied(t) \/ LaunchCondition(t) \/ LaunchCheck(t)
         \/ LaunchUnusable(t) \/ LaunchMap(t) \/ LaunchReduce(t) \/ LaunchRepeat(t)
         \/ LaunchApproval(t)
         \/ LaunchNoSlot(t) \/ LaunchCached(t) \/ LaunchAgent(t) \/ LaunchUnprepared(t)
  BY DEF LaunchTask
<1> DEFINE Own == CommonSteps \cup LaunchOwn(t)
           Result == CommonSteps \cup SettleSteps
           one == <<StartComputed(t)>>
<1>2. t \in Task /\ CommonSteps \subseteq Own /\ CommonSteps \subseteq Result
  BY <1>1 DEF TypeOK
<1>3. ASSUME NEW computed, NEW steps, Launch(t, computed, steps),
             \/ steps \in Seq(CommonSteps) \/ steps \in Seq(Own)
             \/ steps \in Seq(Loops(Result))
      PROVE  Writes(G)
  <2>1. todo = <<>> /\ todo' = steps
    BY <1>3 DEF Launch, Idle
  <2>2. QED
    BY <1>2, <1>3, <2>1, WritesGrow
<1>4. /\ Node[t].kind # "agent" => one \in Seq(CommonSteps)
      /\ MayLaunch(t) => one \in Seq(Own)
  BY <1>2, CommonIn, OwnIn, OneIn
<1>5. FailSteps(t) \in Seq(CommonSteps) /\ FailSteps(t) \in Seq(Own)
  BY <1>2, PieceIn
<1>6. Node[t].kind \notin Settling => /\ AcceptComputed(t) \in Seq(CommonSteps)
                                      /\ AcceptComputed(t) \in Seq(Own)
  BY <1>2, CommonIn, PieceIn
<1>7. CASE LaunchDenied(t) \/ LaunchNoSlot(t)
  <2>1. <<Block(t)>> \in Seq(CommonSteps)
    BY <1>2, CommonIn, OneIn
  <2>2. QED
    BY <1>3, <1>7, <2>1 DEF LaunchDenied, LaunchNoSlot
<1>8. CASE LaunchCondition(t)
  <2> DEFINE skipped == IF branch[t] = "on_true" THEN Node[t].on_false ELSE Node[t].on_true
             rest == Each({<<Block(b)>> : b \in skipped})
  <2>1. Node[t].kind = "condition" /\ skipped \subseteq Task
    BY <1>2, <1>8, RuntimeAssumption DEF LaunchCondition, NodeType
  <2>2. one \o FailSteps(t) \in Seq(CommonSteps)
    BY <1>4, <1>5, <2>1, ConcatIn
  <2>3. Move(t, "accepted") \in Result
    BY <1>2, <1>8 DEF SettleSteps, Settles, Move
  <2>4. AcceptComputed(t) \in Seq(Result) /\ one \in Seq(Result)
    BY <1>2, <1>4, <2>1, <2>3, PieceIn, SeqGrows
  <2>5. \A b \in skipped : <<Block(b)>> \in Seq(CommonSteps)
    BY <1>2, <2>1, CommonIn, OneIn
  <2>6. rest \in Seq(Loops(Result))
    BY <2>5, EachIn
  <2> HIDE DEF one, rest, Result
  <2>7. one \o AcceptComputed(t) \in Seq(Loops(Result))
    BY <2>4, ConcatIn, LoopsGrow
  <2>8. one \o AcceptComputed(t) \o rest \in Seq(Loops(Result))
    BY <2>6, <2>7, ConcatIn
  <2>9. \E steps : Launch(t, TRUE, steps) /\ (steps = one \o FailSteps(t)
                                               \/ steps = one \o AcceptComputed(t) \o rest)
    BY <1>8 DEF LaunchCondition, one, rest
  <2>10. QED
    BY <1>3, <2>2, <2>8, <2>9
<1>9. CASE LaunchCheck(t)
  <2>1. Node[t].kind \notin Settling /\ Node[t].kind # "agent"
    BY <1>9 DEF LaunchCheck, Settling
  <2>2. PICK verdict \in {"accepted", "rejected"} :
          Launch(t, TRUE, <<StartComputed(t), Move(t, "completed"), Move(t, "verifying"),
                            Move(t, verdict), Release(t)>>)
    BY <1>9 DEF LaunchCheck
  <2>3. /\ StartComputed(t) \in CommonSteps /\ Move(t, "completed") \in CommonSteps
        /\ Move(t, "verifying") \in CommonSteps /\ Move(t, verdict) \in CommonSteps
        /\ Release(t) \in CommonSteps
    BY <1>2, <2>1, CommonIn DEF TaskState
  <2>4. \A S : \A v, w, x, y, z \in S : <<v, w, x, y, z>> \in Seq(S)
    OBVIOUS
  <2>5. QED
    BY <1>3, <2>2, <2>3, <2>4
<1>10. CASE LaunchUnusable(t)
  <2>1. Node[t].kind # "agent"
    BY <1>10 DEF LaunchUnusable
  <2> HIDE DEF one
  <2>2. one \o FailSteps(t) \in Seq(CommonSteps)
    BY <1>4, <1>5, <2>1, ConcatIn
  <2>3. QED
    BY <1>3, <1>10, <2>2 DEF LaunchUnusable, one
<1>11. CASE LaunchMap(t)
  <2> DEFINE add == Each({<<[op |-> "add", task |-> c, on |-> {t}]>> : c \in Node[t].children})
             depend == Each({<<[op |-> "depend", task |-> r, on |-> Node[t].children]>> :
                                r \in Node[t].reduce})
  <2>1. /\ Node[t].kind = "map" /\ Node[t].children \subseteq Task /\ Node[t].reduce \subseteq Task
    BY <1>2, <1>11, RuntimeAssumption DEF LaunchMap, NodeType
  <2>2. Move(t, "accepted") \in Result
    BY <1>2, <1>11 DEF SettleSteps, Settles, Move
  <2>3. AcceptComputed(t) \in Seq(Result) /\ one \in Seq(Result)
    BY <1>2, <1>4, <2>1, <2>2, PieceIn, SeqGrows
  <2>4. add \in Seq(Loops(Result)) /\ depend \in Seq(Loops(Result))
    <3>1. \A c \in Node[t].children : <<[op |-> "add", task |-> c, on |-> {t}]>> \in Seq(CommonSteps)
      <4>1. \A c \in Node[t].children : c \notin Iteration
        BY <1>2, GraphAssumption DEF Iteration
      <4>2. QED
        BY <1>2, <2>1, <4>1, CommonIn, OneIn
    <3>2. \A r \in Node[t].reduce :
            <<[op |-> "depend", task |-> r, on |-> Node[t].children]>> \in Seq(CommonSteps)
      BY <1>2, <2>1, CommonIn, OneIn
    <3>3. QED
      BY <3>1, <3>2, EachIn
  <2> HIDE DEF one, add, depend, Result
  <2>5. one \o add \o depend \o AcceptComputed(t) \in Seq(Loops(Result))
    BY <2>3, <2>4, ConcatIn, LoopsGrow
  <2>6. Launch(t, TRUE, one \o add \o depend \o AcceptComputed(t))
    BY <1>11 DEF LaunchMap, one, add, depend
  <2>7. QED
    BY <1>3, <2>5, <2>6
<1>12. CASE LaunchReduce(t)
  <2>1. Node[t].kind \notin Settling /\ Node[t].kind # "agent"
    BY <1>12 DEF LaunchReduce, Settling
  <2> HIDE DEF one
  <2>2. one \o FailSteps(t) \in Seq(CommonSteps) /\ one \o AcceptComputed(t) \in Seq(CommonSteps)
    BY <1>4, <1>5, <1>6, <2>1, ConcatIn
  <2>3. QED
    BY <1>3, <1>12, <2>2 DEF LaunchReduce, one
<1>13. CASE LaunchRepeat(t)
  <2>1. Node[t].kind # "agent" /\ Node[t].kind = "repeat_until"
    BY <1>13 DEF LaunchRepeat
  <2>2. Iterate(t, 1) \in Seq(Own)
    BY <1>2, <1>13, OwnIn, OneIn DEF Iterate
  <2> HIDE DEF one
  <2>3. one \o FailSteps(t) \in Seq(Own) /\ one \o Iterate(t, 1) \in Seq(Own)
    BY <1>2, <1>4, <1>5, <2>1, <2>2, ConcatIn, SeqGrows
  <2>4. QED
    BY <1>3, <1>13, <2>3, EmptyIn DEF LaunchRepeat, one
<1>14. CASE LaunchApproval(t)
  BY <1>3, <1>14, EmptyIn DEF LaunchApproval
<1>15. CASE LaunchCached(t)
  <2>1. Node[t].kind \notin Settling /\ MayLaunch(t)
    BY <1>15 DEF LaunchCached, Settling, MayLaunch
  <2> HIDE DEF one
  <2>2. one \o AcceptComputed(t) \in Seq(Own)
    BY <1>4, <1>6, <2>1, ConcatIn
  <2>3. QED
    BY <1>3, <1>15, <2>2 DEF LaunchCached, one
<1>16. CASE LaunchAgent(t) \/ LaunchUnprepared(t)
  <2> DEFINE prepare == IF NeedsWorktree(t) THEN <<[op |-> "worktree", task |-> t]>> ELSE <<>>
             last == <<[op |-> "submit", task |-> t]>>
  <2>1. MayLaunch(t)
    BY <1>16 DEF LaunchAgent, LaunchUnprepared, MayLaunch
  <2>2. [op |-> "reserve", task |-> t, by |-> t] \in Own /\ [op |-> "launch", task |-> t] \in Own
    BY <1>2, <2>1, CommonIn, OwnIn
  <2>3. StartSteps(t, t) \in Seq(Own)
    BY <2>2, TwoIn DEF StartSteps
  <2>4. prepare \in Seq(Own) /\ last \in Seq(Own)
    BY <1>2, <2>1, CommonIn, OwnIn, OneIn, EmptyIn
  <2> HIDE DEF prepare, last, Own
  <2>5. /\ StartSteps(t, t) \o prepare \o last \in Seq(Own)
        /\ StartSteps(t, t) \o FailSteps(t) \in Seq(Own)
    BY <1>5, <2>3, <2>4, ConcatIn
  <2>6. QED
    BY <1>3, <1>16, <2>5 DEF LaunchAgent, LaunchUnprepared, prepare, last
<1>17. QED
  BY <1>1, <1>7, <1>8, <1>9, <1>10, <1>11, <1>12, <1>13, <1>14, <1>15, <1>16

-----------------------------------------------------------------------------
(* The scripts written in the middle of one.                                 *)
LEMMA HeadKind ==
    ASSUME KindInv, todo # <<>>
    PROVE  /\ Head(todo) \in Loops(AnyStep)
           /\ Head(todo).op # "each" => Head(todo) \in AnyStep
           /\ Tail(todo) \in Seq(Loops(AnyStep))
<1>1. Head(todo) \in Loops(AnyStep) /\ Tail(todo) \in Seq(Loops(AnyStep))
  BY DEF KindInv
<1>2. QED
  BY <1>1 DEF Loops

LEMMA EachWrites ==
    ASSUME KindInv, NEW G, Rest(G), PerformEach
    PROVE  Writes(G)
<1>1. PICK item \in Head(todo).items :
         todo' = item \o Each(Head(todo).items \ {item}) \o Tail(todo)
  BY DEF PerformEach
<1>2. /\ Tail(todo) \in Seq(Loops(G)) /\ Head(todo).items \subseteq Seq(CommonSteps)
  BY DEF PerformEach, At, Rest
<1> DEFINE others == Each(Head(todo).items \ {item})
           tail == Tail(todo)
<1>3. others \in Seq(Loops(G \cup CommonSteps))
  BY <1>2, EachIn
<1>4. /\ item \in Seq(Loops(G \cup CommonSteps))
      /\ tail \in Seq(Loops(G \cup CommonSteps))
  BY <1>1, <1>2, LoopsGrow
<1> HIDE DEF others, tail
<1>5. item \o others \o tail \in Seq(Loops(G \cup CommonSteps))
  BY <1>3, <1>4, ConcatIn
<1>6. QED
  BY <1>1, <1>5 DEF Writes, Wrote, others, tail

LEMMA DecideWrites ==
    ASSUME KindInv, NEW G, Rest(G), PerformDecide
    PROVE  Writes(G)
<1> DEFINE r == Head(todo).request
           tail == Tail(todo)
           answer == IF state[r.task] # "ready" THEN <<>>
                     ELSE IF r.type = "approve"
                     THEN <<StartComputed(r.task)>> \o AcceptComputed(r.task)
                     ELSE <<Block(r.task)>>
           one == <<StartComputed(r.task)>>
<1>1. /\ todo # <<>> /\ Head(todo).op = "decide" /\ todo' = answer \o tail
      /\ tail \in Seq(Loops(G))
  BY DEF PerformDecide, At, Rest
<1>2. r \in Request /\ r.task \in Task /\ Node[r.task].kind = "approval"
  <2>1. Head(todo) \in AnyStep
    BY <1>1, HeadKind
  <2>2. r \in Request /\ Node[r.task].kind = "approval"
    BY <1>1, <2>1 DEF AnyStep, CommonSteps, IterSteps
  <2>3. QED
    BY <2>2, RuntimeAssumption
<1>3. answer \in Seq(CommonSteps)
  <2>1. one \in Seq(CommonSteps) /\ <<Block(r.task)>> \in Seq(CommonSteps)
    BY <1>2, CommonIn, OneIn
  <2>2. AcceptComputed(r.task) \in Seq(CommonSteps)
    <3>1. Move(r.task, "accepted") \in CommonSteps
      BY <1>2, CommonIn DEF Settling
    <3>2. QED
      BY <1>2, <3>1, PieceIn
  <2> HIDE DEF one
  <2>3. one \o AcceptComputed(r.task) \in Seq(CommonSteps)
    BY <2>1, <2>2, ConcatIn
  <2>4. QED
    BY <2>1, <2>3, EmptyIn DEF one
<1> HIDE DEF answer, tail
<1>4. answer \o tail \in Seq(Loops(G \cup CommonSteps))
  <2>1. answer \in Seq(Loops(G \cup CommonSteps)) /\ tail \in Seq(Loops(G \cup CommonSteps))
    BY <1>1, <1>3, LoopsGrow
  <2>2. QED
    BY <2>1, ConcatIn
<1>5. QED
  BY <1>1, <1>4 DEF Writes, Wrote

LEMMA RefusedWrites ==
    ASSUME KindInv, NEW G, PerformReserveRefused \/ PerformReserveRefusedRepeat
    PROVE  Writes(G)
<1>1. CASE PerformReserveRefused
  <2>1. todo' = <<>>
    BY <1>1 DEF PerformReserveRefused
  <2>2. QED
    BY <2>1, EmptyIn, WritesGrow
<1>2. CASE PerformReserveRefusedRepeat
  <2>1. /\ todo # <<>> /\ Head(todo).op = "reserve" /\ todo' = FailSteps(Head(todo).by)
    BY <1>2 DEF PerformReserveRefusedRepeat, ReserveRefused, At
  <2>2. Head(todo) \in AnyStep
    BY <2>1, HeadKind
  <2>3. Head(todo).by \in Task
    BY <2>1, <2>2 DEF AnyStep, CommonSteps, IterSteps
  <2>4. FailSteps(Head(todo).by) \in Seq(CommonSteps)
    BY <2>3, PieceIn
  <2>5. QED
    BY <2>1, <2>4, WritesGrow
<1>3. QED
  BY <1>1, <1>2

LEMMA IterateWrites ==
    ASSUME TypeOK, TodoInv, KindInv, NEW G, PerformIterate
    PROVE  Writes(G)
<1>1. todo # <<>> /\ Head(todo).op = "iterate"
  BY Zenon DEF PerformIterate, At
<1>2. PICK t \in Calm, n \in Nat \ {0} : todo = <<Iterating(t, n)>>
  BY <1>1, HeadFacts, EndingShape DEF HeadFact, TypeOK, Launching, Driving
<1>3. t \in Task /\ Head(todo).root = t /\ Head(todo).n = n /\ Tail(todo) = <<>>
  BY <1>2, CalmIsTask DEF Iterating
<1>0. Node[t].kind = "repeat_until"
  <2>1. Head(todo) \in AnyStep
    BY <1>1, HeadKind
  <2>2. QED
    BY <1>1, <1>3, <2>1 DEF AnyStep, CommonSteps, IterSteps
<1> DEFINE more == n <= Len(Node[t].iterations)
           child == Node[t].iterations[n]
           before == IF n = 1 THEN {} ELSE {Node[t].iterations[n - 1]}
           add == IF state[child] = "absent"
                  THEN <<[op |-> "add", task |-> child, on |-> before]>> ELSE <<>>
           open == <<Move(child, "ready")>>
           out == <<[op |-> "submit", task |-> child], [op |-> "drive", root |-> t, n |-> n]>>
           go == add \o open \o StartSteps(child, t) \o out
           Own == CommonSteps \cup ChildOwn(child) \cup IterSteps \cup SettleSteps
<1>4. todo' = (IF more /\ state[child] \in {"absent", "pending"} THEN go ELSE FailSteps(t)) \o <<>>
  BY Zenon, <1>3 DEF PerformIterate
<1>5. FailSteps(t) \o <<>> \in Seq(CommonSteps)
  BY <1>3, PieceIn, EmptyIn, ConcatIn
<1>6. ASSUME more, state[child] \in {"absent", "pending"}
      PROVE  Writes(G)
  <2>1. n \in DOMAIN Node[t].iterations /\ child \in Task /\ before \subseteq Task
    <3>1. Node[t].iterations \in Seq(Task)
      BY <1>3, RuntimeAssumption DEF NodeType
    <3>2. QED
      BY <1>6, <3>1
  <2>2. child \in Iteration
    BY <1>3, <2>1 DEF Iteration
  <2>3. /\ [op |-> "add", task |-> child, on |-> before] \in Own
        /\ Move(child, "ready") \in Own
        /\ [op |-> "reserve", task |-> child, by |-> t] \in Own
        /\ [op |-> "launch", task |-> child] \in Own
        /\ [op |-> "submit", task |-> child] \in Own
        /\ [op |-> "drive", root |-> t, n |-> n] \in Own
    BY <1>0, <1>3, <1>6, <2>1, CommonIn, OwnIn DEF TaskState
  <2> HIDE DEF Own
  <2>4. add \in Seq(Own) /\ open \in Seq(Own) /\ StartSteps(child, t) \in Seq(Own) /\ out \in Seq(Own)
    BY <2>3, OneIn, TwoIn, EmptyIn DEF StartSteps
  <2> HIDE DEF add, open, out
  <2>5. go \o <<>> \in Seq(Own)
    <3>1. <<>> \in Seq(Own)
      BY EmptyIn
    <3>2. QED
      BY <2>4, <3>1, ConcatIn
  <2>6. go \o <<>> \in Seq(Loops(Own))
    BY <2>5, LoopsGrow
  <2>7. todo' = go \o <<>>
    BY <1>4, <1>6
  <2> HIDE DEF go, child, more
  <2>8. QED
    BY <1>1, <2>2, <2>6, <2>7 DEF Writes, Wrote, Own
<1>7. QED
  BY Zenon, <1>4, <1>5, <1>6, WritesGrow

Regroups(a1, a2, a3, a4) == ((a1 \o a2) \o a3) \o a4 = a1 \o ((a2 \o a3) \o a4)
LEMMA Reassoc ==
    ASSUME NEW S, NEW a1 \in Seq(S), NEW a2 \in Seq(S), NEW a3 \in Seq(S), NEW a4 \in Seq(S)
    PROVE  Regroups(a1, a2, a3, a4)
<1>1. (a1 \o a2) \o a3 = a1 \o (a2 \o a3)
  BY SMTT(60)
<1> DEFINE m == a2 \o a3
<1>2. m \in Seq(S)
  BY ConcatIn
<1> HIDE DEF m
<1>3. (a1 \o m) \o a4 = a1 \o (m \o a4)
  BY <1>2, SMTT(60)
<1>4. QED
  BY <1>1, <1>3 DEF Regroups, m

LEMMA NextTryIn ==
    ASSUME NEW t \in Task, NEW f \in Fingerprint, Node[t].kind = "agent"
    PROVE  /\ Escalate(t, f) \in Seq(CommonSteps \cup RetryOwn(t))
           /\ MaybeRetry(t, f) \in Seq(CommonSteps \cup RetryOwn(t))
<1> DEFINE Own == CommonSteps \cup RetryOwn(t)
<1>1. Escalate(t, f) \in Seq(Own)
  <2>1. CASE t \notin terra /\ f \in Node[t].escalate_on /\ SlotAvailable(t)
    <3>1. [op |-> "escalate", task |-> t] \in Own
      BY <2>1, OwnIn DEF MayEscalate
    <3> HIDE DEF Own
    <3>2. QED
      BY <2>1, <3>1, OneIn DEF Escalate
  <2>2. QED
    BY <2>1, EmptyIn DEF Escalate
<1>2. MaybeRetry(t, f) \in Seq(Own)
  <2>1. CASE fingerprint[t] # f
    <3>1. Move(t, "retry_wait") \in Own /\ Move(t, "ready") \in Own
      BY <2>1, OwnIn, CommonIn DEF MayRetry, TaskState
    <3> HIDE DEF Own
    <3>2. QED
      BY <3>1, TwoIn, EmptyIn DEF MaybeRetry
  <2>2. QED
    BY <2>1, EmptyIn DEF MaybeRetry
<1>3. QED
  BY <1>1, <1>2

LEMMA CollectWrites ==
    ASSUME KindInv, NEW G, CollectFuture
    PROVE  Writes(G)
<1>1. PICK t \in Task :
         \/ CollectCancelled(t) \/ CollectAccepted(t) \/ CollectDenied(t)
         \/ CollectRejected(t) \/ CollectExhausted(t) \/ CollectFailed(t)
         \/ CollectUnfinished(t)
  BY DEF CollectFuture
<1> DEFINE Own == CommonSteps \cup RetryOwn(t)
           done == <<Move(t, "completed"), Move(t, "verifying")>>
           clear == <<ClearPid(t)>>
           complete == CompleteSteps(t)
<1>2. Node[t].kind = "agent"
  BY <1>1 DEF KindInv, CollectCancelled, CollectAccepted, CollectDenied, CollectRejected,
     CollectExhausted, CollectFailed, CollectUnfinished, Collect, Ended
<1>3. /\ done \in Seq(Own) /\ <<Move(t, "accepted"), Release(t)>> \in Seq(Own)
      /\ <<Move(t, "rejected"), Release(t)>> \in Seq(Own)
      /\ <<Move(t, "budget_exhausted"), Release(t)>> \in Seq(Own)
      /\ \A to \in {"rejected", "failed"}, f \in Fingerprint :
            <<Fail(t, to, f), Release(t)>> \in Seq(Own)
      /\ \A f \in Fingerprint : <<Update(t, f)>> \in Seq(Own)
      /\ <<>> \in Seq(Own)
  <2>1. Move(t, "accepted") \in Own
    BY <1>2, CommonIn DEF Settling
  <2>2. \A f \in Fingerprint : Update(t, f) \in Own
    BY CommonIn
  <2>3. /\ CommonSteps \subseteq Own
    OBVIOUS
  <2> HIDE DEF Own
  <2>4. QED
    BY <2>1, <2>2, <2>3, PieceIn, OneIn, EmptyIn
<1>4. complete = clear \o done
  BY CompleteIs
<1>5. \A f \in Fingerprint : Escalate(t, f) \in Seq(Own) /\ MaybeRetry(t, f) \in Seq(Own)
  BY <1>2, NextTryIn
<1>6. ASSUME NEW s \in Seq(Own), todo = <<>>, todo' = clear \o s \/ todo' = s
      PROVE  Writes(G)
  BY <1>6, WritesGrow DEF Retrying
<1>7. clear \in Seq({ClearPid(t)} \cup Own) /\ Seq(Own) \subseteq Seq({ClearPid(t)} \cup Own)
  BY OneIn, SeqGrows
<1> DEFINE All == {ClearPid(t)} \cup Own
<1>8. ASSUME NEW s \in Seq(Own), Collect(t, complete \o s)
      PROVE  Writes(G)
  <2>1. todo = <<>> /\ todo' = (clear \o done) \o s
    BY <1>4, <1>8 DEF Collect, Idle
  <2>2. clear \in Seq(All) /\ done \in Seq(All) /\ s \in Seq(All)
    BY <1>3, <1>7
  <2>3. done \o s \in Seq(Own)
    BY <1>3, ConcatIn
  <2> HIDE DEF clear, done, All, Own
  <2>4. (clear \o done) \o s = clear \o (done \o s)
    BY <2>2, SMTT(60)
  <2>5. QED
    BY <1>6, <2>1, <2>3, <2>4
<1>9. CASE CollectCancelled(t)
  <2>1. todo = <<>> /\ todo' = clear
    BY <1>9 DEF CollectCancelled, Collect, Idle
  <2>2. clear \o <<>> = clear
    BY <1>7, EmptyFront
  <2>3. QED
    BY <1>3, <1>6, <2>1, <2>2
<1>10. CASE CollectAccepted(t) \/ CollectDenied(t)
  <2> HIDE DEF Own, complete
  <2>1. QED
    BY <1>3, <1>8, <1>10 DEF CollectAccepted, CollectDenied, complete
<1>11. CASE CollectRejected(t)
  <2>1. PICK f \in Fingerprint :
           Collect(t, complete \o <<Fail(t, "rejected", f), Release(t)>>
                        \o Escalate(t, f) \o MaybeRetry(t, f))
    BY <1>11 DEF CollectRejected
  <2> DEFINE verdict == <<Fail(t, "rejected", f), Release(t)>>
             escalation == Escalate(t, f)
             retry == MaybeRetry(t, f)
  <2>2. verdict \in Seq(Own) /\ escalation \in Seq(Own) /\ retry \in Seq(Own)
    BY <1>3, <1>5
  <2>3. /\ verdict \in Seq(All) /\ escalation \in Seq(All) /\ retry \in Seq(All)
        /\ complete \in Seq(All)
    <3>1. clear \in Seq(All) /\ done \in Seq(All)
      BY <1>3, <1>7
    <3> HIDE DEF clear, done, All, Own
    <3>2. clear \o done \in Seq(All)
      BY <3>1, ConcatIn
    <3>3. complete \in Seq(All)
      BY <1>4, <3>2 DEF All, Own
    <3>4. QED
      BY <1>7, <2>2, <3>3 DEF All, Own
  <2> HIDE DEF verdict, escalation, retry, All, Own, complete
  <2>4. ((complete \o verdict) \o escalation) \o retry
            = complete \o ((verdict \o escalation) \o retry)
    <3>1. Regroups(complete, verdict, escalation, retry)
      BY <2>3, Reassoc
    <3>2. QED
      BY <3>1 DEF Regroups
  <2>5. (verdict \o escalation) \o retry \in Seq(Own)
    BY <2>2, ConcatIn
  <2>6. Collect(t, ((complete \o verdict) \o escalation) \o retry)
    BY <2>1 DEF verdict, escalation, retry, complete
  <2>7. QED
    BY <1>8, <2>4, <2>5, <2>6
<1>12. CASE CollectExhausted(t)
  <2> DEFINE last == <<Move(t, "budget_exhausted"), Release(t)>>
             both == <<ClearPid(t), Move(t, "budget_exhausted"), Release(t)>>
  <2>1. todo = <<>> /\ todo' = both
    BY <1>12 DEF CollectExhausted, Collect, Idle
  <2>2. both = clear \o last /\ last \in Seq(Own)
    BY <1>3, CompleteIs
  <2> HIDE DEF both, last, clear, Own
  <2>3. QED
    BY <1>6, <2>1, <2>2
<1>13. CASE CollectFailed(t)
  <2>1. PICK f \in Fingerprint :
          Collect(t, <<Update(t, f)>> \o
             (IF state[t] # "running" THEN <<>>
              ELSE <<Fail(t, "failed", f), Release(t)>> \o Escalate(t, f) \o MaybeRetry(t, f)))
    BY <1>13 DEF CollectFailed
  <2> DEFINE first == <<Update(t, f)>>
             verdict == <<Fail(t, "failed", f), Release(t)>>
             escalation == Escalate(t, f)
             retry == MaybeRetry(t, f)
  <2>2. /\ first \in Seq(Own) /\ verdict \in Seq(Own)
        /\ escalation \in Seq(Own) /\ retry \in Seq(Own)
    BY <1>3, <1>5
  <2>3. \/ todo' = first \o <<>>
        \/ todo' = first \o (verdict \o escalation \o retry)
    BY <2>1 DEF Collect
  <2>4. todo = <<>>
    BY <2>1 DEF Collect, Idle
  <2> HIDE DEF first, verdict, escalation, retry, Own
  <2>5. /\ first \o <<>> \in Seq(Own)
        /\ first \o (verdict \o escalation \o retry) \in Seq(Own)
    BY <1>3, <2>2, ConcatIn
  <2>6. QED
    BY <1>6, <2>3, <2>4, <2>5
<1>14. CASE CollectUnfinished(t)
  <2> HIDE DEF Own, complete
  <2>1. QED
    BY <1>3, <1>8, <1>14 DEF CollectUnfinished, complete
<1>15. QED
  BY <1>1, <1>9, <1>10, <1>11, <1>12, <1>13, <1>14

LEMMA DriveWrites ==
    ASSUME TypeOK, TodoInv, KindInv, NEW G, Drives
    PROVE  Writes(G)
<1>1. At("drive") /\ Ended(Child)
  BY Zenon DEF Drives, DriveAccepted, DriveRejected, DriveExhausted, DriveRaised, DriveUnfinished, Drive
<1>2. PICK t \in Calm, n \in Nat \ {0} :
         /\ Head(todo).root = t /\ Head(todo).n = n /\ Tail(todo) = <<>>
         /\ t \in Task /\ Child \in Task /\ IsIteration(t, n)
  BY <1>1, DriveHead
<1> DEFINE child == Child
           Own == CommonSteps \cup ChildOwn(child) \cup IterSteps \cup SettleSteps
           done == <<Move(child, "completed"), Move(child, "verifying")>>
           clear == <<ClearPid(child)>>
           complete == CompleteSteps(child)
           All == {ClearPid(child)} \cup Own
<1>0. Node[t].kind = "repeat_until"
  <2>1. todo # <<>> /\ Head(todo).op = "drive"
    BY <1>1 DEF At
  <2>2. Head(todo) \in AnyStep
    BY <2>1, HeadKind
  <2>3. QED
    BY <1>2, <2>1, <2>2 DEF AnyStep, CommonSteps, IterSteps
<1>3. child \in Iteration /\ Node[child].kind = "agent"
  <2>1. n \in DOMAIN Node[t].iterations
    BY <1>2, RuntimeAssumption DEF IsIteration, NodeType
  <2>2. Child = Node[t].iterations[n]
    BY <1>2 DEF Child
  <2> HIDE DEF child
  <2>3. Child \in Iteration
    BY <1>2, <2>1, <2>2 DEF Iteration
  <2>4. Node[Child].kind = "agent"
    BY <1>1, <1>2 DEF KindInv, Ended
  <2>5. QED
    BY <2>3, <2>4 DEF child
<1>4. /\ done \in Seq(Own) /\ <<Move(child, "accepted"), Release(child)>> \in Seq(Own)
      /\ <<Move(child, "rejected"), Release(child)>> \in Seq(Own)
      /\ <<Move(child, "budget_exhausted"), Release(child)>> \in Seq(Own)
      /\ FailSteps(t) \in Seq(Own) /\ <<>> \in Seq(Own)
      /\ Iterate(t, n + 1) \in Seq(Own)
      /\ DriveAccepted => AcceptComputed(t) \in Seq(Own)
  <2>1. Move(child, "accepted") \in Own
    BY <1>2, <1>3, CommonIn DEF Settling
  <2>2. [op |-> "iterate", root |-> t, n |-> n + 1] \in Own
    <3>1. n + 1 \in Nat \ {0}
      OBVIOUS
    <3>2. [op |-> "iterate", root |-> t, n |-> n + 1] \in IterSteps
      BY <1>0, <1>2, <3>1 DEF IterSteps
    <3>3. QED
      BY <3>2
  <2>3. DriveAccepted => Move(t, "accepted") \in Own
    BY <1>2 DEF SettleSteps, Settles, Move
  <2>4. CommonSteps \subseteq Own
    OBVIOUS
  <2> HIDE DEF Own
  <2>5. QED
    BY <1>2, <2>1, <2>2, <2>3, <2>4, PieceIn, OneIn, EmptyIn DEF Iterate
<1>5. complete = clear \o done
  BY CompleteIs
<1>6. clear \in Seq(All) /\ Seq(Own) \subseteq Seq(All)
  BY OneIn, SeqGrows
<1>7. ASSUME NEW s \in Seq(Own), todo' = clear \o s \/ todo' = s
      PROVE  Writes(G)
  <2>1. s \in Seq(Loops(Own))
    BY LoopsGrow
  <2>2. todo # <<>> /\ Head(todo).op \in {"iterate", "drive"}
    BY <1>1 DEF At
  <2> HIDE DEF child
  <2>3. QED
    BY <1>2, <1>3, <1>7, <2>1, <2>2 DEF Writes, Wrote, child
<1>8. ASSUME NEW steps, Drive(steps) PROVE todo' = steps \o <<>>
  BY <1>2, <1>8 DEF Drive
<1>9. ASSUME NEW s \in Seq(Own), NEW u \in Seq(Own), Drive((complete \o s) \o u)
      PROVE  Writes(G)
  <2>1. /\ clear \in Seq(All) /\ done \in Seq(All) /\ s \in Seq(All) /\ u \in Seq(All)
        /\ <<>> \in Seq(All)
    BY <1>4, <1>6
  <2>2. todo' = ((clear \o done) \o s \o u) \o <<>>
    BY <1>5, <1>8, <1>9
  <2>3. (done \o s) \o u \in Seq(Own)
    BY <1>4, <1>9, ConcatIn
  <2> HIDE DEF clear, done, All, Own
  <2>4. ((clear \o done) \o s) \o u = clear \o ((done \o s) \o u)
    <3>1. Regroups(clear, done, s, u)
      BY <2>1, Reassoc
    <3>2. QED
      BY <3>1 DEF Regroups
  <2>5. clear \o ((done \o s) \o u) \in Seq(All)
    BY <2>1, ConcatIn
  <2>6. todo' = clear \o ((done \o s) \o u)
    BY <2>2, <2>4, <2>5, EmptyFront
  <2>7. QED
    BY <1>7, <2>3, <2>6
<1>10. CASE DriveAccepted
  <2>1. PICK next \in {AcceptComputed(t), Iterate(t, n + 1), FailSteps(t)} :
           Drive(complete \o <<Move(child, "accepted"), Release(child)>> \o next)
    BY <1>2, <1>10 DEF DriveAccepted
  <2>2. next \in Seq(Own)
    BY <1>4, <1>10, <2>1
  <2> HIDE DEF complete, Own
  <2>3. QED
    BY <1>4, <1>9, <2>1, <2>2
<1>11. CASE DriveRejected
  <2>1. Drive(complete \o <<Move(child, "rejected"), Release(child)>> \o FailSteps(t))
    BY <1>2, <1>11 DEF DriveRejected
  <2> HIDE DEF complete, Own
  <2>2. QED
    BY <1>4, <1>9, <2>1
<1>12. CASE DriveExhausted
  <2> DEFINE last == <<Move(child, "budget_exhausted"), Release(child)>>
             both == <<ClearPid(child), Move(child, "budget_exhausted"), Release(child)>>
  <2>1. Drive(both \o FailSteps(t))
    BY <1>2, <1>12 DEF DriveExhausted
  <2>2. both = clear \o last /\ last \in Seq(Own)
    BY <1>4, CompleteIs
  <2>3. todo' = ((clear \o last) \o FailSteps(t)) \o <<>>
    BY <1>8, <2>1, <2>2
  <2>4. /\ clear \in Seq(All) /\ last \in Seq(All) /\ FailSteps(t) \in Seq(All)
        /\ <<>> \in Seq(All)
    BY <1>4, <1>6, <2>2
  <2> HIDE DEF clear, last, both, All, Own
  <2>5. ((clear \o last) \o FailSteps(t)) \o <<>> = clear \o ((last \o FailSteps(t)) \o <<>>)
    <3>1. Regroups(clear, last, FailSteps(t), <<>>)
      BY <2>4, Reassoc
    <3>2. QED
      BY <3>1 DEF Regroups
  <2>6. (last \o FailSteps(t)) \o <<>> \in Seq(Own)
    BY <1>4, <2>2, ConcatIn
  <2>7. QED
    BY <1>7, <2>3, <2>5, <2>6
<1>13. CASE DriveRaised
  <2>1. todo' = FailSteps(t) \o <<>>
    BY <1>2, <1>8, <1>13 DEF DriveRaised
  <2> HIDE DEF Own
  <2>2. FailSteps(t) \o <<>> \in Seq(Own)
    BY <1>4, ConcatIn
  <2>3. QED
    BY <1>7, <2>1, <2>2
<1>14. CASE DriveUnfinished
  <2>1. Drive(complete \o FailSteps(t))
    BY <1>2, <1>14 DEF DriveUnfinished
  <2>2. todo' = ((clear \o done) \o FailSteps(t)) \o <<>>
    BY <1>5, <1>8, <2>1
  <2>3. /\ clear \in Seq(All) /\ done \in Seq(All) /\ FailSteps(t) \in Seq(All)
        /\ <<>> \in Seq(All)
    BY <1>4, <1>6
  <2> HIDE DEF clear, done, complete, All, Own
  <2>4. ((clear \o done) \o FailSteps(t)) \o <<>> = clear \o ((done \o FailSteps(t)) \o <<>>)
    <3>1. Regroups(clear, done, FailSteps(t), <<>>)
      BY <2>3, Reassoc
    <3>2. QED
      BY <3>1 DEF Regroups
  <2>5. (done \o FailSteps(t)) \o <<>> \in Seq(Own)
    BY <1>4, ConcatIn
  <2>6. QED
    BY <1>7, <2>2, <2>4, <2>5
<1>15. QED
  BY <1>10, <1>11, <1>12, <1>13, <1>14 DEF Drives

-----------------------------------------------------------------------------
(* A step of the runtime writes a script, takes the first step of one, or     *)
(* leaves it.                                                                *)
Writing == Scripting \/ CollectFuture \/ Drives \/ Rescripting \/ Close \/ Crash

LEMMA ScriptWrites ==
    ASSUME TypeOK, TodoInv, LoopInv, KindInv, NEW G, Rest(G), Writing
    PROVE  Writes(G) /\ UNCHANGED <<storeVars, fieldVars>>
<1>1. CASE Scripting
  <2>1. UNCHANGED <<storeVars, fieldVars>>
    BY <1>1, ScriptingShape
  <2>2. Writes(G)
    BY <1>1, PassWrites, HandleWrites, LaunchWrites DEF Scripting
  <2>3. QED
    BY <2>1, <2>2
<1>2. CASE CollectFuture
  <2>1. UNCHANGED <<storeVars, fieldVars>>
    BY <1>2 DEF CollectFuture, CollectCancelled, CollectAccepted, CollectDenied, CollectRejected,
       CollectExhausted, CollectFailed, CollectUnfinished, Collect, unchangedByMain
  <2>2. QED
    BY <1>2, <2>1, CollectWrites
<1>3. CASE Drives
  <2>1. UNCHANGED <<storeVars, fieldVars>>
    BY Zenon, <1>3 DEF Drives, DriveAccepted, DriveRejected, DriveExhausted, DriveRaised,
       DriveUnfinished, Drive, unchangedByMain
  <2>2. QED
    BY <1>3, <2>1, DriveWrites
<1>4. CASE Rescripting
  <2>1. UNCHANGED <<storeVars, fieldVars>>
    BY Zenon, <1>4 DEF Rescripting, PerformReserveRefused, PerformReserveRefusedRepeat, PerformEach,
       PerformDecide, PerformIterate
  <2>2. QED
    BY <1>4, <2>1, RefusedWrites, EachWrites, DecideWrites, IterateWrites DEF Rescripting
<1>5. CASE Close \/ Crash
  <2>1. UNCHANGED <<storeVars, fieldVars>> /\ todo' = <<>>
    BY <1>5 DEF Close, Crash, unchangedByMain, Idle
  <2>2. QED
    BY <2>1, EmptyIn, WritesGrow
<1>6. QED
  BY <1>1, <1>2, <1>3, <1>4, <1>5 DEF Writing

(* what a step of a script does to a task's fields *)
FieldStep(x) ==
    /\ fingerprint' = IF x.op \in {"fail", "update"}
                      THEN [fingerprint EXCEPT ![x.task] = x.fp] ELSE fingerprint
    /\ terra' = IF x.op = "escalate" THEN terra \cup {x.task} ELSE terra
StepDone(x) ==
    /\ todo # <<>> /\ todo' = Tail(todo) /\ x.op \notin {"each", "iterate", "drive", "decide"}
    /\ FieldStep(x)
    /\ x.op = "block" /\ state[x.task] \in {"pending", "ready"} => TransitionTask(x.task, "blocked")
    /\ \/ StoreStep(x)
       \/ x.op = "submit" /\ UNCHANGED storeVars

LEMMA PopDone == ASSUME Popping PROVE StepDone(Head(todo))
<1> USE DEF At, FieldStep
<1>1. todo # <<>> /\ todo' = Tail(todo) /\ StoreStep(Head(todo))
  BY PopStore
<1>2. CASE PerformMove \/ PerformStart \/ PerformReserve \/ PerformLaunch \/ PerformRelease
  BY <1>1, <1>2 DEF PerformMove, PerformStart, PerformReserve, PerformLaunch, PerformRelease,
     fieldVars, StepDone
<1>3. CASE PerformBlock \/ PerformWorkflow \/ PerformAdd \/ PerformDepend
  BY <1>1, <1>3 DEF PerformBlock, PerformWorkflow, PerformAdd, PerformDepend, fieldVars, StepDone
<1>4. CASE PerformKill \/ PerformProcessed \/ PerformArchive \/ PerformWorktree
  BY <1>1, <1>4 DEF PerformKill, PerformProcessed, PerformArchive, PerformWorktree, fieldVars,
     StepDone
<1>5. CASE PerformFail
  BY <1>1, <1>5 DEF PerformFail, StepDone
<1>6. CASE PerformEscalate
  BY <1>1, <1>6 DEF PerformEscalate, StepDone
<1>7. CASE PerformUpdate
  BY <1>1, <1>7 DEF PerformUpdate, StepDone
<1>8. QED
  BY <1>2, <1>3, <1>4, <1>5, <1>6, <1>7 DEF Popping

Beside ==
    /\ todo' = todo
    /\ UNCHANGED <<wf, state, deps, attempt, reserved, budgetReserved, keys, fingerprint, terra>>

LEMMA NextShape ==
    ASSUME [Next]_vars
    PROVE  Writing \/ StepDone(Head(todo)) \/ Beside
<1>1. CASE Popping
  BY <1>1, PopDone
<1>2. CASE PerformSubmit
  BY <1>2 DEF PerformSubmit, At, Pop, StepDone, FieldStep, fieldVars
<1>3. CASE \/ \E t \in Task : Worker(t)
           \/ \E r \in Request : Submit(r)
           \/ OrphanExits \/ UNCHANGED vars
  BY <1>3 DEF Worker, Spawn, SpawnFails, Register, RecordPid, Finish, unchangedByWorker, Submit,
     OrphanExits, Beside, storeVars, fieldVars, vars
<1>4. CASE \E t \in Task : ReportUsage(t)
  BY <1>4 DEF ReportUsage, RecordUsage, unchangedByWorker, Beside, fieldVars
<1>5. Perform => Popping \/ PerformSubmit \/ Rescripting
  BY DEF Perform, Popping, Rescripting
<1>6. QED
  BY <1>1, <1>2, <1>3, <1>4, <1>5
     DEF Next, Main, Scripting, Repeat, Drives, Rescripting, Writing

(* the steps that can be written at all *)
LEMMA OwnIsAny ==
    /\ CommonSteps \subseteq AnyStep /\ IterSteps \subseteq AnyStep /\ SettleSteps \subseteq AnyStep
    /\ \A u \in Task : RetryOwn(u) \subseteq AnyStep /\ LaunchOwn(u) \subseteq AnyStep
    /\ \A c \in Iteration : ChildOwn(c) \subseteq AnyStep
<1>1. CommonSteps \subseteq AnyStep /\ IterSteps \subseteq AnyStep
  BY DEF AnyStep
<1>2. SettleSteps \subseteq AnyStep
  BY DEF SettleSteps, AnyStep
<1>3. ASSUME NEW u \in Task PROVE RetryOwn(u) \subseteq AnyStep
  BY DEF RetryOwn, AnyStep
<1>4. ASSUME NEW u \in Task PROVE LaunchOwn(u) \subseteq AnyStep
  <2>1. LaunchRepeat(u) => Node[u].kind = "repeat_until"
    BY DEF LaunchRepeat
  <2>2. QED
    BY <2>1 DEF LaunchOwn, AnyStep, IterSteps
<1>5. ASSUME NEW c \in Iteration PROVE ChildOwn(c) \subseteq AnyStep
  <2>1. c \in Task /\ Node[c].kind = "agent"
    BY GraphAssumption DEF Iteration
  <2>2. QED
    BY <2>1 DEF ChildOwn, AnyStep
<1>6. QED
  BY <1>1, <1>2, <1>3, <1>4, <1>5

(* what is written is in S, if whatever may be written is *)
LEMMA WrittenIn ==
    ASSUME NEW G, NEW S, NEW s, Wrote(s, G), G \subseteq S, CommonSteps \subseteq S,
           todo = <<>> => \A u \in Task : /\ Retrying => RetryOwn(u) \subseteq S
                                         /\ LaunchOwn(u) \subseteq S,
           todo = <<>> \/ Head(todo).op \in {"iterate", "drive"} => SettleSteps \subseteq S,
           (todo # <<>> /\ Head(todo).op \in {"iterate", "drive"}) =>
                IterSteps \subseteq S /\ \A c \in Iteration : ChildOwn(c) \subseteq S
    PROVE  s \in Seq(Loops(S))
<1>1. ASSUME NEW T, T \subseteq S, s \in Seq(Loops(T)) PROVE s \in Seq(Loops(S))
  BY <1>1, LoopsGrow
<1>2. ASSUME Retrying, todo = <<>>, NEW u \in Task,
             s \in Seq(Loops(CommonSteps \cup RetryOwn(u)))
      PROVE  s \in Seq(Loops(S))
  <2>1. CommonSteps \cup RetryOwn(u) \subseteq S
    BY <1>2
  <2>2. QED
    BY <1>1, <1>2, <2>1
<1>3. ASSUME todo = <<>>, NEW u \in Task,
             s \in Seq(Loops(CommonSteps \cup LaunchOwn(u) \cup SettleSteps))
      PROVE  s \in Seq(Loops(S))
  <2>1. CommonSteps \cup LaunchOwn(u) \cup SettleSteps \subseteq S
    BY <1>3
  <2>2. QED
    BY <1>1, <1>3, <2>1
<1>4. ASSUME s \in Seq(Loops(G \cup CommonSteps)) PROVE s \in Seq(Loops(S))
  <2>1. G \cup CommonSteps \subseteq S
    OBVIOUS
  <2>2. QED
    BY <1>1, <1>4, <2>1
<1>5. ASSUME todo # <<>>, Head(todo).op \in {"iterate", "drive"}, NEW c \in Iteration,
             s \in Seq(Loops(CommonSteps \cup ChildOwn(c) \cup IterSteps \cup SettleSteps))
      PROVE  s \in Seq(Loops(S))
  <2>1. CommonSteps \cup ChildOwn(c) \cup IterSteps \cup SettleSteps \subseteq S
    BY <1>5
  <2>2. QED
    BY <1>1, <1>5, <2>1
<1>6. QED
  BY <1>2, <1>3, <1>4, <1>5 DEF Wrote

LEMMA KindRest == ASSUME KindInv PROVE Rest(AnyStep)
<1>1. SUFFICES ASSUME todo # <<>>, Head(todo).op = "each"
               PROVE  Head(todo).items \subseteq Seq(CommonSteps)
  BY HeadKind DEF Rest
<1>2. Head(todo) \in Loops(AnyStep) /\ Head(todo) \notin AnyStep
  BY <1>1, HeadKind DEF AnyStep, CommonSteps, IterSteps
<1>3. QED
  BY <1>2 DEF Loops

\* a script with the clearing of a pid in front
LEMMA ClearedIn ==
    ASSUME NEW S, NEW s \in Seq(Loops(S)), NEW u, ClearPid(u) \in S
    PROVE  <<ClearPid(u)>> \o s \in Seq(Loops(S))
<1> DEFINE x == ClearPid(u)
           one == <<x>>
<1>1. x \in Loops(S)
  BY DEF Loops
<1> HIDE DEF x
<1>2. one \in Seq(Loops(S))
  BY <1>1, OneIn
<1> HIDE DEF one
<1>3. one \o s \in Seq(Loops(S))
  BY <1>2, ConcatIn
<1>4. QED
  BY <1>3 DEF one, x

LEMMA FutureStep ==
    ASSUME TypeOK, KindInv, [Next]_vars, NEW t \in Task, future'[t] # "none"
    PROVE  future[t] # "none" \/ Node[t].kind = "agent"
<1> USE DEF TypeOK
<1>1. CASE PerformSubmit
  <2>1. todo # <<>> /\ Head(todo).op = "submit"
        /\ future' = [future EXCEPT ![Head(todo).task] = "queued"]
    BY <1>1 DEF PerformSubmit, At
  <2>2. Node[Head(todo).task].kind = "agent"
    <3>1. Head(todo) \in AnyStep
      BY <2>1, HeadKind
    <3>2. QED
      BY <2>1, <3>1 DEF AnyStep, CommonSteps, IterSteps
  <2>3. QED
    BY <2>1, <2>2
<1>2. CASE Popping
  BY <1>2 DEF Popping, PerformMove, PerformFail, PerformStart, PerformReserve, PerformLaunch,
     PerformRelease, PerformBlock, PerformWorkflow, PerformEscalate, PerformUpdate,
     PerformWorktree, PerformKill, PerformAdd, PerformDepend, PerformProcessed, PerformArchive,
     workerVars
<1>3. CASE Rescripting \/ UNCHANGED vars
  BY Zenon, <1>3 DEF Rescripting, PerformReserveRefused, PerformReserveRefusedRepeat, PerformEach,
     PerformDecide, PerformIterate, vars, workerVars
<1>4. CASE Scripting
  BY ZenonT(60), <1>4 DEF Scripting, Boot, Reconcile, Recovered, Resume, RefreshBefore, RefreshAfter, Refresh,
     TakeInbox, HandleRequest, HandlePause, HandleResume, HandleCancel, HandleRetry,
     HandleDecision, Handle, InboxDone, ListReady, LaunchTask, LaunchDenied, LaunchCondition,
     LaunchCheck, LaunchUnusable, LaunchMap, LaunchReduce, LaunchRepeat, LaunchApproval,
     LaunchNoSlot, LaunchCached, LaunchAgent, LaunchUnprepared, Launch, EndLaunch,
     SettleIteration, SettleWait, SettleAgain, SettleCancelled, SettleSucceeded, SettleExhausted,
     SettleFailed, SettleStalled, SettleRefused, Conclude, Settle, WaitTimeout, workerVars
<1>5. CASE CollectFuture
  BY <1>5 DEF CollectFuture, CollectCancelled, CollectAccepted, CollectDenied, CollectRejected,
     CollectExhausted, CollectFailed, CollectUnfinished, Collect
<1>6. CASE Drives
  <2>1. future' = [future EXCEPT ![Child] = "none"]
    BY Zenon, <1>6 DEF Drives, DriveAccepted, DriveRejected, DriveExhausted, DriveRaised,
       DriveUnfinished, Drive
  <2>2. QED
    BY <2>1
<1>7. CASE Close \/ Crash
  BY <1>7 DEF Close, Crash
<1>8. CASE (\E u \in Task : Worker(u)) \/ (\E u \in Task : ReportUsage(u))
             \/ (\E r \in Request : Submit(r)) \/ OrphanExits
  BY <1>8 DEF Worker, Spawn, SpawnFails, Register, RecordPid, Finish, ReportUsage, Submit,
     OrphanExits, workerVars
<1>9. Perform => Popping \/ PerformSubmit \/ Rescripting
  BY DEF Perform, Popping, Rescripting
<1>10. QED
  BY <1>1, <1>2, <1>3, <1>4, <1>5, <1>6, <1>7, <1>8, <1>9
     DEF Next, Main, Scripting, Repeat, Drives, Rescripting

LEMMA KindKept == RuntimeInv /\ KindInv /\ [Next]_vars => KindInv'
<1> SUFFICES ASSUME RuntimeInv, KindInv, [Next]_vars PROVE KindInv'
  OBVIOUS
<1>1. TypeOK /\ TodoInv /\ LoopInv
  BY DEF RuntimeInv, WorkerInv
<1>2. \A t \in Task : future'[t] # "none" => Node[t].kind = "agent"
  BY <1>1, FutureStep DEF KindInv
<1>3. todo' \in Seq(Loops(AnyStep))
  <2>1. CASE Writing
    <3>1. Writes(AnyStep)
      BY <1>1, <2>1, KindRest, ScriptWrites
    <3>2. PICK s : /\ Wrote(s, AnyStep)
                   /\ todo' = s \/ \E u \in Task : todo' = <<ClearPid(u)>> \o s
      BY <3>1 DEF Writes
    <3>3. s \in Seq(Loops(AnyStep))
      BY <3>2, OwnIsAny, WrittenIn
    <3>4. \A u \in Task : ClearPid(u) \in AnyStep
      BY <1>1 DEF ClearPid, Update, AnyStep, CommonSteps, TypeOK
    <3>5. QED
      BY <3>2, <3>3, <3>4, ClearedIn
  <2>2. CASE StepDone(Head(todo))
    BY <2>2, HeadKind DEF StepDone
  <2>3. CASE Beside
    BY <2>3 DEF Beside, KindInv
  <2>4. QED
    BY <2>1, <2>2, <2>3, NextShape
<1>4. QED
  BY <1>2, <1>3 DEF KindInv

LEMMA KindAlways == Spec => []KindInv
<1>1. Init => KindInv
  BY EmptyIn DEF Init, KindInv
<1>2. QED
  BY <1>1, KindKept, RuntimeInvAlways, PTL DEF Spec

-----------------------------------------------------------------------------
(* The limit on terra tasks.  At most one task of a script may be escalated or *)
(* started on a slot, and the slot is still there: nothing else in the script *)
(* takes one.                                                                *)
SlotSteps(U) ==
    (AnyStep \ [op : {"start", "launch", "escalate"}, task : Task])
        \cup [op : {"start", "launch"}, task : (Task \ terra) \cup U]
        \cup [op : {"escalate"}, task : U]
Slots ==
    {{}} \cup {{u} : u \in {v \in Task : Node[v].kind = "agent" /\ SlotAvailable(v)}}

TerraInv ==
    /\ \E U \in Slots : todo \in Seq(Loops(SlotSteps(U)))
    /\ \A t \in terra : Node[t].kind = "agent"
    /\ \A i \in Iteration : state[i] \in {"absent", "pending"} => i \notin terra
    /\ TerraBounded

LEMMA SlotsOwn ==
    ASSUME TypeOK, TerraInv
    PROVE  /\ \A U \in Slots : CommonSteps \subseteq SlotSteps(U) /\ IterSteps \subseteq SlotSteps(U)
                               /\ SettleSteps \subseteq SlotSteps(U)
                               /\ \A u \in Task : ClearPid(u) \in SlotSteps(U)
           /\ \A U \in Slots, c \in Iteration : ChildOwn(c) \subseteq SlotSteps(U)
           /\ \A u \in Task : \E U \in Slots : RetryOwn(u) \subseteq SlotSteps(U)
           /\ \A u \in Task : \E U \in Slots : LaunchOwn(u) \subseteq SlotSteps(U)
<1>1. ASSUME NEW U \in Slots
      PROVE  /\ CommonSteps \subseteq SlotSteps(U) /\ IterSteps \subseteq SlotSteps(U)
             /\ SettleSteps \subseteq SlotSteps(U)
             /\ \A u \in Task : ClearPid(u) \in SlotSteps(U)
  <2>1. ASSUME NEW x \in CommonSteps, x.op \in {"start", "launch", "escalate"}
        PROVE  x \in [op : {"start"}, task : Task \ terra]
    BY <2>1 DEF CommonSteps, TerraInv
  <2>2. CommonSteps \subseteq SlotSteps(U)
    BY <2>1, OwnIsAny DEF SlotSteps
  <2>3. IterSteps \subseteq SlotSteps(U) /\ SettleSteps \subseteq SlotSteps(U)
    BY OwnIsAny DEF SlotSteps, IterSteps, SettleSteps
  <2>4. ASSUME NEW u \in Task PROVE ClearPid(u) \in SlotSteps(U)
    BY DEF ClearPid, Update, SlotSteps, AnyStep, CommonSteps, TypeOK
  <2>5. QED
    BY <2>2, <2>3, <2>4
<1>2. ASSUME NEW U \in Slots, NEW c \in Iteration PROVE ChildOwn(c) \subseteq SlotSteps(U)
  <2>1. c \in Task
    BY GraphAssumption DEF Iteration
  <2>2. ChildOwn(c) \subseteq AnyStep
    BY OwnIsAny
  <2>3. QED
    BY <2>1, <2>2 DEF ChildOwn, SlotSteps, TerraInv
<1>3. ASSUME NEW u \in Task PROVE \E U \in Slots : RetryOwn(u) \subseteq SlotSteps(U)
  <2> DEFINE U == IF MayEscalate(u) THEN {u} ELSE {}
  <2>1. U \in Slots
    BY DEF Slots, MayEscalate
  <2>2. RetryOwn(u) \subseteq SlotSteps(U)
    <3>1. RetryOwn(u) \subseteq AnyStep
      BY OwnIsAny
    <3>2. QED
      BY <3>1 DEF RetryOwn, SlotSteps
  <2>3. QED
    BY <2>1, <2>2
<1>4. ASSUME NEW u \in Task PROVE \E U \in Slots : LaunchOwn(u) \subseteq SlotSteps(U)
  <2> DEFINE U == IF u \in terra /\ MayLaunch(u) THEN {u} ELSE {}
  <2>1. U \in Slots
    BY DEF Slots, MayLaunch, HasSlot
  <2>2. LaunchOwn(u) \subseteq SlotSteps(U)
    <3>1. LaunchOwn(u) \subseteq AnyStep
      BY OwnIsAny
    <3>2. QED
      BY <3>1 DEF LaunchOwn, SlotSteps
  <2>3. QED
    BY <2>1, <2>2
<1>5. QED
  BY <1>1, <1>2, <1>3, <1>4

LEMMA SlotsWritten ==
    ASSUME TypeOK, TerraInv, NEW U \in Slots, NEW s, Wrote(s, SlotSteps(U))
    PROVE  \E V \in Slots : s \in Seq(Loops(SlotSteps(V)))
<1>1. ASSUME todo = <<>>, NEW u \in Task, s \in Seq(Loops(CommonSteps \cup RetryOwn(u)))
      PROVE  \E V \in Slots : s \in Seq(Loops(SlotSteps(V)))
  <2>1. PICK V \in Slots : CommonSteps \cup RetryOwn(u) \subseteq SlotSteps(V)
    BY SlotsOwn
  <2>2. QED
    BY <1>1, <2>1, LoopsGrow
<1>2. ASSUME todo = <<>>, NEW u \in Task,
             s \in Seq(Loops(CommonSteps \cup LaunchOwn(u) \cup SettleSteps))
      PROVE  \E V \in Slots : s \in Seq(Loops(SlotSteps(V)))
  <2>1. PICK V \in Slots : CommonSteps \cup LaunchOwn(u) \cup SettleSteps \subseteq SlotSteps(V)
    BY SlotsOwn
  <2>2. QED
    BY <1>2, <2>1, LoopsGrow
<1>3. ASSUME s \in Seq(Loops(SlotSteps(U) \cup CommonSteps))
      PROVE  s \in Seq(Loops(SlotSteps(U)))
  <2>1. SlotSteps(U) \cup CommonSteps \subseteq SlotSteps(U)
    BY SlotsOwn
  <2>2. QED
    BY <1>3, <2>1, LoopsGrow
<1>4. ASSUME NEW c \in Iteration,
             s \in Seq(Loops(CommonSteps \cup ChildOwn(c) \cup IterSteps \cup SettleSteps))
      PROVE  s \in Seq(Loops(SlotSteps(U)))
  <2>0. /\ CommonSteps \subseteq SlotSteps(U) /\ IterSteps \subseteq SlotSteps(U)
        /\ SettleSteps \subseteq SlotSteps(U)
    BY SlotsOwn
  <2>1. ChildOwn(c) \subseteq SlotSteps(U)
    BY SlotsOwn
  <2>2. CommonSteps \cup ChildOwn(c) \cup IterSteps \cup SettleSteps \subseteq SlotSteps(U)
    BY <2>0, <2>1
  <2>3. QED
    BY <1>4, <2>2, LoopsGrow
<1>5. QED
  BY <1>1, <1>2, <1>3, <1>4 DEF Wrote

\* a script is written
LEMMA SlotsWriting ==
    ASSUME RuntimeInv, KindInv, TerraInv, Writing
    PROVE  TerraInv'
<1>1. TypeOK /\ TodoInv /\ LoopInv
  BY DEF RuntimeInv, WorkerInv
<1>2. PICK U \in Slots : todo \in Seq(Loops(SlotSteps(U)))
  BY DEF TerraInv
<1>3. Rest(SlotSteps(U))
  BY <1>2, KindRest DEF Rest
<1>4. Writes(SlotSteps(U)) /\ UNCHANGED <<storeVars, fieldVars>>
  BY <1>1, <1>3, ScriptWrites
<1>5. PICK s : /\ Wrote(s, SlotSteps(U))
               /\ todo' = s \/ \E u \in Task : todo' = <<ClearPid(u)>> \o s
  BY <1>4 DEF Writes
<1>6. PICK V \in Slots : s \in Seq(Loops(SlotSteps(V)))
  BY <1>1, <1>2, <1>5, SlotsWritten
<1>7. todo' \in Seq(Loops(SlotSteps(V)))
  <2>1. \A u \in Task : ClearPid(u) \in SlotSteps(V)
    BY <1>1, SlotsOwn
  <2>2. QED
    BY <1>5, <1>6, <2>1, ClearedIn
<1>8. /\ Slots' = Slots /\ SlotSteps(V)' = SlotSteps(V) /\ TerraBounded' = TerraBounded
      /\ state' = state /\ terra' = terra
  BY <1>4 DEF storeVars, fieldVars, Slots, SlotSteps, SlotAvailable, TerraBounded
<1>9. (\E W \in Slots : todo \in Seq(Loops(SlotSteps(W))))'
  BY <1>7, <1>8 DEF Loops
<1>10. QED
  BY <1>8, <1>9 DEF TerraInv

\* the next step of a script takes a slot only where there is one
LEMMA SlotTaken ==
    ASSUME TypeOK, TerraBounded, NEW U \in Slots, terra' \subseteq terra \cup U, terra \subseteq terra',
           \A t \in Task : attempt'[t] > 0 /\ attempt[t] = 0 => t \notin terra \ U,
           \A t \in Task : attempt[t] > 0 => attempt'[t] > 0,
           attempt' \in [Task -> Nat]
    PROVE  TerraBounded' /\ U \in Slots'
<1> DEFINE Now(W) == {v \in terra \ W : attempt[v] > 0}
           Soon(W) == {v \in terra' \ W : attempt'[v] > 0}
<1>1. U \subseteq Task /\ terra \subseteq Task
  BY DEF TypeOK, Slots
<1>2. ASSUME NEW W, U \subseteq W PROVE Soon(W) = Now(W)
  BY <1>1, <1>2 DEF TypeOK, StoreTypeOK
<1>3. \A W : IsFiniteSet(Now(W)) /\ IsFiniteSet(Soon(W))
  BY <1>1, TaskAssumption, FS_Subset
<1>4. CASE U = {}
  BY <1>2, <1>4 DEF TerraBounded, Slots
<1>5. CASE U # {}
  <2>1. PICK u \in Task : U = {u} /\ Node[u].kind = "agent" /\ SlotAvailable(u)
    BY <1>5 DEF Slots
  <2>2. Cardinality(Soon({u})) = Cardinality(Now({u})) /\ Cardinality(Now({u})) < MaxTerra
    BY <1>2, <2>1 DEF SlotAvailable
  <2>3. U \in Slots'
    BY <2>1, <2>2 DEF Slots, SlotAvailable
  <2>4. Soon({}) \subseteq Soon({u}) \cup {u}
    OBVIOUS
  <2>5. /\ IsFiniteSet(Soon({u}) \cup {u})
        /\ Cardinality(Soon({u}) \cup {u}) <= Cardinality(Soon({u})) + 1
    <3>1. Cardinality(Soon({u})) \in Nat
      BY <1>3, FS_CardinalityType
    <3> DEFINE T == Soon({u})
    <3>2. IsFiniteSet(T)
      BY <1>3
    <3> HIDE DEF T
    <3>3. /\ IsFiniteSet(T \cup {u})
          /\ Cardinality(T \cup {u}) = IF u \in T THEN Cardinality(T) ELSE Cardinality(T) + 1
      BY <3>2, FS_AddElement
    <3>4. Cardinality(T) \in Nat
      BY <3>1 DEF T
    <3>5. Cardinality(T \cup {u}) <= Cardinality(T) + 1
      BY <3>3, <3>4
    <3>6. QED
      BY <3>3, <3>5 DEF T
  <2>6. Cardinality(Soon({})) <= Cardinality(Soon({u}) \cup {u})
    BY <2>4, <2>5, FS_Subset
  <2>7. /\ Cardinality(Soon({})) \in Nat /\ Cardinality(Soon({u})) \in Nat
        /\ Cardinality(Soon({u}) \cup {u}) \in Nat
    BY <1>3, <2>5, FS_CardinalityType
  <2>8. Cardinality(Soon({})) <= MaxTerra
    BY <2>2, <2>5, <2>6, <2>7, RuntimeAssumption
  <2>9. QED
    BY <2>3, <2>8 DEF TerraBounded
<1>6. QED
  BY <1>4, <1>5

LEMMA SlotsPopped ==
    ASSUME TypeOK, KindInv, HeadNeeds, TerraInv, StepDone(Head(todo)),
           \A i \in Iteration : i \in Task
    PROVE  TerraInv'
<1> DEFINE x == Head(todo)
<1>1. PICK U \in Slots : todo \in Seq(Loops(SlotSteps(U)))
  BY DEF TerraInv
<1>2. /\ todo # <<>> /\ todo' = Tail(todo) /\ FieldStep(x) /\ x.op # "each"
      /\ StoreStep(x) \/ (x.op = "submit" /\ UNCHANGED storeVars)
  BY DEF StepDone
<1>3. x \in SlotSteps(U) /\ Tail(todo) \in Seq(Loops(SlotSteps(U)))
  <2>1. x \in Loops(SlotSteps(U)) /\ Tail(todo) \in Seq(Loops(SlotSteps(U)))
    BY <1>1, <1>2
  <2>2. QED
    BY <1>2, <2>1 DEF Loops
<1>4. x \in AnyStep
  BY <1>2, HeadKind
<1>5. x.op = "escalate" => x.task \in U /\ state[x.task] \in Over
  BY <1>2, <1>3 DEF SlotSteps, HeadNeeds, Needs, AnyStep, CommonSteps, IterSteps
<1>6. x.op \in {"start", "launch"} => x.task \in (Task \ terra) \cup U
  BY <1>3 DEF SlotSteps, AnyStep, CommonSteps, IterSteps
<1> HIDE DEF x
<1>7. terra' \subseteq terra \cup U /\ terra \subseteq terra'
  BY <1>2, <1>5 DEF FieldStep
<1>8. /\ attempt' \in [Task -> Nat]
      /\ \A t \in Task : attempt[t] > 0 => attempt'[t] > 0
      /\ \A t \in Task : attempt'[t] > 0 /\ attempt[t] = 0 => t \notin terra \ U
  <2>1. CASE x.op \in {"start", "launch"}
    <3>1. attempt' = [attempt EXCEPT ![x.task] = @ + 1]
      BY <1>2, <2>1 DEF StoreStep, TransitionToRunning, storeVars
    <3>2. x.task \in Task /\ x.task \notin terra \ U
      BY <1>6, <2>1 DEF Slots
    <3>3. QED
      BY <3>1, <3>2 DEF TypeOK, StoreTypeOK
  <2>2. CASE x.op \notin {"start", "launch"}
    <3>1. attempt' = attempt
      BY <1>2, <2>2 DEF StoreStep, TransitionTask, TransitionWorkflow, ReserveBudget,
         ReleaseBudget, AddTask, UpdateDeps, storeVars
    <3>2. QED
      BY <3>1 DEF TypeOK, StoreTypeOK
  <2>3. QED
    BY <2>1, <2>2
<1>9. TerraBounded' /\ U \in Slots'
  BY <1>7, <1>8, SlotTaken DEF TerraInv
<1>10. SlotSteps(U) \subseteq SlotSteps(U)'
  <2>1. (Task \ terra) \cup U \subseteq (Task \ terra') \cup U
    BY <1>7
  <2>2. QED
    BY <2>1 DEF SlotSteps
<1>11. (\E W \in Slots : todo \in Seq(Loops(SlotSteps(W))))'
  <2>1. todo' \in Seq(Loops(SlotSteps(U)'))
    BY <1>2, <1>3, <1>10, LoopsGrow
  <2>2. QED
    BY <1>9, <2>1 DEF Loops
<1>12. \A t \in terra' : Node[t].kind = "agent"
  <2>1. \A u \in U : Node[u].kind = "agent"
    BY DEF Slots
  <2>2. QED
    BY <1>7, <2>1 DEF TerraInv
<1>13. ASSUME NEW i \in Iteration, state'[i] \in {"absent", "pending"} PROVE i \notin terra'
  <2>1. i \in Task
    OBVIOUS
  <2>2. state[i] \in {"absent", "pending"}
    BY <1>2, <1>4, <1>13, <2>1 DEF StoreStep, TransitionTask, TransitionToRunning,
       TransitionWorkflow, ReserveBudget, ReleaseBudget, AddTask, UpdateDeps, storeVars, TypeOK,
       StoreTypeOK, CanTransitionTask
  <2>3. x.op = "escalate" => x.task # i
    BY <1>5, <2>2 DEF Over
  <2>4. QED
    BY <1>2, <2>2, <2>3 DEF TerraInv, FieldStep
<1>14. QED
  BY <1>9, <1>11, <1>12, <1>13 DEF TerraInv

LEMMA TerraKept ==
    ASSUME RuntimeInv, LedgerInv, KindInv, TerraInv, [Next]_vars
    PROVE  TerraInv'
<1>1. CASE Writing
  BY <1>1, SlotsWriting
<1>2. CASE StepDone(Head(todo))
  <2>1. TypeOK /\ HeadNeeds /\ \A i \in Iteration : i \in Task
    BY DEF RuntimeInv, WorkerInv, LedgerInv, Iteration
  <2>2. QED
    BY <1>2, <2>1, SlotsPopped
<1>3. CASE Beside
  <2>1. /\ todo' = todo /\ state' = state /\ terra' = terra /\ TerraBounded' = TerraBounded
        /\ Slots' = Slots /\ \A U : SlotSteps(U)' = SlotSteps(U)
    BY <1>3 DEF Beside, Slots, SlotSteps, SlotAvailable, TerraBounded
  <2>2. PICK U \in Slots : todo \in Seq(Loops(SlotSteps(U)))
    BY DEF TerraInv
  <2>3. (\E W \in Slots : todo \in Seq(Loops(SlotSteps(W))))'
    BY <2>1, <2>2 DEF Loops
  <2>4. QED
    BY <2>1, <2>3 DEF TerraInv
<1>4. QED
  BY <1>1, <1>2, <1>3, NextShape

(* what proofs about scripts may use of the journal's contract *)
LEMMA LedgerAlways == Spec => [](LP!Gated /\ LedgerInv)
<1>1. Init => LP!Gated /\ LedgerInv
  BY LedgerInvStarts
<1>2. RuntimeInv /\ LP!Gated /\ LedgerInv /\ [Next]_vars => (LP!Gated /\ LedgerInv)'
  BY LedgerInvKept, GatedKept DEF RuntimeInv, TypeOK
<1>3. QED
  BY <1>1, <1>2, RuntimeInvAlways, PTL DEF Spec

(* max_terra_tasks bounds the tasks that were ever attempted on terra, those *)
(* escalated after a failure included (_model_slot_available, _maybe_escalate)*)
(* - in every workflow whose repeat nodes do not iterate on terra:           *)
(* _run_repeat asks for no slot.                                             *)
THEOREM TerraIsBounded ==
    (\A i \in Iteration : ~Node[i].terra) => (Spec => []TerraBounded)
<1> SUFFICES ASSUME \A i \in Iteration : ~Node[i].terra PROVE Spec => []TerraBounded
  OBVIOUS
<1>1. Init => TerraInv
  <2> SUFFICES ASSUME Init PROVE TerraInv
    OBVIOUS
  <2>1. {} \in Slots /\ todo \in Seq(Loops(SlotSteps({})))
    BY EmptyIn DEF Init, Slots
  <2>2. {t \in terra : attempt[t] > 0} = {}
    BY DEF Init, StoreInit
  <2>3. TerraBounded
    <3>1. Cardinality({t \in terra : attempt[t] > 0}) = 0
      BY <2>2, FS_EmptySet
    <3>2. QED
      BY <3>1, RuntimeAssumption DEF TerraBounded
  <2>4. QED
    BY <2>1, <2>3, GraphAssumption DEF Init, TerraInv
<1>2. RuntimeInv /\ LedgerInv /\ KindInv /\ TerraInv /\ [Next]_vars => TerraInv'
  BY TerraKept
<1>3. TerraInv => TerraBounded
  BY DEF TerraInv
<1>4. QED
  BY <1>1, <1>2, <1>3, RuntimeInvAlways, LedgerAlways, KindAlways, PTL DEF Spec

-----------------------------------------------------------------------------
(* Retries that make no progress.  Scripts without a retry leave the           *)
(* fingerprints of failures, or record one; a script with a retry is about a  *)
(* task with a single attempt, whose failure it records first.               *)
Steady ==
    AnyStep \ ([op : {"move"}, task : Task, to : {"retry_wait"}]
                  \cup [op : {"update"}, task : Task, fp : {NoFingerprint}])
Again(u) ==
    CommonSteps \cup [op : {"escalate"}, task : {u}]
        \cup {x \in [op : {"move"}, task : {u}, to : {"retry_wait"}] : attempt[u] <= 1}
Until(u) == {ClearPid(u)} \cup [op : {"move"}, task : {u}, to : {"completed", "verifying"}]
Failing(u) ==
    [op : {"fail"}, task : {u}, to : {"rejected", "failed"}, fp : Fingerprint]
        \cup [op : {"update"}, task : {u}, fp : Fingerprint]

\* what is left to do until the failure of u is recorded, and after it
Recording(u, a, y, b) ==
    /\ a \in Seq(Until(u)) /\ y \in Failing(u) /\ b \in Seq(Loops(Again(u)))
    /\ todo = a \o (<<y>> \o b)
Recorded(u) == fingerprint[u] # NoFingerprint /\ todo \in Seq(Loops(Again(u)))
OfFailure ==
    \/ todo \in Seq(Loops(Steady))
    \/ \E u \in Task : \E s \in Seq(Loops(Steady)) : todo = <<ClearPid(u)>> \o s
    \/ \E u \in Task : Node[u].kind = "agent" /\ (Recorded(u) \/ \E a, y, b : Recording(u, a, y, b))

Tried(t) ==
    /\ attempt[t] <= 2
    /\ attempt[t] = 2 => fingerprint[t] # NoFingerprint
    /\ state[t] \in {"absent", "pending"} => attempt[t] = 0
    /\ state[t] \in {"ready", "retry_wait"} =>
          attempt[t] = 0 \/ (attempt[t] = 1 /\ fingerprint[t] # NoFingerprint)
FailInv == OfFailure /\ \A t \in Task : Tried(t)

(* what a step does to the attempts of tasks and the failures they end in     *)
Tells(x) ==
    /\ x.op \in {"fail", "update"} =>
          x.fp # NoFingerprint \/ x.fp = fingerprint[x.task]
    /\ x.op = "move" /\ x.to = "retry_wait" =>
          attempt[x.task] <= 1 /\ fingerprint[x.task] # NoFingerprint

LEMMA TriedKept ==
    ASSUME TypeOK, TaskFacts, HeadNeeds, NEW t \in Task, Tried(t), StepDone(Head(todo)),
           Tells(Head(todo)), Head(todo) \in AnyStep
    PROVE  Tried(t)' /\ (fingerprint[t] # NoFingerprint => fingerprint'[t] # NoFingerprint)
<1> DEFINE x == Head(todo)
<1>1. /\ FieldStep(x) /\ (StoreStep(x) \/ (x.op = "submit" /\ UNCHANGED storeVars))
      /\ x \in AnyStep /\ Tells(x) /\ Needs(x)
  BY DEF StepDone, HeadNeeds
<1> HIDE DEF x
<1> USE DEF TypeOK, StoreTypeOK
<1>2. fingerprint[t] # NoFingerprint => fingerprint'[t] # NoFingerprint
  BY <1>1 DEF FieldStep, Tells
<1>3. attempt[t] \in Nat /\ fingerprint' \in [Task -> Fingerprint \cup {NoFingerprint}]
  BY <1>1 DEF FieldStep, AnyStep, CommonSteps, IterSteps
<1>4. CASE x.op \in {"start", "launch"} /\ x.task = t
  <2>1. /\ attempt'[t] = attempt[t] + 1 /\ state'[t] = "running" /\ state[t] = "ready"
    BY <1>1, <1>4 DEF StoreStep, TransitionToRunning, CanTransitionTask, storeVars
  <2>2. QED
    BY <1>2, <1>3, <2>1 DEF Tried
<1>5. CASE ~(x.op \in {"start", "launch"} /\ x.task = t)
  <2>1. attempt'[t] = attempt[t]
    BY <1>1, <1>5 DEF StoreStep, TransitionTask, TransitionToRunning, TransitionWorkflow,
       ReserveBudget, ReleaseBudget, AddTask, UpdateDeps, storeVars
  <2>2. \/ state'[t] = state[t]
        \/ state[t] = "absent" /\ state'[t] = "pending"
        \/ x.op \in {"move", "fail"} /\ x.task = t /\ state'[t] = x.to
              /\ CanTransitionTask(state[t], x.to)
        \/ state'[t] = "blocked"
    BY <1>1, <1>5 DEF StoreStep, TransitionTask, TransitionToRunning, TransitionWorkflow,
       ReserveBudget, ReleaseBudget, AddTask, UpdateDeps, storeVars
  <2>3. CASE x.op \in {"move", "fail"} /\ x.task = t /\ state'[t] = x.to
               /\ CanTransitionTask(state[t], x.to)
    <3>1. x.to = "ready" => state[t] \in {"pending", "retry_wait"}
      BY <2>3 DEF CanTransitionTask, TaskFacts
    <3>2. x.to = "retry_wait" => attempt[t] <= 1 /\ fingerprint[t] # NoFingerprint
      BY <1>1, <2>3 DEF Tells, AnyStep, CommonSteps, IterSteps
    <3>3. x.to \notin {"absent", "pending"}
      BY <2>3 DEF CanTransitionTask
    <3>4. QED
      BY <1>2, <1>3, <2>1, <2>3, <3>1, <3>2, <3>3 DEF Tried
  <2>4. QED
    BY <1>2, <1>3, <2>1, <2>2, <2>3 DEF Tried
<1>6. QED
  BY <1>2, <1>4, <1>5

(* the next step of a script that may end in a retry *)
LEMMA FailPopped ==
    ASSUME TypeOK, KindInv, TaskFacts, HeadNeeds, FailInv, StepDone(Head(todo))
    PROVE  FailInv'
<1> DEFINE x == Head(todo)
<1>1. /\ todo # <<>> /\ todo' = Tail(todo) /\ x.op # "each" /\ x \in AnyStep
      /\ FieldStep(x) /\ (StoreStep(x) \/ (x.op = "submit" /\ UNCHANGED storeVars))
  BY HeadKind DEF StepDone
<1>2. ASSUME Tells(x) PROVE \A t \in Task : /\ Tried(t)'
                                            /\ fingerprint[t] # NoFingerprint
                                                  => fingerprint'[t] # NoFingerprint
  BY <1>1, <1>2, TriedKept DEF FailInv
<1>3. CASE todo \in Seq(Loops(Steady))
  <2>1. x \in Loops(Steady) /\ Tail(todo) \in Seq(Loops(Steady))
    BY <1>1, <1>3
  <2>2. x \in Steady
    BY <1>1, <2>1 DEF Loops
  <2>3. Tells(x)
    BY <2>2, RuntimeAssumption DEF Tells, Steady, AnyStep, CommonSteps, IterSteps
  <2>4. OfFailure'
    BY <1>1, <2>1 DEF OfFailure
  <2>5. QED
    BY <1>2, <2>3, <2>4 DEF FailInv
<1>4. ASSUME NEW u \in Task, NEW s \in Seq(Loops(Steady)), todo = <<ClearPid(u)>> \o s
      PROVE  FailInv'
  <2> DEFINE c == ClearPid(u)
             S == {c} \cup Loops(Steady)
  <2>1. c \in S /\ s \in Seq(S)
    BY <1>4, SeqGrows
  <2> HIDE DEF c, S
  <2>2. x = c /\ Tail(todo) = s
    BY <1>4, <2>1, OneFirst DEF c
  <2>3. Tells(x)
    BY <2>2 DEF c, ClearPid, Update, Tells
  <2>4. OfFailure'
    BY Zenon, <1>1, <1>4, <2>2 DEF OfFailure
  <2>5. QED
    BY <1>2, <2>3, <2>4 DEF FailInv
<1>5. ASSUME NEW u \in Task, Node[u].kind = "agent", Recorded(u)
      PROVE  FailInv'
  <2>1. x \in Loops(Again(u)) /\ Tail(todo) \in Seq(Loops(Again(u)))
    BY <1>1, <1>5 DEF Recorded
  <2>2. x \in Again(u)
    BY <1>1, <2>1 DEF Loops
  <2>3. Tells(x)
    BY <1>5, <2>2, RuntimeAssumption DEF Tells, Again, CommonSteps, Recorded
  <2>4. fingerprint'[u] # NoFingerprint
    BY <1>2, <1>5, <2>3 DEF Recorded
  <2>5. attempt'[u] = attempt[u]
    <3>1. x.op \in {"start", "launch"} => x.task # u
      BY <1>5, <2>2 DEF Again, CommonSteps
    <3>2. QED
      BY <1>1, <3>1 DEF TypeOK, StoreTypeOK, StoreStep, TransitionTask, TransitionToRunning,
         TransitionWorkflow, ReserveBudget, ReleaseBudget, AddTask, UpdateDeps, storeVars
  <2>6. Again(u)' = Again(u)
    BY <2>5 DEF Again
  <2>7. Recorded(u)'
    BY <1>1, <2>1, <2>4, <2>6 DEF Recorded, Loops
  <2>8. OfFailure'
    BY <1>5, <2>7 DEF OfFailure
  <2>9. QED
    BY <1>2, <2>3, <2>8 DEF FailInv
<1>6. ASSUME NEW u \in Task, Node[u].kind = "agent", NEW a, NEW y, NEW b, Recording(u, a, y, b)
      PROVE  FailInv'
  <2> DEFINE rest == <<y>> \o b
             S == Until(u) \cup Failing(u) \cup Loops(Again(u))
  <2>1. /\ a \in Seq(Until(u)) /\ y \in Failing(u) /\ b \in Seq(Loops(Again(u)))
        /\ todo = a \o rest /\ y \in S /\ b \in Seq(S) /\ a \in Seq(S)
    BY <1>6, SeqGrows DEF Recording
  <2>2. rest \in Seq(S)
    <3> HIDE DEF S
    <3>1. QED
      BY <2>1, OneFirst
  <2> HIDE DEF S
  <2>3. CASE a = <<>>
    <3>1. x = y /\ Tail(todo) = b
      <4>1. todo = rest
        BY <2>1, <2>2, <2>3, EmptyFront
      <4>2. QED
        BY <2>1, <4>1, OneFirst
    <3>2. Tells(x) /\ x.op \in {"fail", "update"} /\ x.task = u /\ x.fp \in Fingerprint
      BY <2>1, <3>1, RuntimeAssumption DEF Tells, Failing
    <3> HIDE DEF x
    <3>3. fingerprint'[u] # NoFingerprint
      BY <1>1, <3>2, RuntimeAssumption DEF FieldStep, TypeOK
    <3>4. attempt'[u] = attempt[u]
      BY <1>1, <3>2 DEF TypeOK, StoreTypeOK, StoreStep, TransitionTask, TransitionToRunning,
         TransitionWorkflow, ReserveBudget, ReleaseBudget, AddTask, UpdateDeps, storeVars
    <3>5. Again(u)' = Again(u)
      BY <3>4 DEF Again
    <3>6. Recorded(u)'
      BY <1>1, <2>1, <3>1, <3>3, <3>5 DEF Recorded, Loops
    <3>7. OfFailure'
      BY <1>6, <3>6 DEF OfFailure
    <3>8. QED
      BY <1>2, <3>2, <3>7 DEF FailInv
  <2>4. CASE a # <<>>
    <3>1. /\ x = Head(a) /\ x \in Until(u) /\ Tail(a) \in Seq(Until(u))
          /\ Tail(todo) = Tail(a) \o rest
      <4> HIDE DEF rest
      <4>1. QED
        BY <2>1, <2>2, <2>4, FrontFirst
    <3>2. Tells(x) /\ x.op \in {"move", "update"} /\ (x.op = "update" => x = ClearPid(u))
      BY <3>1 DEF Tells, Until, ClearPid, Update
    <3> HIDE DEF x
    <3>3. fingerprint'[u] = fingerprint[u]
      BY <1>1, <3>2 DEF FieldStep, TypeOK, ClearPid, Update
    <3>4. attempt'[u] = attempt[u]
      BY <1>1, <3>2 DEF TypeOK, StoreTypeOK, StoreStep, TransitionTask, TransitionToRunning,
         TransitionWorkflow, ReserveBudget, ReleaseBudget, AddTask, UpdateDeps, storeVars
    <3>5. Again(u)' = Again(u) /\ Until(u)' = Until(u) /\ Failing(u)' = Failing(u)
      BY <3>3, <3>4 DEF Again, Until, ClearPid, Failing
    <3>6. Recording(u, Tail(a), y, b)'
      BY <1>1, <2>1, <3>1, <3>5 DEF Recording, Loops
    <3>7. OfFailure'
      <4>1. (\E d, z, e : Recording(u, d, z, e))'
        BY <3>6
      <4>2. QED
        BY <1>6, <4>1 DEF OfFailure
    <3>8. QED
      BY <1>2, <3>2, <3>7 DEF FailInv
  <2>5. QED
    BY <2>3, <2>4
<1>7. QED
  BY <1>3, <1>4, <1>5, <1>6 DEF FailInv, OfFailure

(* what is written when an attempt is over: at most a failure to record and   *)
(* then, if it may be, a retry                                               *)
Quietly ==
    \E s \in Seq(CommonSteps) : todo' = s \/ \E u \in Task : todo' = <<ClearPid(u)>> \o s
Failed(u, a, y, b) ==
    /\ a \in Seq(Until(u)) /\ y \in Failing(u) /\ b \in Seq(CommonSteps \cup RetryOwn(u))
    /\ todo' = a \o (<<y>> \o b)

LEMMA FailureWritten ==
    ASSUME NEW t \in Task, NEW f \in Fingerprint, Node[t].kind = "agent",
           NEW to \in {"rejected", "failed"}, NEW a \in Seq(Until(t)), NEW steps,
           steps = <<Fail(t, to, f), Release(t)>> \o Escalate(t, f) \o MaybeRetry(t, f)
    PROVE  /\ todo' = a \o steps => \E y, b : Failed(t, a, y, b)
           /\ todo' = <<Update(t, f)>> \o steps => \E y, b : Failed(t, <<>>, y, b)
<1> DEFINE Own == CommonSteps \cup RetryOwn(t)
           verdict == <<Fail(t, to, f), Release(t)>>
           first == <<Fail(t, to, f)>>
           next == <<Release(t)>>
           escalation == Escalate(t, f)
           retry == MaybeRetry(t, f)
           last == (next \o escalation) \o retry
<1>1. escalation \in Seq(Own) /\ retry \in Seq(Own)
  BY NextTryIn
<1>2. first \in Seq(Own) /\ next \in Seq(Own) /\ verdict = first \o next
  <2>1. Fail(t, to, f) \in Own /\ Release(t) \in Own
    BY CommonIn
  <2> HIDE DEF Own
  <2>2. QED
    BY <2>1, OneIn, Pair
<1>3. Fail(t, to, f) \in Failing(t) /\ Update(t, f) \in Failing(t)
  BY DEF Failing, Fail, Update
<1>4. steps = (verdict \o escalation) \o retry
  OBVIOUS
<1> HIDE DEF Own, verdict, first, next, escalation, retry
<1>5. last \in Seq(Own) /\ steps \in Seq(Own) /\ steps = first \o last
  <2>1. Regroups(first, next, escalation, retry)
    BY <1>1, <1>2, Reassoc
  <2>2. QED
    BY <1>1, <1>2, <1>4, <2>1, ConcatIn DEF Regroups
<1> HIDE DEF last
<1>6. ASSUME todo' = a \o steps PROVE \E y, b : Failed(t, a, y, b)
  <2>1. Failed(t, a, Fail(t, to, f), last)
    BY <1>3, <1>5, <1>6 DEF Failed, first, Own
  <2>2. QED
    BY <2>1
<1>7. ASSUME todo' = <<Update(t, f)>> \o steps PROVE \E y, b : Failed(t, <<>>, y, b)
  <2> DEFINE all == <<Update(t, f)>> \o steps
             W == {Update(t, f)} \cup Own
  <2>1. Update(t, f) \in W /\ steps \in Seq(W)
    BY <1>5, SeqGrows
  <2>2. all = <<>> \o all
    <3> HIDE DEF W
    <3>1. all \in Seq(W)
      BY <2>1, OneFirst
    <3> HIDE DEF all
    <3>2. QED
      BY <3>1, EmptyFront
  <2>3. Failed(t, <<>>, Update(t, f), steps)
    BY <1>3, <1>5, <1>7, <2>2, EmptyIn DEF Failed, Own
  <2>4. QED
    BY <2>3
<1>8. QED
  BY <1>6, <1>7

LEMMA CollectShape ==
    ASSUME KindInv, CollectFuture
    PROVE  \/ Quietly
           \/ \E u \in Task : Node[u].kind = "agent" /\ \E a, y, b : Failed(u, a, y, b)
<1>1. PICK t \in Task :
         \/ CollectCancelled(t) \/ CollectAccepted(t) \/ CollectDenied(t)
         \/ CollectRejected(t) \/ CollectExhausted(t) \/ CollectFailed(t)
         \/ CollectUnfinished(t)
  BY DEF CollectFuture
<1> DEFINE done == <<Move(t, "completed"), Move(t, "verifying")>>
           clear == <<ClearPid(t)>>
           complete == CompleteSteps(t)
<1>2. Node[t].kind = "agent"
  BY <1>1 DEF KindInv, CollectCancelled, CollectAccepted, CollectDenied, CollectRejected,
     CollectExhausted, CollectFailed, CollectUnfinished, Collect, Ended
<1>3. /\ done \in Seq(CommonSteps) /\ <<>> \in Seq(CommonSteps)
      /\ <<Move(t, "accepted"), Release(t)>> \in Seq(CommonSteps)
      /\ <<Move(t, "rejected"), Release(t)>> \in Seq(CommonSteps)
      /\ <<Move(t, "budget_exhausted"), Release(t)>> \in Seq(CommonSteps)
      /\ \A f \in Fingerprint : <<Update(t, f)>> \in Seq(CommonSteps)
  <2>1. Move(t, "accepted") \in CommonSteps /\ \A f \in Fingerprint : Update(t, f) \in CommonSteps
    BY <1>2, CommonIn DEF Settling
  <2>2. QED
    BY <2>1, PieceIn, OneIn, EmptyIn
<1> DEFINE All == {ClearPid(t)} \cup CommonSteps
<1>4. /\ complete = clear \o done /\ clear \in Seq(All)
      /\ Seq(CommonSteps) \subseteq Seq(All)
  BY CompleteIs, OneIn, SeqGrows
<1>5. ASSUME NEW s \in Seq(CommonSteps), Collect(t, complete \o s) PROVE Quietly
  <2>1. todo' = (clear \o done) \o s
    BY <1>4, <1>5 DEF Collect
  <2>2. clear \in Seq(All) /\ done \in Seq(All) /\ s \in Seq(All)
    BY <1>3, <1>4
  <2>3. done \o s \in Seq(CommonSteps)
    BY <1>3, ConcatIn
  <2> HIDE DEF done, All
  <2>4. (clear \o done) \o s = clear \o (done \o s)
    <3> HIDE DEF clear
    <3>1. QED
      BY <2>2, ConcatAssoc
  <2>5. QED
    BY <2>1, <2>3, <2>4 DEF Quietly
<1>6. CASE CollectCancelled(t)
  <2>1. todo' = clear \o <<>>
    <3>1. todo' = clear
      BY <1>6 DEF CollectCancelled, Collect
    <3> HIDE DEF clear, All
    <3>2. QED
      BY <1>4, <3>1, EmptyFront
  <2>2. QED
    BY <1>3, <2>1 DEF Quietly
<1>7. CASE CollectAccepted(t) \/ CollectDenied(t)
  <2> HIDE DEF complete
  <2>1. QED
    BY <1>3, <1>5, <1>7 DEF CollectAccepted, CollectDenied, complete
<1>8. CASE CollectExhausted(t)
  BY <1>3, <1>8, CompleteIs DEF CollectExhausted, Collect, Quietly
<1>9. CASE CollectUnfinished(t)
  <2> HIDE DEF complete
  <2>1. QED
    BY <1>3, <1>5, <1>9 DEF CollectUnfinished, complete
<1>10. CASE CollectRejected(t)
  <2>1. PICK f \in Fingerprint :
           Collect(t, complete \o <<Fail(t, "rejected", f), Release(t)>>
                        \o Escalate(t, f) \o MaybeRetry(t, f))
    BY <1>10 DEF CollectRejected
  <2> DEFINE verdict == <<Fail(t, "rejected", f), Release(t)>>
             escalation == Escalate(t, f)
             retry == MaybeRetry(t, f)
             Own == All \cup CommonSteps \cup RetryOwn(t)
             steps == (verdict \o escalation) \o retry
  <2>2. complete \in Seq(Until(t))
    <3>1. ClearPid(t) \in Until(t) /\ Move(t, "completed") \in Until(t) /\ Move(t, "verifying") \in Until(t)
      BY DEF Until, Move
    <3>2. QED
      BY <3>1, ThreeIn DEF CompleteSteps
  <2>3. /\ verdict \in Seq(Own) /\ escalation \in Seq(Own) /\ retry \in Seq(Own)
        /\ complete \in Seq(Own)
    <3>1. escalation \in Seq(CommonSteps \cup RetryOwn(t)) /\ retry \in Seq(CommonSteps \cup RetryOwn(t))
      BY <1>2, NextTryIn
    <3>2. verdict \in Seq(CommonSteps)
      BY PieceIn
    <3>3. complete \in Seq(All)
      <4>1. clear \in Seq(All) /\ done \in Seq(All)
        BY <1>3, <1>4
      <4> HIDE DEF clear, done, All, complete
      <4>2. QED
        BY <1>4, <4>1, ConcatIn
    <3> HIDE DEF verdict, escalation, retry, complete, All
    <3>4. QED
      BY <3>1, <3>2, <3>3, SeqGrows
  <2>4. Collect(t, ((complete \o verdict) \o escalation) \o retry)
    BY <2>1
  <2>5. steps = <<Fail(t, "rejected", f), Release(t)>> \o Escalate(t, f) \o MaybeRetry(t, f)
    OBVIOUS
  <2> HIDE DEF verdict, escalation, retry, complete, Own
  <2>6. todo' = complete \o steps
    <3>1. Regroups(complete, verdict, escalation, retry)
      BY <2>3, Reassoc
    <3>2. QED
      BY <2>4, <3>1 DEF Regroups, Collect
  <2> HIDE DEF steps
  <2>7. \E y, b : Failed(t, complete, y, b)
    BY <1>2, <2>2, <2>5, <2>6, FailureWritten
  <2>8. QED
    BY <1>2, <2>7
<1>11. CASE CollectFailed(t)
  <2>1. PICK f \in Fingerprint :
          Collect(t, <<Update(t, f)>> \o
             (IF state[t] # "running" THEN <<>>
              ELSE <<Fail(t, "failed", f), Release(t)>> \o Escalate(t, f) \o MaybeRetry(t, f)))
    BY <1>11 DEF CollectFailed
  <2> DEFINE first == <<Update(t, f)>>
             steps == <<Fail(t, "failed", f), Release(t)>> \o Escalate(t, f) \o MaybeRetry(t, f)
  <2>2. todo' = first \o <<>> \/ todo' = first \o steps
    BY <2>1 DEF Collect
  <2>3. CASE todo' = first \o <<>>
    <3>1. first \o <<>> \in Seq(CommonSteps)
      BY <1>3, ConcatIn
    <3>2. QED
      BY <2>3, <3>1 DEF Quietly
  <2>4. CASE todo' = first \o steps
    <3>1. steps = <<Fail(t, "failed", f), Release(t)>> \o Escalate(t, f) \o MaybeRetry(t, f)
      OBVIOUS
    <3> HIDE DEF steps
    <3>2. \E y, b : Failed(t, <<>>, y, b)
      BY <1>2, <2>4, <3>1, EmptyIn, FailureWritten
    <3>3. QED
      BY <1>2, <3>2
  <2>5. QED
    BY <2>2, <2>3, <2>4
<1>12. QED
  BY <1>1, <1>6, <1>7, <1>8, <1>9, <1>10, <1>11

LEMMA WritingHead ==
    ASSUME LoopInv, Writing, todo # <<>>
    PROVE  todo' = <<>> \/ Head(todo).op \in {"each", "decide", "reserve", "iterate", "drive"}
<1>1. CASE Scripting
  BY <1>1 DEF Scripting, Boot, Reconcile, LoopInv, Recovered, Resume, RefreshBefore,
     RefreshAfter, Refresh, TakeInbox, HandleRequest, HandlePause, HandleResume, HandleCancel,
     HandleRetry, HandleDecision, Handle, InboxDone, ListReady, LaunchTask, LaunchDenied,
     LaunchCondition, LaunchCheck, LaunchUnusable, LaunchMap, LaunchReduce, LaunchRepeat,
     LaunchApproval, LaunchNoSlot, LaunchCached, LaunchAgent, LaunchUnprepared, Launch, EndLaunch,
     SettleIteration, SettleWait, SettleAgain, SettleCancelled, SettleSucceeded, SettleExhausted,
     SettleFailed, SettleStalled, SettleRefused, Conclude, Settle, WaitTimeout, Idle
<1>2. CASE CollectFuture
  BY <1>2 DEF CollectFuture, CollectCancelled, CollectAccepted, CollectDenied, CollectRejected,
     CollectExhausted, CollectFailed, CollectUnfinished, Collect, Idle
<1>3. CASE Drives
  BY <1>3 DEF Drives, DriveAccepted, DriveRejected, DriveExhausted, DriveRaised,
     DriveUnfinished, Drive, At
<1>4. CASE Rescripting
  BY <1>4 DEF Rescripting, PerformReserveRefused, PerformReserveRefusedRepeat, ReserveRefused,
     PerformEach, PerformDecide, PerformIterate, At
<1>5. CASE Close \/ Crash
  BY <1>5 DEF Close, Crash, Idle
<1>6. QED
  BY <1>1, <1>2, <1>3, <1>4, <1>5 DEF Writing

LEMMA SteadyHas ==
    /\ CommonSteps \subseteq Steady /\ IterSteps \subseteq Steady /\ SettleSteps \subseteq Steady
    /\ \A u \in Task : LaunchOwn(u) \subseteq Steady
    /\ \A c \in Iteration : ChildOwn(c) \subseteq Steady
<1>1. CommonSteps \subseteq Steady
  BY OwnIsAny, RuntimeAssumption DEF Steady, CommonSteps
<1>2. IterSteps \subseteq Steady /\ SettleSteps \subseteq Steady
  BY OwnIsAny DEF Steady, IterSteps, SettleSteps
<1>3. ASSUME NEW u \in Task PROVE LaunchOwn(u) \subseteq Steady
  <2>1. LaunchOwn(u) \subseteq AnyStep
    BY OwnIsAny
  <2>2. QED
    BY <2>1 DEF Steady, LaunchOwn
<1>4. ASSUME NEW c \in Iteration PROVE ChildOwn(c) \subseteq Steady
  <2>1. ChildOwn(c) \subseteq AnyStep
    BY OwnIsAny
  <2>2. QED
    BY <2>1 DEF Steady, ChildOwn
<1>5. QED
  BY <1>1, <1>2, <1>3, <1>4

(* no request to retry, and all failures look the same *)
AloneAndAlike ==
    /\ \A r \in Request : r.type # "retry"
    /\ \A f1, f2 \in Fingerprint : f1 = f2

LEMMA AgainHas ==
    ASSUME TypeOK, FailInv, AloneAndAlike, NEW u \in Task
    PROVE  CommonSteps \cup RetryOwn(u) \subseteq Again(u)
<1>1. MayRetry(u) => attempt[u] <= 1
  <2>1. MayRetry(u) => fingerprint[u] = NoFingerprint
    BY DEF MayRetry, AloneAndAlike, TypeOK
  <2>2. QED
    BY <2>1 DEF FailInv, Tried, TypeOK, StoreTypeOK
<1>2. QED
  BY <1>1 DEF RetryOwn, Again

LEMMA FailWritten ==
    ASSUME TypeOK, TodoInv, LoopInv, KindInv, FailInv, AloneAndAlike, Writing
    PROVE  OfFailure'
<1>0. UNCHANGED <<storeVars, fieldVars>>
  <2>1. Rest(AnyStep)
    BY KindRest
  <2>2. QED
    BY <2>1, ScriptWrites
<1>1. \A u : /\ Again(u)' = Again(u) /\ Until(u)' = Until(u) /\ Failing(u)' = Failing(u)
             /\ ClearPid(u)' = ClearPid(u) /\ Loops(Again(u))' = Loops(Again(u))
  BY <1>0 DEF storeVars, fieldVars, Again, Until, Failing, ClearPid, Update, Loops
<1>2. ASSUME NEW s \in Seq(Loops(Steady)),
             todo' = s \/ \E u \in Task : todo' = <<ClearPid(u)>> \o s
      PROVE  OfFailure'
  BY <1>1, <1>2 DEF OfFailure, Loops
<1>3. CASE CollectFuture
  <2>1. ASSUME Quietly PROVE OfFailure'
    <3>1. PICK s \in Seq(CommonSteps) : todo' = s \/ \E u \in Task : todo' = <<ClearPid(u)>> \o s
      BY <2>1 DEF Quietly
    <3>2. s \in Seq(Loops(Steady))
      BY SteadyHas, LoopsGrow
    <3>3. QED
      BY <1>2, <3>1, <3>2
  <2>2. ASSUME NEW u \in Task, Node[u].kind = "agent", NEW a, NEW y, NEW b, Failed(u, a, y, b)
        PROVE  OfFailure'
    <3>1. b \in Seq(Loops(Again(u)))
      BY <2>2, AgainHas, LoopsGrow DEF Failed
    <3>2. Recording(u, a, y, b)'
      BY <1>1, <2>2, <3>1 DEF Recording, Failed
    <3>3. (\E d, z, e : Recording(u, d, z, e))'
      BY <3>2
    <3>4. QED
      BY <2>2, <3>3 DEF OfFailure
  <2>3. QED
    BY <1>3, <2>1, <2>2, CollectShape
<1>4. CASE ~CollectFuture
  <2>0. ~Retrying
    BY <1>4 DEF Retrying, AloneAndAlike
  <2>1. ASSUME NEW G, Rest(G), G \subseteq Steady PROVE OfFailure'
    <3>1. PICK s : Wrote(s, G) /\ (todo' = s \/ \E u \in Task : todo' = <<ClearPid(u)>> \o s)
      BY <2>1, ScriptWrites DEF Writes
    <3>2. s \in Seq(Loops(Steady))
      BY <2>0, <2>1, <3>1, SteadyHas, WrittenIn
    <3>3. QED
      BY <1>2, <3>1, <3>2
  <2>2. CASE todo = <<>> \/ todo' = <<>>
    <3>1. todo = <<>> => Rest(Steady)
      BY DEF Rest
    <3>2. QED
      BY <1>2, <2>1, <2>2, <3>1, EmptyIn
  <2>3. ASSUME todo # <<>>, todo' # <<>> PROVE OfFailure'
    <3>0. Head(todo).op \in {"each", "decide", "reserve", "iterate", "drive"}
      BY <2>3, WritingHead
    <3>1. Head(todo).op = "each" => Head(todo).items \subseteq Seq(CommonSteps)
      BY <2>3, KindRest DEF Rest
    <3>2. CASE todo \in Seq(Loops(Steady))
      <4>1. Rest(Steady)
        BY <2>3, <3>1, <3>2 DEF Rest
      <4>2. QED
        BY <2>1, <4>1
    <3>3. ASSUME NEW u \in Task, NEW s \in Seq(Loops(Steady)), todo = <<ClearPid(u)>> \o s
          PROVE  FALSE
      <4> DEFINE c == ClearPid(u)
                 S == {c} \cup Loops(Steady)
      <4>1. c \in S /\ s \in Seq(S)
        BY SeqGrows
      <4>2. c.op = "update"
        BY DEF ClearPid, Update
      <4> HIDE DEF c, S
      <4>3. Head(todo) = c
        BY <3>3, <4>1, OneFirst DEF c
      <4>4. QED
        BY <3>0, <4>2, <4>3
    <3>4. ASSUME NEW u \in Task, Node[u].kind = "agent", Recorded(u) PROVE OfFailure'
      <4>1. Rest(Again(u))
        BY <2>3, <3>1, <3>4 DEF Rest, Recorded
      <4>2. Head(todo) \in Loops(Again(u))
        BY <2>3, <3>4 DEF Recorded
      <4>3. Head(todo).op \notin {"iterate", "drive"}
        BY <4>2 DEF Loops, Again, CommonSteps
      <4>4. todo' \in Seq(Loops(Again(u) \cup CommonSteps))
        BY <2>0, <2>3, <4>1, <4>3, ScriptWrites DEF Writes, Wrote
      <4>5. Again(u) \cup CommonSteps = Again(u)
        BY DEF Again
      <4>6. Recorded(u)'
        BY <1>0, <1>1, <3>4, <4>4, <4>5 DEF Recorded, fieldVars
      <4>7. QED
        BY <3>4, <4>6 DEF OfFailure
    <3>5. ASSUME NEW u \in Task, NEW a, NEW y, NEW b, Recording(u, a, y, b) PROVE FALSE
      <4> DEFINE rest == <<y>> \o b
                 S == Until(u) \cup Failing(u) \cup Loops(Again(u))
      <4>1. /\ a \in Seq(Until(u)) /\ y \in Failing(u) /\ y \in S /\ b \in Seq(S) /\ todo = a \o rest
        BY <3>5, SeqGrows DEF Recording
      <4>2. rest \in Seq(S) /\ Head(rest) = y
        <5> HIDE DEF S
        <5>1. QED
          BY <4>1, OneFirst
      <4> HIDE DEF S, rest
      <4>3. a = <<>> => Head(todo) = y
        BY <4>1, <4>2, EmptyFront
      <4>4. a # <<>> => Head(todo) \in Until(u)
        BY <4>1, <4>2, FrontFirst
      <4>5. \A x \in Until(u) \cup Failing(u) : x.op \in {"move", "fail", "update"}
        BY DEF Until, Failing, ClearPid, Update
      <4>6. QED
        BY <3>0, <4>1, <4>3, <4>4, <4>5
    <3>6. QED
      BY <3>2, <3>3, <3>4, <3>5 DEF FailInv, OfFailure
  <2>4. QED
    BY <2>2, <2>3
<1>5. QED
  BY <1>3, <1>4

LEMMA FailKept ==
    ASSUME RuntimeInv, LedgerInv, KindInv, FailInv, AloneAndAlike, [Next]_vars
    PROVE  FailInv'
<1>1. TypeOK /\ TodoInv /\ LoopInv /\ HeadNeeds /\ TaskFacts
  BY DEF RuntimeInv, WorkerInv, LedgerInv
<1>2. CASE Writing
  <2>1. OfFailure'
    BY <1>1, <1>2, FailWritten
  <2>2. UNCHANGED <<storeVars, fieldVars>>
    BY <1>1, <1>2, KindRest, ScriptWrites
  <2>3. \A t \in Task : Tried(t)'
    BY <2>2 DEF FailInv, Tried, storeVars, fieldVars
  <2>4. QED
    BY <2>1, <2>3 DEF FailInv
<1>3. CASE StepDone(Head(todo))
  BY <1>1, <1>3, FailPopped
<1>4. CASE Beside
  <2>1. /\ todo' = todo /\ state' = state /\ attempt' = attempt /\ fingerprint' = fingerprint
    BY <1>4 DEF Beside
  <2>2. \A u, a, y, b : Recorded(u)' = Recorded(u) /\ Recording(u, a, y, b)' = Recording(u, a, y, b)
                         /\ ClearPid(u)' = ClearPid(u)
    BY <2>1 DEF Recorded, Recording, Again, Until, Failing, ClearPid, Update, Loops
  <2>3. OfFailure' = OfFailure
    BY <2>1, <2>2 DEF OfFailure, Loops
  <2>4. \A t \in Task : Tried(t)' = Tried(t)
    BY <2>1 DEF Tried
  <2>5. QED
    BY <2>3, <2>4 DEF FailInv
<1>5. QED
  BY <1>2, <1>3, <1>4, NextShape

(* Two consecutive failures with one fingerprint end the automatic retries   *)
(* (maybe_retry), whatever max_attempts allows and wherever crashes and      *)
(* refused appends cut a retry short; only an operator may ask for more.     *)
THEOREM NoRetryWithoutProgress ==
    IsFiniteSet(Fingerprint) /\ (\A r \in Request : r.type # "retry")
        => (Spec => []SameFailureStopsRetrying)
<1> SUFFICES ASSUME IsFiniteSet(Fingerprint), \A r \in Request : r.type # "retry"
             PROVE  Spec => []SameFailureStopsRetrying
  OBVIOUS
<1>1. CASE Cardinality(Fingerprint) = 1
  <2>1. AloneAndAlike
    <3>1. PICK f : Fingerprint = {f}
      BY <1>1, FS_Singleton
    <3>2. QED
      BY <3>1 DEF AloneAndAlike
  <2>2. Init => FailInv
    BY EmptyIn DEF Init, StoreInit, FailInv, OfFailure, Tried
  <2>3. RuntimeInv /\ LedgerInv /\ KindInv /\ FailInv /\ [Next]_vars => FailInv'
    BY <2>1, FailKept
  <2>4. FailInv => SameFailureStopsRetrying
    BY DEF FailInv, Tried, SameFailureStopsRetrying
  <2>5. QED
    BY <2>2, <2>3, <2>4, RuntimeInvAlways, LedgerAlways, KindAlways, PTL DEF Spec
<1>2. CASE Cardinality(Fingerprint) # 1
  <2>1. SameFailureStopsRetrying
    BY <1>2 DEF SameFailureStopsRetrying
  <2>2. QED
    BY <2>1, PTL
<1>3. QED
  BY <1>1, <1>2

-----------------------------------------------------------------------------
(* What a script still has to do, itself or in one of its loops.             *)
Owed(x, s) ==
    \/ x \in StepsOf(s)
    \/ \E e \in StepsOf(s) : e.op = "each" /\ <<x>> \in e.items

LEMMA OwedPop ==
    ASSUME NEW S, NEW s \in Seq(S), s # <<>>, Head(s).op # "each", NEW x, Owed(x, s)
    PROVE  x = Head(s) \/ Owed(x, Tail(s))
BY StepsOfTail DEF Owed

(* a pass of a loop that performs one item of one step *)
LEMMA OwedEach ==
    ASSUME NEW S, NEW s \in Seq(S), s # <<>>, Head(s).op = "each", NEW z \in S,
           <<z>> \in Head(s).items, Each(Head(s).items \ {<<z>>}) \in Seq(S),
           NEW x, x.op # "each", Owed(x, s)
    PROVE  Owed(x, (<<z>> \o Each(Head(s).items \ {<<z>>})) \o Tail(s))
<1> DEFINE items == Head(s).items
           one == <<z>>
           others == Each(items \ {one})
           tail == Tail(s)
           all == (one \o others) \o tail
<1> SUFFICES Owed(x, all)
  OBVIOUS
<1>1. one \in Seq(S) /\ others \in Seq(S) /\ tail \in Seq(S)
  BY OneIn
<1>2. StepsOf(s) = {Head(s)} \cup StepsOf(tail)
  BY StepsOfTail
<1>3. StepsOf(one) = {z}
  BY OneStep
<1>4. items \ {one} # {} =>
         [op |-> "each", items |-> items \ {one}] \in StepsOf(others)
  BY OneStep DEF Each
<1>10. x \in StepsOf(s) \/ \E e \in StepsOf(s) : e.op = "each" /\ <<x>> \in e.items
  BY DEF Owed
<1> HIDE DEF others, tail, items
<1>5. StepsOf(all) = (StepsOf(one) \cup StepsOf(others)) \cup StepsOf(tail)
  <2> DEFINE both == one \o others
  <2> HIDE DEF one
  <2>1. both \in Seq(S)
    BY <1>1, ConcatIn
  <2>2. StepsOf(both) = StepsOf(one) \cup StepsOf(others)
    BY <1>1, StepsOfJoin
  <2>3. StepsOf(both \o tail) = StepsOf(both) \cup StepsOf(tail)
    <3> HIDE DEF both
    <3>1. QED
      BY <1>1, <2>1, StepsOfJoin
  <2>4. QED
    BY <2>2, <2>3
<1> HIDE DEF all
<1>6. CASE x \in StepsOf(tail) \/ \E e \in StepsOf(tail) : e.op = "each" /\ <<x>> \in e.items
  BY <1>5, <1>6 DEF Owed
<1>7. CASE <<x>> \in items
  <2>1. CASE x = z
    BY <1>3, <1>5, <2>1 DEF Owed
  <2>2. CASE x # z
    <3>1. <<x>> \in items \ {one}
      BY <1>7, <2>2
    <3>2. [op |-> "each", items |-> items \ {one}] \in StepsOf(all)
      BY <1>4, <1>5, <3>1
    <3>3. QED
      BY <3>1, <3>2 DEF Owed
  <2>3. QED
    BY <2>1, <2>2
<1>8. x # Head(s)
  OBVIOUS
<1>9. QED
  BY <1>2, <1>6, <1>7, <1>8, <1>10 DEF items

(* what a step of a script does to a task                                    *)
Fresh == \A t \in Task :
    attempt[t] = 0 => state[t] \in {"absent", "pending", "ready", "blocked", "cancelled"}

LEMMA TaskStep ==
    ASSUME StoreTypeOK, NEW x \in AnyStep, StoreStep(x) \/ UNCHANGED storeVars, NEW t \in Task
    PROVE  /\ state[t] \in {"blocked", "cancelled"} => state'[t] = state[t] /\ attempt'[t] = attempt[t]
           /\ state'[t] = "accepted" =>
                 state[t] = "accepted" \/ (x.op = "move" /\ x.task = t /\ x.to = "accepted")
           /\ attempt'[t] # attempt[t] => x.op \in {"start", "launch"} /\ x.task = t
           /\ state[t] # "absent" => deps[t] \subseteq deps'[t] /\ state'[t] # "absent"
           /\ state[t] = "absent" /\ state'[t] # "absent" => x.op = "add" /\ x.task = t
           /\ state[t] = "accepted" => state'[t] = "accepted"
           /\ Fresh => (attempt'[t] = 0 =>
                 state'[t] \in {"absent", "pending", "ready", "blocked", "cancelled"})
<1> USE DEF StoreTypeOK, Fresh
<1>0. /\ x.op = "move" => x.to # "running"
      /\ x.op = "fail" => x.to \in {"rejected", "failed"}
  BY DEF AnyStep, CommonSteps, IterSteps
<1>1. CASE UNCHANGED storeVars
  BY <1>1 DEF storeVars
<1>2. CASE x.op \in {"move", "fail"} /\ TransitionTask(x.task, x.to)
  BY <1>0, <1>2 DEF TransitionTask, CanTransitionTask
<1>3. CASE x.op \in {"start", "launch"} /\ \E n : TransitionToRunning(x.task, n)
  BY <1>3 DEF TransitionToRunning, CanTransitionTask
<1>4. CASE \E u, n, k : ReserveBudget(u, n, k) \/ ReleaseBudget(u, n, k)
  BY <1>4, BudgetEffect
<1>5. CASE state[x.task] \in {"pending", "ready"} /\ TransitionTask(x.task, "blocked")
  BY <1>5 DEF TransitionTask, CanTransitionTask
<1>6. CASE TransitionWorkflow(x.to)
  BY <1>6 DEF TransitionWorkflow
<1>7. CASE x.op = "add" /\ AddTask(x.task, x.on)
  BY <1>7 DEF AddTask
<1>8. CASE UpdateDeps(x.task, deps[x.task] \cup x.on)
  BY <1>8 DEF UpdateDeps
<1>9. QED
  BY <1>1, <1>2, <1>3, <1>4, <1>5, <1>6, <1>7, <1>8 DEF StoreStep

(* Scripts that accept no condition, or no map, and the two handlers that    *)
(* write one that does.                                                      *)
Without(k) == AnyStep \ [op : {"move"}, task : {t \in Task : Node[t].kind = k}, to : {"accepted"}]

LEMMA WithoutHas ==
    ASSUME NEW k \in Settling
    PROVE  /\ CommonSteps \subseteq Without(k) /\ IterSteps \subseteq Without(k)
           /\ \A u \in Task : RetryOwn(u) \subseteq Without(k) /\ LaunchOwn(u) \subseteq Without(k)
           /\ \A c \in Iteration : ChildOwn(c) \subseteq Without(k)
           /\ \A u \in Task : TypeOK => ClearPid(u) \in Without(k)
<1>1. CommonSteps \subseteq Without(k)
  BY OwnIsAny DEF Without, CommonSteps
<1>2. IterSteps \subseteq Without(k)
  BY OwnIsAny DEF Without, IterSteps
<1>3. ASSUME NEW u \in Task PROVE RetryOwn(u) \subseteq Without(k)
  BY OwnIsAny DEF Without, RetryOwn
<1>4. ASSUME NEW u \in Task PROVE LaunchOwn(u) \subseteq Without(k)
  BY OwnIsAny DEF Without, LaunchOwn
<1>5. ASSUME NEW c \in Iteration PROVE ChildOwn(c) \subseteq Without(k)
  BY OwnIsAny DEF Without, ChildOwn
<1>6. ASSUME NEW u \in Task, TypeOK PROVE ClearPid(u) \in Without(k)
  BY <1>6 DEF ClearPid, Update, Without, AnyStep, CommonSteps, TypeOK
<1>7. QED
  BY <1>1, <1>2, <1>3, <1>4, <1>5, <1>6

LEMMA StillWithout ==
    ASSUME TypeOK, TodoInv, LoopInv, KindInv, Writing, NEW k \in {"condition", "map"},
           todo \in Seq(Loops(Without(k))),
           \A t \in Task : Node[t].kind = k => ~LaunchCondition(t) /\ ~LaunchMap(t)
    PROVE  todo' \in Seq(Loops(Without(k)))
<1>1. k \in Settling
  BY DEF Settling
<1>2. Rest(Without(k))
  BY KindRest DEF Rest
<1>3. Writes(Without(k))
  BY <1>2, ScriptWrites
<1>4. PICK s : /\ Wrote(s, Without(k))
               /\ todo' = s \/ \E u \in Task : todo' = <<ClearPid(u)>> \o s
  BY <1>3 DEF Writes
<1>5. SettleSteps \subseteq Without(k)
  <2>1. ASSUME NEW t \in Task, Settles(t) PROVE Node[t].kind # k
    <3>1. CASE DriveAccepted /\ Head(todo).root = t
      <4>1. todo # <<>> /\ Head(todo).op = "drive"
        BY <3>1 DEF DriveAccepted, At
      <4>2. Head(todo) \in AnyStep
        BY <4>1, HeadKind
      <4>3. QED
        BY <3>1, <4>1, <4>2 DEF AnyStep, CommonSteps, IterSteps
    <3>2. QED
      BY <2>1, <3>1 DEF Settles
  <2>2. QED
    BY <2>1, OwnIsAny DEF SettleSteps, Without
<1>6. s \in Seq(Loops(Without(k)))
  BY <1>1, <1>4, <1>5, WithoutHas, WrittenIn
<1>7. QED
  BY <1>1, <1>4, <1>6, WithoutHas, ClearedIn

LEMMA WritingAmid ==
    ASSUME LoopInv, Writing, todo # <<>>
    PROVE  Rescripting \/ Drives \/ Crash
<1>1. CASE Scripting
  BY <1>1 DEF Scripting, Boot, Reconcile, LoopInv, Recovered, Resume, RefreshBefore,
     RefreshAfter, Refresh, TakeInbox, HandleRequest, HandlePause, HandleResume, HandleCancel,
     HandleRetry, HandleDecision, Handle, InboxDone, ListReady, LaunchTask, LaunchDenied,
     LaunchCondition, LaunchCheck, LaunchUnusable, LaunchMap, LaunchReduce, LaunchRepeat,
     LaunchApproval, LaunchNoSlot, LaunchCached, LaunchAgent, LaunchUnprepared, Launch, EndLaunch,
     SettleIteration, SettleWait, SettleAgain, SettleCancelled, SettleSucceeded, SettleExhausted,
     SettleFailed, SettleStalled, SettleRefused, Conclude, Settle, WaitTimeout, Idle
<1>2. CASE CollectFuture
  BY <1>2 DEF CollectFuture, CollectCancelled, CollectAccepted, CollectDenied, CollectRejected,
     CollectExhausted, CollectFailed, CollectUnfinished, Collect, Idle
<1>3. CASE Close
  BY <1>3 DEF Close, Idle
<1>4. QED
  BY <1>1, <1>2, <1>3 DEF Writing

LEMMA WritingMid ==
    ASSUME LoopInv, Writing, todo # <<>>,
           Head(todo).op \notin {"decide", "reserve", "iterate", "drive"}
    PROVE  PerformEach \/ Crash
<1>1. ~Drives
  BY DEF Drives, DriveAccepted, DriveRejected, DriveExhausted, DriveRaised, DriveUnfinished,
     Drive, At
<1>2. Rescripting => PerformEach
  BY DEF Rescripting, PerformReserveRefused, PerformReserveRefusedRepeat, ReserveRefused,
     PerformDecide, PerformIterate, At
<1>3. QED
  BY <1>1, <1>2, WritingAmid

-----------------------------------------------------------------------------
(* Conditions.  A branch is shut when its tasks were given up before their    *)
(* first attempt, which is final.                                            *)
Shut(b) == state[b] \in {"blocked", "cancelled"} /\ attempt[b] = 0
Sides(t) == {Node[t].on_true, Node[t].on_false}
Closed(t) == \E S \in Sides(t) : \A b \in S : Shut(b)
Taken(u) == Node[u].kind = "condition" /\ state[u] = "accepted"

\* the script of a condition t that does not take S
Closing(t, S) ==
    {StartComputed(t), Move(t, "completed"), Move(t, "verifying"), Move(t, "accepted")}
        \cup {Block(b) : b \in S}
        \cup [op : {"each"}, items : SUBSET {<<Block(b)>> : b \in S}]
Deciding(t, S) ==
    /\ Node[t].kind = "condition" /\ S \in Sides(t) /\ t \notin S
    /\ todo \in Seq(Closing(t, S))
    /\ \A b \in S : attempt[b] = 0
    /\ \A b \in S : Shut(b) \/ Owed(Block(b), todo)

Branching ==
    \/ todo \in Seq(Loops(Without("condition"))) /\ \A u \in Task : Taken(u) => Closed(u)
    \/ \E t \in Task : /\ \E S \in Sides(t) : Deciding(t, S)
                       /\ \A u \in Task : Taken(u) => u = t \/ Closed(u)
BranchInv == Fresh /\ Branching

LEMMA SidesAre ==
    ASSUME NEW t \in Task, Node[t].kind = "condition", NEW S \in Sides(t), TaskFacts
    PROVE  /\ S \subseteq Task /\ S \subseteq Static
           /\ \A b \in S : state[b] # "absent" /\ t \in deps[b]
<1>1. S \subseteq Node[t].on_true \cup Node[t].on_false /\ S \subseteq Task
  BY RuntimeAssumption DEF Sides, NodeType
<1>2. \A b \in S : b \in Static /\ t \in StaticDeps[b]
  BY <1>1, GraphAssumption
<1>3. QED
  BY <1>1, <1>2 DEF TaskFacts

LEMMA ShutStays ==
    ASSUME StoreTypeOK, NEW x \in AnyStep, StoreStep(x) \/ UNCHANGED storeVars
    PROVE  /\ \A b \in Task : Shut(b) => Shut(b)'
           /\ \A t \in Task : Node[t].kind = "condition" /\ Closed(t) => Closed(t)'
<1>1. \A b \in Task : Shut(b) => Shut(b)'
  BY TaskStep DEF Shut
<1>2. \A t \in Task : \A S \in Sides(t) : S \subseteq Task
  BY RuntimeAssumption DEF Sides, NodeType
<1>3. \A t \in Task : Sides(t)' = Sides(t)
  BY DEF Sides
<1>4. QED
  BY <1>1, <1>2, <1>3 DEF Closed

(* between scripts the branches not taken are shut *)
LEMMA BranchAtRest ==
    ASSUME BranchInv, todo = <<>>
    PROVE  /\ todo \in Seq(Loops(Without("condition")))
           /\ \A u \in Task : Taken(u) => Closed(u)
<1>1. todo \in Seq(Loops(Without("condition")))
  BY EmptyIn
<1>2. CASE \E t \in Task : /\ \E S \in Sides(t) : Deciding(t, S)
                           /\ \A u \in Task : Taken(u) => u = t \/ Closed(u)
  <2>0. PICK t \in Task : /\ \E S \in Sides(t) : Deciding(t, S)
                          /\ \A u \in Task : Taken(u) => u = t \/ Closed(u)
    BY <1>2
  <2>1. PICK S \in Sides(t) : Deciding(t, S)
    BY <2>0
  <2>2. \A b \in S : ~Owed(Block(b), todo)
    BY DEF Owed, StepsOf
  <2>3. Closed(t)
    BY <2>1, <2>2 DEF Deciding, Closed
  <2>4. QED
    BY <1>1, <2>0, <2>3
<1>3. QED
  BY <1>1, <1>2 DEF BranchInv, Branching

LEMMA BranchPopped ==
    ASSUME TypeOK, KindInv, TaskFacts, BranchInv, StepDone(Head(todo))
    PROVE  BranchInv'
<1> DEFINE x == Head(todo)
<1>1. /\ todo # <<>> /\ todo' = Tail(todo) /\ x.op # "each" /\ x \in AnyStep
      /\ StoreStep(x) \/ UNCHANGED storeVars
      /\ x.op = "submit" \/ StoreStep(x)
  BY HeadKind DEF StepDone
<1>2. StoreTypeOK
  BY DEF TypeOK
<1>3. Fresh'
  BY <1>1, <1>2, TaskStep DEF BranchInv, Fresh
<1>4. /\ \A b \in Task : Shut(b) => Shut(b)'
      /\ \A u \in Task : Node[u].kind = "condition" /\ Closed(u) => Closed(u)'
  BY <1>1, <1>2, ShutStays
<1>5. \A u \in Task : Taken(u)' =>
         Taken(u) \/ (Node[u].kind = "condition" /\ x.op = "move" /\ x.task = u /\ x.to = "accepted")
  BY <1>1, <1>2, TaskStep DEF Taken
<1> HIDE DEF x
<1>6. CASE todo \in Seq(Loops(Without("condition"))) /\ \A u \in Task : Taken(u) => Closed(u)
  <2>1. todo' \in Seq(Loops(Without("condition"))) /\ x \in Loops(Without("condition"))
    BY <1>1, <1>6 DEF x
  <2>2. x \in Without("condition")
    BY <1>1, <2>1 DEF Loops
  <2>3. x.op = "move" /\ x.to = "accepted" /\ x.task \in Task => Node[x.task].kind # "condition"
    <3>1. x.op = "move" => x = [op |-> "move", task |-> x.task, to |-> x.to]
      BY <1>1 DEF AnyStep, CommonSteps, IterSteps
    <3>2. QED
      BY <2>2, <3>1 DEF Without
  <2>4. \A u \in Task : Taken(u)' => Closed(u)'
    BY <1>4, <1>5, <1>6, <2>3 DEF Taken
  <2>5. QED
    BY <1>3, <2>1, <2>4 DEF BranchInv, Branching
<1>7. CASE \E t \in Task : /\ \E S \in Sides(t) : Deciding(t, S)
                           /\ \A u \in Task : Taken(u) => u = t \/ Closed(u)
  <2>0. PICK t \in Task : /\ \E S \in Sides(t) : Deciding(t, S)
                          /\ \A u \in Task : Taken(u) => u = t \/ Closed(u)
    BY <1>7
  <2>1. PICK S \in Sides(t) : Deciding(t, S)
    BY <2>0
  <2>2. /\ Node[t].kind = "condition" /\ t \notin S /\ todo \in Seq(Closing(t, S))
        /\ \A b \in S : attempt[b] = 0 /\ (Shut(b) \/ Owed(Block(b), todo))
    BY <2>1 DEF Deciding
  <2>3. /\ S \subseteq Task /\ \A b \in S : state[b] # "absent"
    BY <2>2, SidesAre
  <2>4. x \in Closing(t, S) /\ todo' \in Seq(Closing(t, S))
    BY <1>1, <2>2 DEF x
  <2>5. \/ x \in {StartComputed(t), Move(t, "completed"), Move(t, "verifying"), Move(t, "accepted")}
        \/ \E b \in S : x = Block(b)
    BY <1>1, <2>4 DEF Closing
  <2>6. \A b \in S : attempt'[b] = 0
    <3>1. \A b \in S : x.op \in {"start", "launch"} => x.task # b
      BY <2>2, <2>5 DEF StartComputed, Move, Block
    <3>2. QED
      BY <1>1, <1>2, <2>2, <2>3, <3>1, TaskStep
  <2>7. ASSUME NEW b \in S PROVE Shut(b)' \/ Owed(Block(b), todo)'
    <3>1. CASE Shut(b)
      BY <1>4, <2>3, <3>1
    <3>2. CASE Owed(Block(b), todo) /\ x # Block(b)
      <4>1. Owed(Block(b), Tail(todo))
        BY <1>1, <2>2, <3>2, OwedPop DEF x
      <4>2. QED
        BY <1>1, <4>1 DEF Owed, Block
    <3>3. CASE x = Block(b)
      <4>1. x.op = "block" /\ x.task = b
        BY <3>3 DEF Block
      <4>2. state[b] \in {"pending", "ready", "blocked", "cancelled"}
        BY <2>2, <2>3 DEF BranchInv, Fresh
      <4>3. state[b] \in {"pending", "ready"} => TransitionTask(b, "blocked")
        BY <4>1 DEF StepDone, x
      <4>5. state[b] \in {"blocked", "cancelled"} => state'[b] = state[b]
        BY <1>1, <1>2, <2>3, TaskStep
      <4>4. state'[b] \in {"blocked", "cancelled"}
        BY <1>2, <2>3, <4>2, <4>3, <4>5 DEF TransitionTask, StoreTypeOK
      <4>6. QED
        BY <2>6, <4>4 DEF Shut
    <3>4. QED
      BY <2>2, <3>1, <3>2, <3>3
  <2>8. Deciding(t, S)'
    <3>1. Sides(t)' = Sides(t) /\ Closing(t, S)' = Closing(t, S)
      BY DEF Sides, Closing, StartComputed, Move, Block
    <3>2. QED
      BY <2>2, <2>4, <2>6, <2>7, <3>1 DEF Deciding
  <2>9. x.op = "move" => x.task = t
    BY <2>5 DEF Move, StartComputed, Block
  <2>10. \A u \in Task : Taken(u)' => u = t \/ Closed(u)'
    BY <1>4, <1>5, <2>0, <2>9 DEF Taken
  <2>11. S \in Sides(t)'
    BY DEF Sides
  <2>12. QED
    BY <1>3, <2>8, <2>10, <2>11 DEF BranchInv, Branching
<1>8. QED
  BY <1>6, <1>7 DEF BranchInv, Branching

(* a condition is decided: no task of the branch it does not take was ever    *)
(* attempted, since all wait for the condition                               *)
LEMMA BranchDecided ==
    ASSUME TypeOK, LP!Gated, TaskFacts, NEW t \in ready, LaunchCondition(t), branch[t] # "invalid"
    PROVE  \E S \in Sides(t) : Node[t].kind = "condition" /\ t \notin S
               /\ todo' \in Seq(Closing(t, S))
               /\ \A b \in S : attempt[b] = 0 /\ Owed(Block(b), todo)'
<1> DEFINE S == IF branch[t] = "on_true" THEN Node[t].on_false ELSE Node[t].on_true
           All == Closing(t, S)
           begin == <<StartComputed(t)>>
           accept == AcceptComputed(t)
           items == {<<Block(b)>> : b \in S}
           close == Each(items)
           front == begin \o accept
<1>1. t \in Task /\ state[t] = "ready" /\ Node[t].kind = "condition" /\ S \in Sides(t)
  BY DEF TypeOK, TaskFacts, LaunchCondition, Sides
<1>2. todo' = (begin \o accept) \o close
  BY DEF LaunchCondition, Launch
<1>3. S \subseteq Task /\ \A b \in S : state[b] # "absent" /\ t \in deps[b]
  <2> HIDE DEF S
  <2>1. QED
    BY <1>1, SidesAre
<1>4. \A b \in S : attempt[b] = 0
  <2>1. ASSUME NEW b \in S PROVE attempt[b] = 0
    <3>1. b \in Task /\ t \in deps[b] /\ state[t] # "accepted"
      BY <1>1, <1>3
    <3>2. ~(attempt[b] > 0)
      BY <3>1, GatedMeans
    <3>3. QED
      BY <3>1, <3>2 DEF TypeOK, StoreTypeOK
  <2>2. QED
    BY <2>1
<1>5. t \notin S
  BY <1>1, <1>3, GatedMeans
<1> HIDE DEF S
<1>6. begin \in Seq(All) /\ accept \in Seq(All)
  <2>1. /\ StartComputed(t) \in All /\ Move(t, "completed") \in All
        /\ Move(t, "verifying") \in All /\ Move(t, "accepted") \in All
    BY DEF Closing
  <2> HIDE DEF All
  <2>2. QED
    BY <2>1, OneIn, ThreeIn DEF AcceptComputed
<1>7. close \in Seq(All)
  <2>1. [op |-> "each", items |-> items] \in All
    BY DEF Closing
  <2> HIDE DEF All, items
  <2>2. QED
    BY <2>1, EmptyIn, OneIn DEF Each
<1>8. ASSUME NEW b \in S PROVE Owed(Block(b), close)
  <2>1. <<Block(b)>> \in items
    OBVIOUS
  <2>2. StepsOf(close) = {[op |-> "each", items |-> items]}
    <3> HIDE DEF items
    <3>1. items # {}
      BY <2>1
    <3>2. QED
      BY <3>1, OneStep DEF Each
  <2> DEFINE loop == [op |-> "each", items |-> items]
  <2>3. loop.op = "each" /\ <<Block(b)>> \in loop.items /\ loop \in StepsOf(close)
    <3> HIDE DEF items, close
    <3>1. QED
      BY <2>1, <2>2
  <2> HIDE DEF loop, close
  <2>4. QED
    BY <2>3 DEF Owed
<1> HIDE DEF begin, accept, items, close, All
<1>9. front \in Seq(All)
  BY <1>6, ConcatIn
<1> HIDE DEF front
<1>10. todo' \in Seq(All) /\ StepsOf(todo') = StepsOf(front) \cup StepsOf(close)
  <2>1. /\ front \o close \in Seq(All)
        /\ StepsOf(front \o close) = StepsOf(front) \cup StepsOf(close)
    BY <1>7, <1>9, ConcatIn, StepsOfJoin
  <2>2. todo' = front \o close
    BY <1>2 DEF front
  <2>3. QED
    BY <2>1, <2>2
<1>11. \A b \in S : Owed(Block(b), todo)'
  <2>1. \A b \in S : Owed(Block(b), todo')
    BY <1>8, <1>10 DEF Owed
  <2>2. QED
    BY <2>1 DEF Owed, Block
<1>12. QED
  BY <1>1, <1>4, <1>5, <1>10, <1>11 DEF All

LEMMA BranchWritten ==
    ASSUME TypeOK, TodoInv, LoopInv, KindInv, LP!Gated, TaskFacts, BranchInv, Writing,
           MaxCrashes = 0
    PROVE  BranchInv'
<1>1. UNCHANGED <<storeVars, fieldVars>>
  BY KindRest, ScriptWrites
<1>2. /\ Fresh' /\ \A t, S : Sides(t)' = Sides(t) /\ Closing(t, S)' = Closing(t, S)
      /\ \A t : Taken(t)' = Taken(t) /\ Closed(t)' = Closed(t)
  BY <1>1 DEF storeVars, BranchInv, Fresh, Sides, Closing, StartComputed, Move, Block, Taken,
     Closed, Shut
<1>3. ASSUME todo' \in Seq(Loops(Without("condition"))), \A u \in Task : Taken(u) => Closed(u)
      PROVE  BranchInv'
  BY <1>2, <1>3 DEF BranchInv, Branching, Loops, Without, AnyStep, CommonSteps, IterSteps
<1>4. ASSUME todo \in Seq(Loops(Without("condition"))), \A u \in Task : Taken(u) => Closed(u),
             \A t \in Task : Node[t].kind = "condition" => ~LaunchCondition(t)
      PROVE  BranchInv'
  <2>1. \A t \in Task : Node[t].kind = "condition" => ~LaunchCondition(t) /\ ~LaunchMap(t)
    BY <1>4 DEF LaunchMap
  <2>2. QED
    BY <1>3, <1>4, <2>1, StillWithout
<1>5. CASE todo = <<>>
  <2>1. todo \in Seq(Loops(Without("condition"))) /\ \A u \in Task : Taken(u) => Closed(u)
    BY <1>5, BranchAtRest
  <2>2. ASSUME NEW t \in Task, LaunchCondition(t), branch[t] = "invalid" PROVE BranchInv'
    <3> DEFINE begin == <<StartComputed(t)>>
               end == FailSteps(t)
    <3>1. todo' = begin \o end /\ Node[t].kind = "condition"
      BY <2>2 DEF LaunchCondition, Launch
    <3>2. begin \in Seq(CommonSteps) /\ end \in Seq(CommonSteps)
      BY <3>1, CommonIn, OneIn, PieceIn
    <3> HIDE DEF begin, end
    <3>3. todo' \in Seq(CommonSteps)
      BY <3>1, <3>2, ConcatIn
    <3>4. CommonSteps \subseteq Without("condition")
      BY WithoutHas DEF Settling
    <3>5. todo' \in Seq(Loops(Without("condition")))
      BY <3>3, <3>4, LoopsGrow
    <3>6. QED
      BY <1>3, <2>1, <3>5
  <2>3. ASSUME NEW t \in Task, LaunchCondition(t), branch[t] # "invalid" PROVE BranchInv'
    <3>0. t \in ready
      BY <2>3 DEF LaunchCondition, Launch
    <3>1. PICK S \in Sides(t) : Node[t].kind = "condition" /\ t \notin S
               /\ todo' \in Seq(Closing(t, S))
               /\ \A b \in S : attempt[b] = 0 /\ Owed(Block(b), todo)'
      BY <2>3, <3>0, BranchDecided
    <3>2. attempt' = attempt
      BY <1>1 DEF storeVars
    <3>3. Deciding(t, S)' /\ S \in Sides(t)'
      BY <1>2, <3>1, <3>2 DEF Deciding
    <3>4. QED
      BY <1>2, <2>1, <3>3 DEF BranchInv, Branching
  <2>4. QED
    BY <1>4, <2>1, <2>2, <2>3
<1>6. ASSUME todo # <<>>, NEW t \in Task, NEW S \in Sides(t), Deciding(t, S),
             \A u \in Task : Taken(u) => u = t \/ Closed(u)
      PROVE  BranchInv'
  <2> DEFINE All == Closing(t, S)
             h == Head(todo)
  <2>1. /\ Node[t].kind = "condition" /\ t \notin S /\ todo \in Seq(All)
        /\ \A b \in S : attempt[b] = 0 /\ (Shut(b) \/ Owed(Block(b), todo))
    BY <1>6 DEF Deciding
  <2>2. h \in All
    <3> HIDE DEF All
    <3>1. QED
      BY <1>6, <2>1
  <2>3. h.op \in {"start", "move", "block", "each"}
    BY <2>2 DEF Closing, StartComputed, Move, Block
  <2>4. PerformEach
    <3>1. ~Crash
      BY DEF Crash, LoopInv
    <3>2. QED
      BY <1>6, <2>3, <3>1, WritingMid
  <2>5. h.op = "each" /\ h.items \in SUBSET {<<Block(b)>> : b \in S}
    BY <2>2, <2>4 DEF PerformEach, At, Closing, StartComputed, Move, Block
  <2>6. PICK item \in h.items : todo' = item \o Each(h.items \ {item}) \o Tail(todo)
    BY <2>4 DEF PerformEach
  <2>7. PICK b \in S : item = <<Block(b)>>
    BY <2>5
  <2> DEFINE z == Block(b)
             one == <<z>>
             others == Each(h.items \ {one})
  <2>8. z \in All /\ others \in Seq(All)
    <3>1. z \in All /\ [op |-> "each", items |-> h.items \ {one}] \in All
      BY <2>5 DEF Closing
    <3> HIDE DEF All, one
    <3>2. QED
      BY <3>1, EmptyIn, OneIn DEF Each
  <2>9. todo' = (one \o others) \o Tail(todo)
    BY <2>6, <2>7
  <2>10. ASSUME NEW c \in S, Owed(Block(c), todo) PROVE Owed(Block(c), todo)'
    <3>1. Block(c).op # "each" /\ one \in h.items
      BY <2>6, <2>7 DEF Block
    <3> HIDE DEF All, z
    <3>2. Owed(Block(c), todo')
      BY <1>6, <2>1, <2>5, <2>8, <2>9, <2>10, <3>1, OwedEach
    <3>3. QED
      BY <3>2 DEF Owed, Block
  <2>11. todo' \in Seq(All)
    <3>1. one \in Seq(All) /\ Tail(todo) \in Seq(All)
      <4> HIDE DEF All, z
      <4>1. QED
        BY <1>6, <2>1, <2>8, OneIn
    <3> HIDE DEF All, one, others
    <3>2. QED
      BY <2>8, <2>9, <3>1, ConcatIn
  <2>12. attempt' = attempt /\ \A c : Shut(c)' = Shut(c)
    BY <1>1 DEF storeVars, Shut
  <2>13. Deciding(t, S)' /\ S \in Sides(t)'
    BY <1>2, <2>1, <2>10, <2>11, <2>12 DEF Deciding
  <2>14. QED
    BY <1>2, <1>6, <2>13 DEF BranchInv, Branching
<1>7. CASE todo # <<>>
  <2>1. CASE todo \in Seq(Loops(Without("condition"))) /\ \A u \in Task : Taken(u) => Closed(u)
    <3>1. \A t \in Task : ~LaunchCondition(t)
      BY <1>7 DEF LaunchCondition, Launch, Idle
    <3>2. QED
      BY <1>4, <2>1, <3>1
  <2>2. CASE \E t \in Task : /\ \E S \in Sides(t) : Deciding(t, S)
                             /\ \A u \in Task : Taken(u) => u = t \/ Closed(u)
    <3>1. PICK t \in Task : /\ \E S \in Sides(t) : Deciding(t, S)
                            /\ \A u \in Task : Taken(u) => u = t \/ Closed(u)
      BY <2>2
    <3>2. PICK S \in Sides(t) : Deciding(t, S)
      BY <3>1
    <3>3. QED
      BY <1>6, <1>7, <3>1, <3>2
  <2>3. QED
    BY <2>1, <2>2 DEF BranchInv, Branching
<1>8. QED
  BY <1>5, <1>7

LEMMA BranchKept ==
    ASSUME RuntimeInv, LP!Gated, LedgerInv, KindInv, BranchInv, MaxCrashes = 0, [Next]_vars
    PROVE  BranchInv'
<1>1. TypeOK /\ TodoInv /\ LoopInv /\ TaskFacts
  BY DEF RuntimeInv, WorkerInv, LedgerInv
<1>2. CASE Writing
  BY <1>1, <1>2, BranchWritten
<1>3. CASE StepDone(Head(todo))
  BY <1>1, <1>3, BranchPopped
<1>4. CASE Beside
  <2>1. todo' = todo /\ state' = state /\ attempt' = attempt
    BY <1>4 DEF Beside
  <2>2. /\ Fresh' = Fresh /\ \A t, S : Deciding(t, S)' = Deciding(t, S) /\ Sides(t)' = Sides(t)
        /\ \A t : Taken(t)' = Taken(t) /\ Closed(t)' = Closed(t)
    BY <2>1 DEF Fresh, Sides, Deciding, Closing, StartComputed, Move, Block, Taken, Closed, Shut,
       Owed, StepsOf
  <2>3. Loops(Without("condition"))' = Loops(Without("condition"))
    BY DEF Loops, Without, AnyStep, CommonSteps, IterSteps
  <2>4. QED
    BY <2>1, <2>2, <2>3 DEF BranchInv, Branching
<1>5. QED
  BY <1>2, <1>3, <1>4, NextShape

(* Of the two branches of a condition at most one is ever attempted           *)
(* (_run_condition blocks the other in the handler that accepts the node),     *)
(* unless the runtime dies in the middle of that handler: nothing blocks the   *)
(* rest of the branch after a restart.                                       *)
THEOREM OnlyOneBranch == MaxCrashes = 0 => (Spec => []OneBranch)
<1> SUFFICES ASSUME MaxCrashes = 0 PROVE Spec => []OneBranch
  OBVIOUS
<1>1. Init => BranchInv
  <2> SUFFICES ASSUME Init PROVE BranchInv
    OBVIOUS
  <2>1. todo \in Seq(Loops(Without("condition")))
    BY EmptyIn DEF Init
  <2>2. \A t \in Task : state[t] \in {"absent", "pending"}
    BY DEF Init, StoreInit
  <2>3. QED
    BY <2>1, <2>2 DEF BranchInv, Branching, Fresh, Taken
<1>2. RuntimeInv /\ LP!Gated /\ LedgerInv /\ KindInv /\ BranchInv /\ [Next]_vars => BranchInv'
  BY BranchKept
<1>3. RuntimeInv /\ LP!Gated /\ LedgerInv /\ BranchInv => OneBranch
  <2> SUFFICES ASSUME RuntimeInv, LP!Gated, LedgerInv, BranchInv,
                      NEW t \in Task, Node[t].kind = "condition",
                      NEW x \in Node[t].on_true, attempt[x] > 0,
                      NEW y \in Node[t].on_false, attempt[y] > 0
               PROVE  FALSE
    BY DEF OneBranch
  <2>1. TypeOK /\ TaskFacts
    BY DEF RuntimeInv, LedgerInv
  <2>2. Node[t].on_true \in Sides(t) /\ Node[t].on_false \in Sides(t)
    BY DEF Sides
  <2>3. x \in Task /\ t \in deps[x]
    BY <2>1, <2>2, SidesAre
  <2>4. Taken(t)
    BY <2>3, GatedMeans DEF Taken
  <2>5. \E S \in Sides(t) : \A b \in S : attempt[b] = 0
    BY <2>4 DEF BranchInv, Branching, Closed, Shut, Deciding
  <2>6. QED
    BY <2>5 DEF Sides
<1>4. QED
  BY <1>1, <1>2, <1>3, RuntimeInvAlways, LedgerAlways, KindAlways, PTL DEF Spec

-----------------------------------------------------------------------------
(* Maps.  A map that is accepted has its reducers wait for all its children. *)
Linked(m) == \A r \in Node[m].reduce : Node[m].children \subseteq deps[r]

\* the script of a map m before its acceptance
Mapping(m) ==
    {StartComputed(m)} \cup {Adding(m, u) : u \in Node[m].children}
        \cup {Depending(m, r) : r \in Node[m].reduce}
        \cup [op : {"each"}, items : SUBSET ({<<Adding(m, u)>> : u \in Node[m].children}
                                               \cup {<<Depending(m, r)>> : r \in Node[m].reduce})]
Mapped(m, s) ==
    /\ todo = s \o AcceptComputed(m)
    /\ \A r \in Node[m].reduce :
          Node[m].children \subseteq deps[r] \/ Owed(Depending(m, r), s)

Fanning ==
    \/ todo \in Seq(Loops(Without("map")))
    \/ \E m \in Task : Node[m].kind = "map" /\ Linked(m) /\ todo \in Seq(MapMoves(m))
    \/ \E m \in Task : Node[m].kind = "map" /\ \E s \in Seq(Mapping(m)) : Mapped(m, s)
MapInv ==
    /\ Fanning
    /\ \A m \in Task : Node[m].kind = "map" /\ state[m] = "accepted" => Linked(m)

LEMMA ReducersAre ==
    ASSUME NEW m \in Task, Node[m].kind = "map", TaskFacts
    PROVE  \A r \in Node[m].reduce : r \in Task /\ r \in Static /\ m \in StaticDeps[r]
                                     /\ state[r] # "absent" /\ m \in deps[r]
<1>1. Node[m].reduce \subseteq Task
  BY RuntimeAssumption DEF NodeType
<1>2. \A r \in Node[m].reduce : r \in Static /\ m \in StaticDeps[r]
  BY GraphAssumption
<1>3. QED
  BY <1>1, <1>2 DEF TaskFacts

LEMMA LinkedStays ==
    ASSUME StoreTypeOK, TaskFacts, NEW x \in AnyStep, StoreStep(x) \/ UNCHANGED storeVars,
           NEW m \in Task, Node[m].kind = "map"
    PROVE  /\ \A r \in Node[m].reduce : deps[r] \subseteq deps'[r]
           /\ Linked(m) => Linked(m)'
<1>1. \A r \in Node[m].reduce : deps[r] \subseteq deps'[r]
  BY ReducersAre, TaskStep
<1>2. QED
  BY <1>1 DEF Linked

LEMMA DependDone ==
    ASSUME StoreTypeOK, NEW x, StoreStep(x), x.op = "depend", x.task \in Task
    PROVE  x.on \subseteq deps'[x.task]
<1>1. UpdateDeps(x.task, deps[x.task] \cup x.on)
  BY DEF StoreStep
<1>2. QED
  BY <1>1 DEF UpdateDeps, StoreTypeOK

\* all that was owed before the acceptance is done
LEMMA NothingOwed ==
    ASSUME NEW m \in Task, Mapped(m, <<>>)
    PROVE  Linked(m) /\ todo \in Seq(MapMoves(m))
<1>1. \A r \in Node[m].reduce : ~Owed(Depending(m, r), <<>>)
  BY DEF Owed, StepsOf
<1>2. Linked(m)
  BY <1>1 DEF Mapped, Linked
<1>3. todo = AcceptComputed(m)
  BY DEF Mapped, AcceptComputed
<1>4. AcceptComputed(m) \in Seq(MapMoves(m))
  <2>1. /\ Move(m, "completed") \in MapMoves(m) /\ Move(m, "verifying") \in MapMoves(m)
        /\ Move(m, "accepted") \in MapMoves(m)
    BY DEF MapMoves
  <2>2. QED
    BY <2>1, ThreeIn DEF AcceptComputed
<1>5. QED
  BY <1>2, <1>3, <1>4

(* a script that ends in the acceptance of m, from its front *)
LEMMA AcceptFront ==
    ASSUME NEW S, NEW m, NEW s \in Seq(S), s # <<>>, todo = s \o AcceptComputed(m)
    PROVE  /\ todo # <<>> /\ Head(todo) = Head(s) /\ Head(s) \in S
           /\ Tail(s) \in Seq(S) /\ Tail(todo) = Tail(s) \o AcceptComputed(m)
<1> DEFINE c == AcceptComputed(m)
           T == S \cup MapMoves(m)
<1>1. c \in Seq(T)
  <2>1. /\ Move(m, "completed") \in T /\ Move(m, "verifying") \in T /\ Move(m, "accepted") \in T
    BY DEF MapMoves
  <2> HIDE DEF T
  <2>2. QED
    BY <2>1, ThreeIn DEF AcceptComputed
<1>2. s \in Seq(T)
  BY SeqGrows
<1>3. Head(s) \in S /\ Tail(s) \in Seq(S)
  OBVIOUS
<1> HIDE DEF c, T
<1>4. todo # <<>> /\ Head(todo) = Head(s) /\ Tail(todo) = Tail(s) \o c
  BY <1>1, <1>2 DEF c
<1>5. QED
  BY <1>3, <1>4 DEF c

LEMMA MappedFront ==
    ASSUME NEW m \in Task, NEW s \in Seq(Mapping(m)), s # <<>>, Mapped(m, s)
    PROVE  /\ todo # <<>> /\ Head(todo) = Head(s) /\ Head(s) \in Mapping(m)
           /\ Tail(s) \in Seq(Mapping(m)) /\ Tail(todo) = Tail(s) \o AcceptComputed(m)
BY AcceptFront DEF Mapped

LEMMA MapPopped ==
    ASSUME TypeOK, KindInv, TaskFacts, MapInv, StepDone(Head(todo))
    PROVE  MapInv'
<1> DEFINE x == Head(todo)
<1>1. /\ todo # <<>> /\ todo' = Tail(todo) /\ x.op # "each" /\ x \in AnyStep
      /\ StoreStep(x) \/ UNCHANGED storeVars
      /\ x.op = "submit" \/ StoreStep(x)
  BY HeadKind DEF StepDone
<1>2. StoreTypeOK
  BY DEF TypeOK
<1>3. \A m \in Task : Node[m].kind = "map" =>
         /\ Linked(m) => Linked(m)'
         /\ \A r \in Node[m].reduce : deps[r] \subseteq deps'[r]
  BY <1>1, <1>2, LinkedStays
<1>4. \A m \in Task : state'[m] = "accepted" =>
         state[m] = "accepted" \/ (x.op = "move" /\ x.task = m /\ x.to = "accepted")
  BY <1>1, <1>2, TaskStep
<1> HIDE DEF x
<1>5. CASE todo \in Seq(Loops(Without("map")))
  <2>1. todo' \in Seq(Loops(Without("map"))) /\ x \in Loops(Without("map"))
    BY <1>1, <1>5 DEF x
  <2>2. x \in Without("map")
    BY <1>1, <2>1 DEF Loops
  <2>3. x.op = "move" /\ x.to = "accepted" /\ x.task \in Task => Node[x.task].kind # "map"
    <3>1. x.op = "move" => x = [op |-> "move", task |-> x.task, to |-> x.to]
      BY <1>1 DEF AnyStep, CommonSteps, IterSteps
    <3>2. QED
      BY <2>2, <3>1 DEF Without
  <2>4. \A m \in Task : Node[m].kind = "map" /\ state'[m] = "accepted" => Linked(m)'
    BY <1>3, <1>4, <2>3 DEF MapInv
  <2>5. QED
    BY <2>1, <2>4 DEF MapInv, Fanning
<1>6. ASSUME NEW m \in Task, Node[m].kind = "map", Linked(m), todo \in Seq(MapMoves(m))
      PROVE  MapInv'
  <2>1. x \in MapMoves(m) /\ todo' \in Seq(MapMoves(m))
    BY <1>1, <1>6 DEF x
  <2>2. x.op = "move" => x.task = m
    BY <2>1 DEF MapMoves, Move
  <2>3. \A u \in Task : Node[u].kind = "map" /\ state'[u] = "accepted" => Linked(u)'
    BY <1>3, <1>4, <1>6, <2>2 DEF MapInv
  <2>4. Linked(m)' /\ MapMoves(m)' = MapMoves(m)
    BY <1>3, <1>6 DEF MapMoves, Move
  <2>5. QED
    BY <1>6, <2>1, <2>3, <2>4 DEF MapInv, Fanning
<1>7. ASSUME NEW m \in Task, Node[m].kind = "map", NEW s \in Seq(Mapping(m)), s # <<>>, Mapped(m, s)
      PROVE  MapInv'
  <2>1. /\ x = Head(s) /\ x \in Mapping(m) /\ Tail(s) \in Seq(Mapping(m))
        /\ todo' = Tail(s) \o AcceptComputed(m)
    BY <1>1, <1>7, MappedFront DEF x
  <2>2. x.op # "move"
    BY <2>1 DEF Mapping, StartComputed, Adding, Depending
  <2>3. \A u \in Task : Node[u].kind = "map" /\ state'[u] = "accepted" => Linked(u)'
    BY <1>3, <1>4, <2>2 DEF MapInv
  <2>4. ASSUME NEW r \in Node[m].reduce
        PROVE  Node[m].children \subseteq deps'[r] \/ Owed(Depending(m, r), Tail(s))
    <3>1. CASE Node[m].children \subseteq deps[r]
      BY <1>3, <1>7, <3>1
    <3>2. CASE x = Depending(m, r)
      <4>1. r \in Task
        BY <1>7, ReducersAre
      <4>2. x.op = "depend" /\ x.task = r /\ x.on = Node[m].children
        BY <3>2 DEF Depending
      <4>3. QED
        BY <1>1, <1>2, <4>1, <4>2, DependDone
    <3>3. CASE Owed(Depending(m, r), s) /\ x # Depending(m, r)
      <4>1. Head(s).op # "each"
        BY <1>1, <2>1
      <4>2. QED
        BY <1>7, <2>1, <3>3, <4>1, OwedPop
    <3>4. QED
      BY <1>7, <3>1, <3>2, <3>3 DEF Mapped
  <2>5. Mapped(m, Tail(s))'
    BY <2>1, <2>4 DEF Mapped, AcceptComputed, Move, Owed, Depending
  <2>6. Tail(s) \in Seq(Mapping(m))'
    BY <2>1 DEF Mapping, StartComputed, Adding, Depending
  <2>7. QED
    BY <1>7, <2>3, <2>5, <2>6 DEF MapInv, Fanning
<1>8. ASSUME NEW m \in Task, Node[m].kind = "map", Mapped(m, <<>>)
      PROVE  MapInv'
  BY <1>6, <1>8, NothingOwed
<1>9. CASE \E m \in Task : Node[m].kind = "map" /\ \E s \in Seq(Mapping(m)) : Mapped(m, s)
  <2>1. PICK m \in Task : Node[m].kind = "map" /\ \E s \in Seq(Mapping(m)) : Mapped(m, s)
    BY <1>9
  <2>2. PICK s \in Seq(Mapping(m)) : Mapped(m, s)
    BY <2>1
  <2>3. QED
    BY <1>7, <1>8, <2>1, <2>2
<1>10. QED
  BY <1>5, <1>6, <1>9 DEF MapInv, Fanning

(* a map with usable items is launched                                       *)
LEMMA MapBegun ==
    ASSUME NEW t \in Task, LaunchMap(t)
    PROVE  Node[t].kind = "map" /\ \E s \in Seq(Mapping(t)) : Mapped(t, s)'
<1> DEFINE S == Mapping(t)
           begin == <<StartComputed(t)>>
           adds == {<<Adding(t, u)>> : u \in Node[t].children}
           depends == {<<Depending(t, r)>> : r \in Node[t].reduce}
           add == Each(adds)
           depend == Each(depends)
           s == (begin \o add) \o depend
<1>1. Node[t].kind = "map"
  BY DEF LaunchMap
<1>2. todo' = s \o AcceptComputed(t)
  BY DEF LaunchMap, Launch, Adding, Depending
<1>3. begin \in Seq(S)
  <2>1. StartComputed(t) \in S
    BY DEF Mapping
  <2> HIDE DEF S
  <2>2. QED
    BY <2>1, OneIn
<1>4. add \in Seq(S) /\ depend \in Seq(S)
  <2>1. [op |-> "each", items |-> adds] \in S /\ [op |-> "each", items |-> depends] \in S
    BY DEF Mapping
  <2> HIDE DEF S, adds, depends
  <2>2. QED
    BY <2>1, EmptyIn, OneIn DEF Each
<1>5. ASSUME NEW r \in Node[t].reduce PROVE Owed(Depending(t, r), depend)
  <2>1. <<Depending(t, r)>> \in depends
    OBVIOUS
  <2> DEFINE loop == [op |-> "each", items |-> depends]
  <2>2. StepsOf(depend) = {loop}
    <3> HIDE DEF depends
    <3>1. depends # {}
      BY <2>1
    <3>2. QED
      BY <3>1, OneStep DEF Each
  <2>3. loop.op = "each" /\ <<Depending(t, r)>> \in loop.items /\ loop \in StepsOf(depend)
    <3> HIDE DEF depends, depend
    <3>1. QED
      BY <2>1, <2>2
  <2> HIDE DEF loop, depend
  <2>4. QED
    BY <2>3 DEF Owed
<1> DEFINE front == begin \o add
<1> HIDE DEF S, begin, add, depend
<1>6. front \in Seq(S)
  BY <1>3, <1>4, ConcatIn
<1> HIDE DEF front
<1>7. front \o depend \in Seq(S) /\ StepsOf(front \o depend) = StepsOf(front) \cup StepsOf(depend)
  BY <1>4, <1>6, ConcatIn, StepsOfJoin
<1>8. s = front \o depend
  BY DEF front
<1> HIDE DEF s
<1>9. \A r \in Node[t].reduce : Owed(Depending(t, r), s)
  BY <1>5, <1>7, <1>8 DEF Owed
<1>10. Mapped(t, s)'
  BY <1>2, <1>9 DEF Mapped, AcceptComputed, Move, Owed, Depending
<1>11. s \in Seq(Mapping(t))
  BY <1>7, <1>8 DEF S
<1>12. QED
  BY <1>1, <1>10, <1>11

LEMMA MapPass ==
    ASSUME NEW m \in Task, NEW s \in Seq(Mapping(m)), s # <<>>, Mapped(m, s), PerformEach
    PROVE  \E r \in Seq(Mapping(m)) :
              /\ todo' = r \o AcceptComputed(m)
              /\ \A u \in Node[m].reduce : Owed(Depending(m, u), s) => Owed(Depending(m, u), r)
<1> DEFINE S == Mapping(m)
           c == AcceptComputed(m)
           h == Head(s)
           items == h.items
<1>0. s \in Seq(S)
  OBVIOUS
<1>1. /\ h \in S /\ Tail(s) \in Seq(S) /\ Tail(todo) = Tail(s) \o c /\ h = Head(todo)
  BY MappedFront
<1>2. /\ h.op = "each"
      /\ items \subseteq {<<Adding(m, u)>> : u \in Node[m].children}
                            \cup {<<Depending(m, r)>> : r \in Node[m].reduce}
  BY <1>1 DEF PerformEach, At, Mapping, StartComputed, Adding, Depending
<1>3. PICK item \in items : todo' = (item \o Each(items \ {item})) \o Tail(todo)
  BY <1>1 DEF PerformEach
<1>4. PICK z \in S : item = <<z>> /\ z.op # "each"
  BY <1>2, <1>3 DEF Mapping, Adding, Depending
<1> DEFINE one == <<z>>
           others == Each(items \ {one})
           r == (one \o others) \o Tail(s)
<1>5. one \in Seq(S) /\ others \in Seq(S)
  <2>1. [op |-> "each", items |-> items \ {one}] \in S
    BY <1>2 DEF Mapping
  <2> HIDE DEF S, items
  <2>2. QED
    BY <2>1, EmptyIn, OneIn DEF Each
<1>6. ASSUME NEW u \in Node[m].reduce, Owed(Depending(m, u), s) PROVE Owed(Depending(m, u), r)
  <2>1. Depending(m, u).op # "each" /\ one \in items
    BY <1>3, <1>4 DEF Depending
  <2> DEFINE y == Depending(m, u)
  <2>2. Owed(y, s) /\ y.op # "each"
    BY <1>6, <2>1
  <2> HIDE DEF S, y
  <2>3. Owed(y, r)
    BY <1>0, <1>2, <1>5, <2>1, <2>2, OwedEach
  <2>4. QED
    BY <2>3 DEF y
<1>7. c \in Seq(S \cup MapMoves(m))
  <2> DEFINE T == S \cup MapMoves(m)
  <2>1. /\ Move(m, "completed") \in T /\ Move(m, "verifying") \in T /\ Move(m, "accepted") \in T
    BY DEF MapMoves
  <2> HIDE DEF T
  <2>2. c \in Seq(T)
    BY <2>1, ThreeIn DEF AcceptComputed
  <2>3. QED
    BY <2>2 DEF T
<1> DEFINE both == one \o others
           tail == Tail(s)
<1> HIDE DEF S, c, one, others
<1>8. both \in Seq(S) /\ tail \in Seq(S) /\ r = both \o tail
  BY <1>1, <1>5, ConcatIn
<1>9. todo' = both \o (tail \o c)
  BY <1>1, <1>3, <1>4 DEF one, others
<1> HIDE DEF both, tail
<1>10. r \in Seq(S)
  BY <1>8, ConcatIn
<1>11. both \o (tail \o c) = (both \o tail) \o c
  <2> DEFINE T == S \cup MapMoves(m)
  <2>1. both \in Seq(T) /\ tail \in Seq(T) /\ c \in Seq(T)
    BY <1>7, <1>8, SeqGrows
  <2> HIDE DEF T
  <2>2. QED
    BY <2>1, SMTT(60)
<1>12. todo' = r \o c
  BY <1>8, <1>9, <1>11
<1> HIDE DEF r
<1>13. QED
  BY <1>6, <1>10, <1>12 DEF S, c

LEMMA MapWritten ==
    ASSUME TypeOK, TodoInv, LoopInv, KindInv, TaskFacts, MapInv, Writing
    PROVE  MapInv'
<1>1. UNCHANGED <<storeVars, fieldVars>>
  BY KindRest, ScriptWrites
<1>2. /\ \A m : Linked(m)' = Linked(m) /\ MapMoves(m)' = MapMoves(m) /\ Mapping(m)' = Mapping(m)
      /\ \A m \in Task : (Node[m].kind = "map" /\ state[m] = "accepted" => Linked(m))'
      /\ state' = state /\ deps' = deps
  BY <1>1 DEF storeVars, MapInv, Linked, MapMoves, Mapping, Move, StartComputed, Adding, Depending
<1>3. ASSUME todo' \in Seq(Loops(Without("map"))) PROVE MapInv'
  BY <1>2, <1>3 DEF MapInv, Fanning, Loops, Without, AnyStep, CommonSteps, IterSteps
<1>4. ASSUME todo \in Seq(Loops(Without("map"))), \A t \in Task : ~LaunchMap(t) PROVE MapInv'
  <2>1. \A t \in Task : Node[t].kind = "map" => ~LaunchCondition(t) /\ ~LaunchMap(t)
    BY <1>4 DEF LaunchCondition
  <2>2. QED
    BY <1>3, <1>4, <2>1, StillWithout
<1>5. ASSUME NEW t \in Task, LaunchMap(t) PROVE MapInv'
  <2>1. Node[t].kind = "map" /\ \E s \in Seq(Mapping(t)) : Mapped(t, s)'
    BY <1>5, MapBegun
  <2>2. PICK s \in Seq(Mapping(t)) : Mapped(t, s)'
    BY <2>1
  <2>3. s \in Seq(Mapping(t)')
    BY <1>2
  <2>4. QED
    BY <1>2, <2>1, <2>2, <2>3 DEF MapInv, Fanning
<1>6. CASE todo = <<>>
  <2>1. todo \in Seq(Loops(Without("map")))
    BY <1>6, EmptyIn
  <2>2. QED
    BY <1>4, <1>5, <2>1
<1>7. ASSUME Crash PROVE MapInv'
  <2>1. todo' \in Seq(Loops(Without("map")))
    BY <1>7, EmptyIn DEF Crash
  <2>2. QED
    BY <1>3, <2>1
<1>8. ASSUME todo # <<>>, Head(todo).op \in {"move", "start", "add", "depend"} PROVE MapInv'
  <2>1. ~PerformEach
    BY <1>8 DEF PerformEach, At
  <2>2. QED
    BY <1>7, <1>8, <2>1, WritingMid
<1>9. ASSUME todo # <<>>, NEW m \in Task, todo \in Seq(MapMoves(m)) PROVE MapInv'
  <2>1. Head(todo) \in MapMoves(m)
    BY <1>9
  <2>2. QED
    BY <1>8, <1>9, <2>1 DEF MapMoves, Move
<1>10. ASSUME NEW m \in Task, Node[m].kind = "map", NEW s \in Seq(Mapping(m)), s # <<>>, Mapped(m, s)
       PROVE  MapInv'
  <2>1. todo # <<>> /\ Head(todo) \in Mapping(m)
    BY <1>10, MappedFront
  <2>2. CASE Head(todo).op # "each"
    BY <1>8, <2>1, <2>2 DEF Mapping, StartComputed, Adding, Depending
  <2>3. CASE PerformEach
    <3>1. PICK r \in Seq(Mapping(m)) :
              /\ todo' = r \o AcceptComputed(m)
              /\ \A u \in Node[m].reduce : Owed(Depending(m, u), s) => Owed(Depending(m, u), r)
      BY <1>10, <2>3, MapPass
    <3>2. Mapped(m, r)'
      <4>1. \A u \in Node[m].reduce :
               Node[m].children \subseteq deps'[u] \/ Owed(Depending(m, u), r)
        BY <1>2, <1>10, <3>1 DEF Mapped
      <4>2. QED
        BY <3>1, <4>1 DEF Mapped, AcceptComputed, Move, Owed, Depending
    <3>3. r \in Seq(Mapping(m)')
      BY <1>2
    <3>4. QED
      BY <1>2, <1>10, <3>2, <3>3 DEF MapInv, Fanning
  <2>4. QED
    BY <1>7, <2>1, <2>2, <2>3, WritingMid
<1>11. ASSUME todo # <<>>, NEW m \in Task, Mapped(m, <<>>) PROVE MapInv'
  BY <1>9, <1>11, NothingOwed
<1>12. CASE todo # <<>>
  <2>1. CASE todo \in Seq(Loops(Without("map")))
    <3>1. \A t \in Task : ~LaunchMap(t)
      BY <1>12 DEF LaunchMap, Launch, Idle
    <3>2. QED
      BY <1>4, <2>1, <3>1
  <2>2. CASE \E m \in Task : Node[m].kind = "map" /\ Linked(m) /\ todo \in Seq(MapMoves(m))
    BY <1>9, <1>12, <2>2
  <2>3. CASE \E m \in Task : Node[m].kind = "map" /\ \E s \in Seq(Mapping(m)) : Mapped(m, s)
    <3>1. PICK m \in Task : Node[m].kind = "map" /\ \E s \in Seq(Mapping(m)) : Mapped(m, s)
      BY <2>3
    <3>2. PICK s \in Seq(Mapping(m)) : Mapped(m, s)
      BY <3>1
    <3>3. QED
      BY <1>10, <1>11, <1>12, <3>1, <3>2
  <2>4. QED
    BY <2>1, <2>2, <2>3 DEF MapInv, Fanning
<1>13. QED
  BY <1>6, <1>12

LEMMA MapKept == RuntimeInv /\ LedgerInv /\ KindInv /\ MapInv /\ [Next]_vars => MapInv'
<1> SUFFICES ASSUME RuntimeInv, LedgerInv, KindInv, MapInv, [Next]_vars PROVE MapInv'
  OBVIOUS
<1>1. TypeOK /\ TodoInv /\ LoopInv /\ TaskFacts
  BY DEF RuntimeInv, WorkerInv, LedgerInv
<1>2. CASE Writing
  BY <1>1, <1>2, MapWritten
<1>3. CASE StepDone(Head(todo))
  BY <1>1, <1>3, MapPopped
<1>4. CASE Beside
  <2>1. todo' = todo /\ state' = state /\ deps' = deps
    BY <1>4 DEF Beside
  <2>2. /\ \A m : Linked(m)' = Linked(m) /\ MapMoves(m)' = MapMoves(m) /\ Mapping(m)' = Mapping(m)
        /\ \A m, s : Mapped(m, s)' = Mapped(m, s)
    BY <2>1 DEF Linked, MapMoves, Mapping, Move, StartComputed, Adding, Depending, Mapped,
       AcceptComputed, Owed, StepsOf
  <2>3. Loops(Without("map"))' = Loops(Without("map"))
    BY DEF Loops, Without, AnyStep, CommonSteps, IterSteps
  <2>4. QED
    BY <2>1, <2>2, <2>3 DEF MapInv, Fanning
<1>5. QED
  BY <1>2, <1>3, <1>4, NextShape

(* Fan-in waits for the whole fan-out (_run_map extends the dependencies of   *)
(* its reducers before it is accepted; _run_reduce): a reducer that may not    *)
(* be partial is only attempted over children that are all there and all       *)
(* accepted, whatever crashes, requests and outcomes.  The hypothesis is that   *)
(* a reducer with generated children takes them from a map that names it in     *)
(* its field reduce, which the validation of workflow.json leaves open.        *)
THEOREM ReducersSeeEveryChild ==
    ASSUME \A r \in Task :
              LET m == Node[r].source
              IN Node[r].kind = "reduce" /\ ~Node[r].allow_partial /\ Node[m].children # {} =>
                    Node[m].kind = "map" /\ r \in Node[m].reduce
    PROVE  Spec => []ReduceSeesEveryChild
<1>1. Init => MapInv
  <2> SUFFICES ASSUME Init PROVE MapInv
    OBVIOUS
  <2>1. todo \in Seq(Loops(Without("map")))
    BY EmptyIn DEF Init
  <2>2. \A t \in Task : state[t] # "accepted"
    BY DEF Init, StoreInit
  <2>3. QED
    BY <2>1, <2>2 DEF MapInv, Fanning
<1>2. RuntimeInv /\ LedgerInv /\ KindInv /\ MapInv /\ [Next]_vars => MapInv'
  BY MapKept
<1>3. RuntimeInv /\ LP!Gated /\ LedgerInv /\ MapInv => ReduceSeesEveryChild
  <2> SUFFICES ASSUME RuntimeInv, LP!Gated, LedgerInv, MapInv,
                      NEW r \in Task, Node[r].kind = "reduce", ~Node[r].allow_partial,
                      attempt[r] > 0, NEW c \in Node[Node[r].source].children
               PROVE  state[c] = "accepted"
    BY DEF ReduceSeesEveryChild
  <2> DEFINE m == Node[r].source
  <2>1. m \in Task /\ Node[m].kind = "map" /\ r \in Node[m].reduce
    BY RuntimeAssumption DEF NodeType
  <2>2. m \in deps[r] /\ TaskFacts
    BY <2>1, ReducersAre DEF LedgerInv
  <2>3. state[m] = "accepted"
    BY <2>2, GatedMeans
  <2>4. c \in deps[r]
    BY <2>1, <2>3 DEF MapInv, Linked
  <2>5. QED
    BY <2>4, GatedMeans
<1>4. QED
  BY <1>1, <1>2, <1>3, RuntimeInvAlways, LedgerAlways, KindAlways, PTL DEF Spec

-----------------------------------------------------------------------------
(* Repeat nodes.  The iterations of one are added one by one, each over the   *)
(* acceptance of all before it.                                              *)
Repeats == {t \in Task : Node[t].kind = "repeat_until"}
Earlier(t, n) == \A j \in DOMAIN Node[t].iterations :
    j < n => state[Node[t].iterations[j]] = "accepted"
Later(t, n) == \A j \in DOMAIN Node[t].iterations :
    j > n => state[Node[t].iterations[j]] = "absent"
Row(t) == \A n \in DOMAIN Node[t].iterations :
    state[Node[t].iterations[n]] # "absent" => Earlier(t, n)
Finished(t) == \E n \in DOMAIN Node[t].iterations :
    Earlier(t, n) /\ Later(t, n) /\ state[Node[t].iterations[n]] = "accepted"

\* the scripts outside of an iteration
Alone ==
    {x \in AnyStep :
        /\ x.op = "move" /\ x.to = "accepted" => x.task \notin Repeats
        /\ x.op = "add" => x.task \notin Iteration
        /\ x.op # "drive"
        /\ x.op = "iterate" => state[x.root] # "accepted"}
\* those that start one, and that record its acceptance
Ahead(t, c) ==
    [op : {"add"}, task : {c}, on : SUBSET Task] \cup [op : {"reserve"}, task : {c}, by : {t}]
        \cup [op : {"move"}, task : {c}, to : {"ready"}]
        \cup [op : {"launch", "submit"}, task : {c}]
        \cup [op : {"drive"}, root : {t}, n : {n \in Nat \ {0} : Node[t].iterations[n] = c}]
Behind(c) ==
    [op : {"update"}, task : {c}, fp : Fingerprint \cup {NoFingerprint}]
        \cup [op : {"move"}, task : {c}, to : {"completed", "verifying", "accepted"}]
        \cup [op : {"release"}, task : {c}]

Ongoing(t, n) == state[t] # "accepted" /\ Earlier(t, n) /\ Later(t, n)
Driven(t, n) == Ongoing(t, n) /\ todo \in Seq(Ahead(t, Node[t].iterations[n]))
Concluded(t, n, s) ==
    /\ Ongoing(t, n) /\ todo = s \o AcceptComputed(t)
    /\ \/ state[Node[t].iterations[n]] = "accepted"
       \/ Move(Node[t].iterations[n], "accepted") \in StepsOf(s)

Repeating ==
    \/ todo \in Seq(Loops(Alone))
    \/ \E t \in Repeats : \E n \in DOMAIN Node[t].iterations : Driven(t, n)
    \/ \E t \in Repeats : \E n \in DOMAIN Node[t].iterations :
          \E s \in Seq(Behind(Node[t].iterations[n])) : Concluded(t, n, s)
    \/ \E t \in Repeats : Finished(t) /\ todo \in Seq(MapMoves(t))
RepInv ==
    /\ Repeating
    /\ \A t \in Repeats : Row(t) /\ (state[t] = "accepted" => Finished(t))

LEMMA IterationsAre ==
    ASSUME NEW t \in Task
    PROVE  /\ DOMAIN Node[t].iterations = 1..Len(Node[t].iterations)
           /\ Len(Node[t].iterations) \in Nat
           /\ \A n \in DOMAIN Node[t].iterations :
                 /\ Node[t].iterations[n] \in Iteration /\ Node[t].iterations[n] \in Task
                 /\ Node[Node[t].iterations[n]].kind = "agent"
<1>1. Node[t].iterations \in Seq(Task)
  BY RuntimeAssumption DEF NodeType
<1>2. \A n \in DOMAIN Node[t].iterations : Node[t].iterations[n] \in Task
  BY <1>1
<1>3. \A n \in DOMAIN Node[t].iterations : Node[t].iterations[n] \in Iteration
  BY <1>2 DEF Iteration
<1>4. QED
  BY <1>1, <1>2, <1>3, GraphAssumption

LEMMA OneRow ==
    ASSUME NEW t \in Task, NEW n \in DOMAIN Node[t].iterations, NEW u \in Task,
           NEW m \in DOMAIN Node[u].iterations,
           Node[u].iterations[m] = Node[t].iterations[n]
    PROVE  u = t /\ m = n
BY GraphAssumption

\* what is accepted stays so, and nothing is added
Unmoved == \A i \in Iteration :
    /\ state[i] = "accepted" => state'[i] = "accepted"
    /\ state[i] = "absent" => state'[i] = "absent"

LEMMA RowsStay ==
    ASSUME Unmoved, NEW t \in Task
    PROVE  /\ \A n \in DOMAIN Node[t].iterations : /\ Earlier(t, n) => Earlier(t, n)'
                                                   /\ Later(t, n) => Later(t, n)'
           /\ Row(t) => Row(t)'
           /\ Finished(t) => Finished(t)'
<1>1. \A j \in DOMAIN Node[t].iterations :
         LET i == Node[t].iterations[j]
         IN /\ state[i] = "accepted" => state'[i] = "accepted"
            /\ state[i] = "absent" => state'[i] = "absent"
  BY IterationsAre DEF Unmoved
<1>2. \A n \in DOMAIN Node[t].iterations : /\ Earlier(t, n) => Earlier(t, n)'
                                           /\ Later(t, n) => Later(t, n)'
  BY <1>1 DEF Earlier, Later
<1>3. Row(t) => Row(t)'
  BY <1>1, <1>2 DEF Row
<1>4. Finished(t) => Finished(t)'
  BY <1>1, <1>2 DEF Finished
<1>5. QED
  BY <1>2, <1>3, <1>4

(* the next iteration is added *)
LEMMA RowGrows ==
    ASSUME NEW t \in Task, NEW n \in DOMAIN Node[t].iterations, Earlier(t, n),
           \A i \in Iteration : /\ state[i] = "accepted" => state'[i] = "accepted"
                                /\ state[i] = "absent" /\ i # Node[t].iterations[n] =>
                                      state'[i] = "absent"
    PROVE  /\ Earlier(t, n)' /\ (Later(t, n) => Later(t, n)')
           /\ \A u \in Task : /\ Row(u) => Row(u)'
                              /\ u # t /\ Finished(u) => Finished(u)'
<1>1. ASSUME NEW u \in Task, NEW j \in DOMAIN Node[u].iterations
      PROVE  /\ state[Node[u].iterations[j]] = "accepted" => state'[Node[u].iterations[j]] = "accepted"
             /\ state[Node[u].iterations[j]] = "absent" /\ (u # t \/ j # n) =>
                   state'[Node[u].iterations[j]] = "absent"
  <2>1. Node[u].iterations[j] \in Iteration
    BY IterationsAre
  <2>2. u # t \/ j # n => Node[u].iterations[j] # Node[t].iterations[n]
    BY OneRow
  <2>3. QED
    BY <2>1, <2>2
<1>2. \A u \in Task : \A m \in DOMAIN Node[u].iterations : Earlier(u, m) => Earlier(u, m)'
  BY <1>1 DEF Earlier
<1>3. DOMAIN Node[t].iterations \subseteq Nat
  BY IterationsAre
<1>4. Later(t, n) => Later(t, n)'
  BY <1>1, <1>3 DEF Later
<1>5. ASSUME NEW u \in Task, Row(u) PROVE Row(u)'
  <2>1. SUFFICES ASSUME NEW m \in DOMAIN Node[u].iterations,
                        state'[Node[u].iterations[m]] # "absent"
                 PROVE  Earlier(u, m)'
    BY DEF Row
  <2>2. state[Node[u].iterations[m]] # "absent" \/ (u = t /\ m = n)
    BY <1>1, <2>1
  <2>3. Earlier(u, m)
    BY <1>5, <2>2 DEF Row
  <2>4. QED
    BY <1>2, <2>3
<1>6. ASSUME NEW u \in Task, u # t, Finished(u) PROVE Finished(u)'
  <2>1. PICK m \in DOMAIN Node[u].iterations :
           Earlier(u, m) /\ Later(u, m) /\ state[Node[u].iterations[m]] = "accepted"
    BY <1>6 DEF Finished
  <2>2. Later(u, m)'
    BY <1>1, <1>6, <2>1 DEF Later
  <2>3. QED
    BY <1>1, <1>2, <2>1, <2>2 DEF Finished
<1>7. QED
  BY <1>2, <1>4, <1>5, <1>6

LEMMA RowsAtRest ==
    ASSUME NEW x \in AnyStep, StoreTypeOK, StoreStep(x) \/ UNCHANGED storeVars, RepInv
    PROVE  /\ \A i \in Iteration : /\ state[i] = "accepted" => state'[i] = "accepted"
                                   /\ state[i] = "absent" /\ (x.op # "add" \/ x.task # i) =>
                                         state'[i] = "absent"
           /\ x.op # "add" \/ x.task \notin Iteration => Unmoved
           /\ \A t \in Repeats : state'[t] = "accepted" =>
                 state[t] = "accepted" \/ (x.op = "move" /\ x.to = "accepted" /\ x.task = t)
<1>1. Iteration \subseteq Task /\ Repeats \subseteq Task
  BY DEF Iteration, Repeats
<1>2. \A i \in Iteration : /\ state[i] = "accepted" => state'[i] = "accepted"
                           /\ state[i] = "absent" /\ (x.op # "add" \/ x.task # i) =>
                                 state'[i] = "absent"
  BY <1>1, TaskStep
<1>3. \A t \in Repeats : state'[t] = "accepted" =>
         state[t] = "accepted" \/ (x.op = "move" /\ x.to = "accepted" /\ x.task = t)
  BY <1>1, TaskStep
<1>4. QED
  BY <1>2, <1>3 DEF Unmoved

(* once the last iteration is on record, only the acceptance of t is left     *)
LEMMA AllConcluded ==
    ASSUME NEW t \in Repeats, NEW n \in DOMAIN Node[t].iterations, Concluded(t, n, <<>>)
    PROVE  Finished(t) /\ todo \in Seq(MapMoves(t))
<1>1. StepsOf(<<>>) = {}
  BY DEF StepsOf
<1>2. Finished(t)
  BY <1>1 DEF Concluded, Finished, Ongoing
<1>3. todo = AcceptComputed(t)
  BY DEF Concluded, AcceptComputed
<1>4. Move(t, "completed") \in MapMoves(t) /\ Move(t, "verifying") \in MapMoves(t)
      /\ Move(t, "accepted") \in MapMoves(t)
  BY DEF MapMoves
<1>5. QED
  BY <1>2, <1>3, <1>4, ThreeIn DEF AcceptComputed

LEMMA RepPopped ==
    ASSUME TypeOK, KindInv, RepInv, StepDone(Head(todo))
    PROVE  RepInv'
<1> DEFINE x == Head(todo)
<1>1. /\ todo # <<>> /\ todo' = Tail(todo) /\ x.op \notin {"each", "drive"} /\ x \in AnyStep
      /\ StoreStep(x) \/ UNCHANGED storeVars
      /\ x.op = "submit" \/ StoreStep(x)
  BY HeadKind DEF StepDone
<1>2. StoreTypeOK
  BY DEF TypeOK
<1>3. /\ \A i \in Iteration : /\ state[i] = "accepted" => state'[i] = "accepted"
                              /\ state[i] = "absent" /\ (x.op # "add" \/ x.task # i) =>
                                    state'[i] = "absent"
      /\ x.op # "add" \/ x.task \notin Iteration => Unmoved
      /\ \A t \in Repeats : state'[t] = "accepted" =>
            state[t] = "accepted" \/ (x.op = "move" /\ x.to = "accepted" /\ x.task = t)
  BY <1>1, <1>2, RowsAtRest
<1>4. Repeats \subseteq Task /\ \A t \in Repeats : Row(t) /\ (state[t] = "accepted" => Finished(t))
  BY DEF RepInv, Repeats
<1> HIDE DEF x
<1>5. ASSUME Unmoved, Repeating', \A t \in Repeats : state'[t] = "accepted" =>
                                     state[t] = "accepted" \/ Finished(t)
      PROVE  RepInv'
  <2>1. \A t \in Repeats : Row(t)' /\ (Finished(t) => Finished(t)')
    BY <1>4, <1>5, RowsStay
  <2>2. QED
    BY <1>4, <1>5, <2>1 DEF RepInv, Repeats
<1>6. CASE todo \in Seq(Loops(Alone))
  <2>1. x \in Loops(Alone) /\ todo' \in Seq(Loops(Alone))
    BY <1>1, <1>6 DEF x
  <2>2. x \in Alone
    BY <1>1, <2>1 DEF Loops
  <2>3. (x.op # "add" \/ x.task \notin Iteration)
        /\ (x.op = "move" /\ x.to = "accepted" => x.task \notin Repeats)
    BY <2>2 DEF Alone
  <2>4. Alone \subseteq Alone'
    <3>1. ASSUME NEW y \in Alone, y.op = "iterate" PROVE state'[y.root] # "accepted"
      <4>1. y.root \in Repeats /\ state[y.root] # "accepted"
        BY <3>1 DEF Alone, AnyStep, CommonSteps, IterSteps, Repeats
      <4>2. QED
        BY <1>3, <2>3, <4>1
    <3>2. AnyStep' = AnyStep /\ Repeats' = Repeats /\ Iteration' = Iteration
      BY DEF AnyStep, CommonSteps, IterSteps, Repeats, Iteration
    <3>3. QED
      BY <3>1, <3>2 DEF Alone
  <2>5. todo' \in Seq(Loops(Alone'))
    BY <2>1, <2>4, LoopsGrow
  <2>6. Loops(Alone)' = Loops(Alone')
    BY DEF Loops, CommonSteps
  <2>7. Repeating'
    BY <2>5, <2>6 DEF Repeating
  <2>8. QED
    BY <1>3, <1>5, <2>3, <2>7
<1>7. ASSUME NEW t \in Repeats, NEW n \in DOMAIN Node[t].iterations, Driven(t, n) PROVE RepInv'
  <2> DEFINE c == Node[t].iterations[n]
  <2>1. /\ Ongoing(t, n) /\ todo \in Seq(Ahead(t, c)) /\ t \in Task
        /\ c \in Iteration /\ c \in Task /\ Node[c].kind = "agent" /\ c # t
    BY <1>4, <1>7, IterationsAre DEF Driven, Repeats
  <2>2. x \in Ahead(t, c) /\ todo' \in Seq(Ahead(t, c))
    <3> HIDE DEF c
    <3>1. QED
      BY <1>1, <2>1 DEF x
  <2>3. x.task = c /\ (x.op = "move" => x.to = "ready")
    BY <1>1, <2>2 DEF Ahead
  <2> HIDE DEF c
  <2>4. \A u \in Repeats : state'[u] = "accepted" => state[u] = "accepted"
    BY <1>3, <2>3
  <2>5. \A i \in Iteration : /\ state[i] = "accepted" => state'[i] = "accepted"
                             /\ state[i] = "absent" /\ i # c => state'[i] = "absent"
    BY <1>3, <2>3
  <2>6. /\ Earlier(t, n)' /\ Later(t, n)'
        /\ \A u \in Task : Row(u) => Row(u)'
        /\ \A u \in Task : u # t /\ Finished(u) => Finished(u)'
    BY <2>1, <2>5, RowGrows DEF Ongoing, c
  <2>7. \A u \in Repeats : Row(u)' /\ (state'[u] = "accepted" => Finished(u)')
    <3>1. state[t] # "accepted"
      BY <2>1 DEF Ongoing
    <3>2. QED
      BY <1>4, <2>4, <2>6, <3>1
  <2>8. Driven(t, n)'
    <3>1. Ongoing(t, n)'
      BY <2>1, <2>4, <2>6 DEF Ongoing
    <3>2. Ahead(t, c)' = Ahead(t, c)
      BY DEF Ahead, c
    <3>3. QED
      BY <2>2, <3>1, <3>2 DEF Driven, c
  <2>9. QED
    BY <2>7, <2>8 DEF RepInv, Repeating, Repeats
<1>8. ASSUME NEW t \in Repeats, Finished(t), todo \in Seq(MapMoves(t)) PROVE RepInv'
  <2>1. x \in MapMoves(t) /\ todo' \in Seq(MapMoves(t))
    BY <1>1, <1>8 DEF x
  <2>2. x.op = "move" /\ x.task = t
    BY <2>1 DEF MapMoves, Move
  <2>3. Unmoved
    BY <1>3, <2>2
  <2>4. Finished(t)' /\ MapMoves(t)' = MapMoves(t)
    BY <1>4, <1>8, <2>3, RowsStay DEF MapMoves, Move
  <2>5. Repeating'
    BY <2>1, <2>4 DEF Repeating, Repeats
  <2>6. QED
    BY <1>3, <1>5, <1>8, <2>2, <2>3, <2>5
<1>9. ASSUME NEW t \in Repeats, NEW n \in DOMAIN Node[t].iterations,
             NEW s \in Seq(Behind(Node[t].iterations[n])), s # <<>>, Concluded(t, n, s)
      PROVE  RepInv'
  <2> DEFINE c == Node[t].iterations[n]
             S == Behind(c)
             z == Move(c, "accepted")
  <2>1. /\ Ongoing(t, n) /\ todo = s \o AcceptComputed(t) /\ t \in Task
        /\ c \in Iteration /\ c \in Task /\ Node[c].kind = "agent"
        /\ state[c] = "accepted" \/ z \in StepsOf(s)
    BY <1>4, <1>9, IterationsAre DEF Concluded
  <2>2. /\ x = Head(s) /\ x \in S /\ Tail(s) \in Seq(S) /\ s \in Seq(S)
        /\ todo' = Tail(s) \o AcceptComputed(t)
    <3>1. s \in Seq(S)
      OBVIOUS
    <3> HIDE DEF S
    <3>2. QED
      BY <1>1, <1>9, <2>1, <3>1, AcceptFront DEF x
  <2>3. x.op \in {"update", "move", "release"} /\ x.task = c
    BY <2>2 DEF Behind
  <2>4. Unmoved /\ c \notin Repeats
    BY <1>3, <2>1, <2>3 DEF Repeats
  <2>5. \A u \in Repeats : state'[u] = "accepted" => state[u] = "accepted"
    BY <1>3, <2>3, <2>4
  <2>6. Ongoing(t, n)'
    <3>1. Earlier(t, n)' /\ Later(t, n)'
      BY <2>1, <2>4, RowsStay DEF Ongoing
    <3>2. QED
      BY <2>1, <2>5, <3>1 DEF Ongoing
  <2>7. state'[c] = "accepted" \/ z \in StepsOf(Tail(s))
    <3>1. CASE state[c] = "accepted"
      BY <1>3, <2>1, <3>1
    <3>2. CASE x = z
      <4>1. x.op = "move" /\ x.to = "accepted"
        BY <3>2 DEF Move
      <4>2. TransitionTask(c, "accepted")
        BY <1>1, <2>3, <4>1 DEF StoreStep
      <4>3. QED
        BY <1>2, <2>1, <4>2 DEF TransitionTask, StoreTypeOK
    <3>3. CASE z \in StepsOf(s) /\ x # z
      <4> HIDE DEF S, z
      <4>1. StepsOf(s) = {Head(s)} \cup StepsOf(Tail(s))
        BY <1>9, <2>2, StepsOfTail
      <4>2. QED
        BY <2>2, <3>3, <4>1
    <3>4. QED
      BY <2>1, <3>1, <3>2, <3>3
  <2>8. Concluded(t, n, Tail(s))'
    BY <2>2, <2>6, <2>7 DEF Concluded, AcceptComputed, Move, StepsOf
  <2>9. Tail(s) \in Seq(Behind(Node[t].iterations[n]))'
    BY <2>2 DEF Behind
  <2>10. Repeating'
    BY <2>8, <2>9 DEF Repeating, Repeats
  <2>11. QED
    BY <1>5, <2>4, <2>5, <2>10
<1>10. ASSUME NEW t \in Repeats, NEW n \in DOMAIN Node[t].iterations, Concluded(t, n, <<>>)
       PROVE  RepInv'
  BY <1>8, <1>10, AllConcluded
<1>11. CASE \E t \in Repeats : \E n \in DOMAIN Node[t].iterations :
              \E s \in Seq(Behind(Node[t].iterations[n])) : Concluded(t, n, s)
  <2>1. PICK t \in Repeats : \E n \in DOMAIN Node[t].iterations :
              \E s \in Seq(Behind(Node[t].iterations[n])) : Concluded(t, n, s)
    BY <1>11
  <2>2. PICK n \in DOMAIN Node[t].iterations :
              \E s \in Seq(Behind(Node[t].iterations[n])) : Concluded(t, n, s)
    BY <2>1
  <2>3. PICK s \in Seq(Behind(Node[t].iterations[n])) : Concluded(t, n, s)
    BY <2>2
  <2>4. QED
    BY <1>9, <1>10, <2>3
<1>12. QED
  BY <1>6, <1>7, <1>8, <1>11 DEF RepInv, Repeating

(* a script outside of an iteration writes another such script               *)
LEMMA AloneWritten ==
    ASSUME TypeOK, TodoInv, LoopInv, KindInv, TaskFacts, Writing, todo \in Seq(Loops(Alone)),
           todo # <<>> => Head(todo).op \notin {"iterate", "drive"}
    PROVE  todo' \in Seq(Loops(Alone))
<1>1. Rest(Alone)
  BY KindRest DEF Rest
<1>2. Writes(Alone)
  BY <1>1, ScriptWrites
<1>3. PICK s : /\ Wrote(s, Alone)
               /\ todo' = s \/ \E u \in Task : todo' = <<ClearPid(u)>> \o s
  BY <1>2 DEF Writes
<1>4. CommonSteps \subseteq Alone
  <2>1. CommonSteps \subseteq AnyStep
    BY OwnIsAny
  <2>2. \A t \in Repeats : Node[t].kind \in Settling
    BY DEF Repeats, Settling
  <2>3. QED
    BY <2>1, <2>2 DEF Alone, CommonSteps
<1>5. ASSUME NEW u \in Task PROVE RetryOwn(u) \subseteq Alone
  BY OwnIsAny DEF RetryOwn, Alone
<1>6. ASSUME NEW u \in Task PROVE LaunchOwn(u) \subseteq Alone
  <2>1. LaunchRepeat(u) => state[u] # "accepted"
    BY DEF LaunchRepeat, Launch, TaskFacts
  <2>2. LaunchOwn(u) \subseteq AnyStep
    BY OwnIsAny
  <2>3. QED
    BY <2>1, <2>2 DEF LaunchOwn, Alone
<1>7. todo = <<>> => SettleSteps \subseteq Alone
  <2>1. ASSUME NEW t \in Task, Settles(t), todo = <<>> PROVE t \notin Repeats
    BY <2>1 DEF Settles, LaunchCondition, LaunchMap, DriveAccepted, At, Repeats
  <2>2. SettleSteps \subseteq AnyStep
    BY OwnIsAny
  <2>3. QED
    BY <2>1, <2>2 DEF SettleSteps, Alone
<1>8. s \in Seq(Loops(Alone))
  BY <1>3, <1>4, <1>5, <1>6, <1>7, WrittenIn
<1>9. \A u \in Task : ClearPid(u) \in Alone
  BY DEF ClearPid, Update, Alone, AnyStep, CommonSteps, TypeOK
<1>10. QED
  BY <1>3, <1>8, <1>9, ClearedIn

(* an iteration is begun, or is one too many                                 *)
LEMMA IterateBegins ==
    ASSUME TypeOK, TodoInv, KindInv, Iterates, RepInv, PerformIterate,
           todo \in Seq(Loops(Alone))
    PROVE  \/ todo' \in Seq(Loops(Alone))
           \/ \E t \in Repeats : \E n \in DOMAIN Node[t].iterations :
                 Ongoing(t, n) /\ todo' \in Seq(Ahead(t, Node[t].iterations[n]))
<1>1. todo # <<>> /\ Head(todo).op = "iterate"
  BY DEF PerformIterate, At
<1>2. PICK t \in Calm, n \in Nat \ {0} : todo = <<Iterating(t, n)>>
  BY <1>1, HeadFacts, EndingShape DEF HeadFact, TypeOK, Launching, Driving
<1>3. /\ t \in Task /\ Head(todo).root = t /\ Head(todo).n = n /\ Tail(todo) = <<>>
      /\ Head(todo) = Iterating(t, n)
  BY <1>2, CalmIsTask DEF Iterating
<1>4. t \in Repeats /\ state[t] # "accepted"
  <2>1. Head(todo) \in Loops(Alone)
    BY <1>1
  <2>2. Head(todo) \in Alone
    BY <1>1, <2>1 DEF Loops
  <2>3. QED
    BY <1>1, <1>3, <2>2 DEF Alone, AnyStep, CommonSteps, IterSteps, Repeats
<1> DEFINE more == n <= Len(Node[t].iterations)
           child == Node[t].iterations[n]
           before == IF n = 1 THEN {} ELSE {Node[t].iterations[n - 1]}
           add == IF state[child] = "absent"
                  THEN <<[op |-> "add", task |-> child, on |-> before]>> ELSE <<>>
           open == <<Move(child, "ready")>>
           out == <<[op |-> "submit", task |-> child], [op |-> "drive", root |-> t, n |-> n]>>
           go == add \o open \o StartSteps(child, t) \o out
           Own == Ahead(t, child)
<1>5. todo' = (IF more /\ state[child] \in {"absent", "pending"} THEN go ELSE FailSteps(t)) \o <<>>
  BY <1>3 DEF PerformIterate
<1>6. ASSUME ~(more /\ state[child] \in {"absent", "pending"}) PROVE todo' \in Seq(Loops(Alone))
  <2>1. Move(t, "failed") \in Alone /\ Release(t) \in Alone
    BY <1>3 DEF Move, Release, Alone, AnyStep, CommonSteps, TaskState
  <2>2. FailSteps(t) \in Seq(Loops(Alone))
    BY <2>1, TwoIn, LoopsGrow DEF FailSteps
  <2>3. QED
    BY <1>5, <1>6, <2>2, EmptyFront
<1>7. ASSUME more, state[child] \in {"absent", "pending"}
      PROVE  /\ n \in DOMAIN Node[t].iterations /\ Ongoing(t, n) /\ todo' \in Seq(Own)
  <2>1. n \in DOMAIN Node[t].iterations /\ child \in Task /\ before \subseteq Task
    <3>1. Node[t].iterations \in Seq(Task)
      BY <1>3, RuntimeAssumption DEF NodeType
    <3>2. QED
      BY <1>7, <3>1
  <2>2. Earlier(t, n)
    <3>1. CASE n = 1
      BY <1>3, <3>1, IterationsAre DEF Earlier
    <3>2. CASE n > 1
      <4>1. Follows(t, n, todo)
        <5>1. StepsOf(todo) = {Iterating(t, n)}
          BY <1>2, OneStep
        <5>2. QED
          BY <5>1 DEF Iterates, Iterating
      <4>2. Move(Node[t].iterations[n - 1], "accepted") \notin StepsOf(todo)
        <5>1. StepsOf(todo) = {Iterating(t, n)}
          BY <1>2, OneStep
        <5>2. QED
          BY <5>1 DEF Iterating, Move
      <4>3. /\ n - 1 \in DOMAIN Node[t].iterations
            /\ state[Node[t].iterations[n - 1]] = "accepted"
        BY <3>2, <4>1, <4>2 DEF Follows
      <4>4. Earlier(t, n - 1)
        BY <1>4, <4>3 DEF RepInv, Row
      <4>5. \A j \in DOMAIN Node[t].iterations : j < n => j < n - 1 \/ j = n - 1
        BY <1>3, IterationsAre
      <4>6. QED
        BY <4>3, <4>4, <4>5 DEF Earlier
    <3>3. QED
      BY <3>1, <3>2
  <2>3. Later(t, n)
    <3>1. ASSUME NEW j \in DOMAIN Node[t].iterations, j > n, state[Node[t].iterations[j]] # "absent"
          PROVE  FALSE
      <4>1. Earlier(t, j)
        BY <1>4, <3>1 DEF RepInv, Row
      <4>2. n < j
        BY <1>3, <3>1, IterationsAre
      <4>3. state[child] = "accepted"
        BY <2>1, <4>1, <4>2 DEF Earlier
      <4>4. QED
        BY <1>7, <4>3
    <3>2. QED
      BY <3>1 DEF Later
  <2>4. /\ [op |-> "add", task |-> child, on |-> before] \in Own
        /\ Move(child, "ready") \in Own
        /\ [op |-> "reserve", task |-> child, by |-> t] \in Own
        /\ [op |-> "launch", task |-> child] \in Own
        /\ [op |-> "submit", task |-> child] \in Own
        /\ [op |-> "drive", root |-> t, n |-> n] \in Own
    BY <2>1 DEF Ahead, Move
  <2> HIDE DEF Own
  <2>5. add \in Seq(Own) /\ open \in Seq(Own) /\ StartSteps(child, t) \in Seq(Own) /\ out \in Seq(Own)
    BY <2>4, OneIn, TwoIn, EmptyIn DEF StartSteps
  <2> HIDE DEF add, open, out
  <2>6. go \o <<>> \in Seq(Own)
    <3>1. <<>> \in Seq(Own)
      BY EmptyIn
    <3>2. QED
      BY <2>5, <3>1, ConcatIn
  <2>7. todo' = go \o <<>>
    BY <1>5, <1>7
  <2> HIDE DEF go
  <2>8. QED
    BY <1>4, <2>1, <2>2, <2>3, <2>6, <2>7 DEF Ongoing
<1>8. QED
  BY <1>4, <1>6, <1>7

(* what the outcome of an iteration leads to                                 *)
LEMMA DriveEnds ==
    ASSUME TypeOK, TodoInv, KindInv, NEW t \in Repeats, NEW n \in DOMAIN Node[t].iterations,
           Driven(t, n), Drives
    PROVE  \/ todo' \in Seq(Loops(Alone))
           \/ \E s \in Seq(Behind(Node[t].iterations[n])) :
                 /\ todo' = s \o AcceptComputed(t)
                 /\ Move(Node[t].iterations[n], "accepted") \in StepsOf(s)
<1> DEFINE c == Node[t].iterations[n]
           S == Loops(Alone)
           B == Behind(c)
           ending == <<Move(c, "accepted"), Release(c)>>
           rejecting == <<Move(c, "rejected"), Release(c)>>
           exhausting == <<ClearPid(c), Move(c, "budget_exhausted"), Release(c)>>
           done == CompleteSteps(c)
           fails == FailSteps(t)
           m == Head(todo).n
           again == Iterate(t, m + 1)
<1>1. At("drive")
  BY DEF Drives, DriveAccepted, DriveRejected, DriveExhausted, DriveRaised, DriveUnfinished, Drive
<1>2. /\ t \in Task /\ c \in Task /\ Node[c].kind = "agent" /\ c \in Iteration
      /\ state[t] # "accepted" /\ todo \in Seq(Ahead(t, c)) /\ Node[t].kind = "repeat_until"
  BY IterationsAre DEF Driven, Ongoing, Repeats
<1>3. m \in Nat \ {0} /\ Tail(todo) = <<>>
  BY <1>1, DriveHead
<1>4. Head(todo).root = t /\ Child = c
  <2>1. todo # <<>> /\ Head(todo).op = "drive"
    BY <1>1 DEF At
  <2>2. Head(todo) \in Ahead(t, c)
    <3> HIDE DEF c
    <3>1. QED
      BY <1>2, <2>1
  <2>3. Head(todo).root = t /\ Node[t].iterations[Head(todo).n] = c
    BY <2>1, <2>2 DEF Ahead
  <2>4. QED
    BY <2>3 DEF Child
<1> HIDE DEF c, m
<1>0. fingerprint[c] \in Fingerprint \cup {NoFingerprint}
  BY <1>2 DEF TypeOK
<1>5. /\ \A u \in {t, c} : \A to \in TaskState \ {"retry_wait", "accepted", "running", "pending", "paused"} :
            Move(u, to) \in S
      /\ Release(c) \in S /\ Release(t) \in S /\ ClearPid(c) \in S /\ Move(c, "accepted") \in S
      /\ [op |-> "iterate", root |-> t, n |-> m + 1] \in S
  <2>1. \A u \in {t, c} : \A to \in TaskState \ {"retry_wait", "accepted", "running", "pending", "paused"} :
            Move(u, to) \in Alone
    BY <1>2 DEF Move, Alone, AnyStep, CommonSteps
  <2>2. Release(c) \in Alone /\ Release(t) \in Alone /\ ClearPid(c) \in Alone
    BY <1>0, <1>2 DEF Release, ClearPid, Update, Alone, AnyStep, CommonSteps
  <2>3. Move(c, "accepted") \in Alone
    BY <1>2 DEF Move, Alone, AnyStep, CommonSteps, Repeats
  <2>4. [op |-> "iterate", root |-> t, n |-> m + 1] \in Alone
    BY <1>2, <1>3 DEF Alone, AnyStep, IterSteps
  <2>5. Alone \subseteq S
    BY DEF Loops
  <2> HIDE DEF S
  <2>6. QED
    BY <2>1, <2>2, <2>3, <2>4, <2>5
<1>6. /\ ending \in Seq(S) /\ rejecting \in Seq(S) /\ exhausting \in Seq(S) /\ done \in Seq(S)
      /\ fails \in Seq(S) /\ again \in Seq(S) /\ <<>> \in Seq(S)
  <2>1. /\ Move(c, "rejected") \in S /\ Move(c, "budget_exhausted") \in S /\ Move(t, "failed") \in S
        /\ Move(c, "completed") \in S /\ Move(c, "verifying") \in S
    BY <1>5 DEF TaskState
  <2> HIDE DEF S
  <2>2. QED
    BY <1>5, <2>1, TwoIn, ThreeIn, OneIn, EmptyIn DEF CompleteSteps, FailSteps, Iterate
<1>7. /\ ending \in Seq(B) /\ done \in Seq(B)
      /\ Move(c, "accepted") \in StepsOf(ending)
  <2>1. /\ ClearPid(c) \in B /\ Move(c, "completed") \in B /\ Move(c, "verifying") \in B
        /\ Move(c, "accepted") \in B /\ Release(c) \in B
    BY <1>0 DEF Behind, ClearPid, Update, Move, Release
  <2> HIDE DEF B
  <2>2. QED
    BY <2>1, TwoIn, ThreeIn DEF CompleteSteps, StepsOf
<1> HIDE DEF S, B, ending, rejecting, exhausting, done, fails, again
<1>8. /\ done \o ending \in Seq(S) /\ done \o rejecting \in Seq(S) /\ done \o fails \in Seq(S)
      /\ exhausting \o fails \in Seq(S)
  BY <1>6, ConcatIn
<1>9. /\ (done \o ending) \o again \in Seq(S) /\ (done \o ending) \o fails \in Seq(S)
      /\ (done \o rejecting) \o fails \in Seq(S)
  BY <1>6, <1>8, ConcatIn
<1>10. \A u : todo' = u \o <<>> /\ u \in Seq(S) => todo' \in Seq(S)
  BY EmptyFront
<1>11. CASE DriveAccepted
  <2> DEFINE accepts == AcceptComputed(t)
  <2>1. PICK next \in {accepts, again, fails} : Drive(done \o ending \o next)
    BY <1>4, <1>11 DEF DriveAccepted, done, ending, again, fails, m
  <2>2. todo' = (done \o ending \o next) \o <<>>
    BY <1>3, <2>1 DEF Drive
  <2>3. CASE next # accepts
    BY <1>9, <1>10, <2>1, <2>2, <2>3 DEF S
  <2>4. CASE next = accepts
    <3> DEFINE s == done \o ending
    <3>1. s \in Seq(B) /\ StepsOf(s) = StepsOf(done) \cup StepsOf(ending)
      BY <1>7, ConcatIn, StepsOfJoin
    <3> HIDE DEF s
    <3>2. todo' = s \o accepts
      <4>1. accepts \in Seq(MapMoves(t))
        <5>1. /\ Move(t, "completed") \in MapMoves(t) /\ Move(t, "verifying") \in MapMoves(t)
              /\ Move(t, "accepted") \in MapMoves(t)
          BY DEF MapMoves
        <5>2. QED
          BY <5>1, ThreeIn DEF AcceptComputed
      <4> DEFINE T == B \cup MapMoves(t)
      <4>2. s \in Seq(T) /\ accepts \in Seq(T)
        BY <3>1, <4>1, SeqGrows
      <4> HIDE DEF accepts, T
      <4>3. s \o accepts \in Seq(T)
        BY <4>2, ConcatIn
      <4>4. QED
        BY <2>2, <2>4, <4>3, EmptyFront DEF s
    <3>3. Move(c, "accepted") \in StepsOf(s)
      BY <1>7, <3>1
    <3>4. QED
      BY <3>1, <3>2, <3>3 DEF B, c
  <2>5. QED
    BY <2>3, <2>4
<1>12. CASE DriveRejected
  <2>1. todo' = ((done \o rejecting) \o fails) \o <<>>
    BY <1>3, <1>4, <1>12 DEF DriveRejected, Drive, done, rejecting, fails
  <2>2. QED
    BY <1>9, <1>10, <2>1 DEF S
<1>13. CASE DriveExhausted
  <2>1. todo' = (exhausting \o fails) \o <<>>
    BY <1>3, <1>4, <1>13 DEF DriveExhausted, Drive, exhausting, fails
  <2>2. QED
    BY <1>8, <1>10, <2>1 DEF S
<1>14. CASE DriveRaised
  <2>1. todo' = fails \o <<>>
    BY <1>3, <1>4, <1>14 DEF DriveRaised, Drive, fails
  <2>2. QED
    BY <1>6, <1>10, <2>1 DEF S
<1>15. CASE DriveUnfinished
  <2>1. todo' = (done \o fails) \o <<>>
    BY <1>3, <1>4, <1>15 DEF DriveUnfinished, Drive, done, fails
  <2>2. QED
    BY <1>8, <1>10, <2>1 DEF S
<1>16. QED
  BY <1>11, <1>12, <1>13, <1>14, <1>15 DEF Drives

LEMMA RepWritten ==
    ASSUME TypeOK, TodoInv, LoopInv, KindInv, TaskFacts, Iterates, RepInv, Writing
    PROVE  RepInv'
<1>1. UNCHANGED <<storeVars, fieldVars>>
  BY KindRest, ScriptWrites
<1>2. /\ \A t, n : /\ Ongoing(t, n)' = Ongoing(t, n)
                   /\ Ahead(t, Node[t].iterations[n])' = Ahead(t, Node[t].iterations[n])
      /\ \A t : /\ Finished(t)' = Finished(t) /\ MapMoves(t)' = MapMoves(t) /\ Row(t)' = Row(t)
                /\ AcceptComputed(t)' = AcceptComputed(t)
      /\ state' = state
  BY <1>1 DEF storeVars, Ongoing, Earlier, Later, Ahead, Finished, MapMoves, Row, Move,
     AcceptComputed
<1>3. Loops(Alone)' = Loops(Alone)
  BY <1>2 DEF Loops, Alone, AnyStep, CommonSteps, IterSteps, Repeats, Iteration
<1>4. ASSUME Repeating' PROVE RepInv'
  BY <1>2, <1>4 DEF RepInv, Repeats
<1>5. ASSUME todo' \in Seq(Loops(Alone)) PROVE RepInv'
  BY <1>3, <1>4, <1>5 DEF Repeating
<1>6. ASSUME Crash PROVE RepInv'
  <2>1. todo' \in Seq(Loops(Alone))
    BY <1>6, EmptyIn DEF Crash
  <2>2. QED
    BY <1>5, <2>1
<1>7. ASSUME todo # <<>>, Head(todo).op \in {"move", "add", "update", "release", "launch", "submit"}
      PROVE  RepInv'
  <2>1. ~PerformEach
    BY <1>7 DEF PerformEach, At
  <2>2. QED
    BY <1>6, <1>7, <2>1, WritingMid
<1>8. CASE todo \in Seq(Loops(Alone))
  <2>1. CASE todo # <<>> => Head(todo).op \notin {"iterate", "drive"}
    BY <1>5, <1>8, <2>1, AloneWritten
  <2>2. ASSUME todo # <<>>, Head(todo).op = "drive" PROVE RepInv'
    <3>1. Head(todo) \in Loops(Alone)
      BY <1>8, <2>2
    <3>2. QED
      BY <2>2, <3>1 DEF Loops, Alone
  <2>3. ASSUME todo # <<>>, Head(todo).op = "iterate" PROVE RepInv'
    <3>1. PerformIterate \/ Crash
      BY <2>3, WritingAmid DEF Rescripting, PerformReserveRefused, PerformReserveRefusedRepeat,
         ReserveRefused, PerformEach, PerformDecide, Drives, DriveAccepted, DriveRejected,
         DriveExhausted, DriveRaised, DriveUnfinished, Drive, At
    <3>2. ASSUME NEW t \in Repeats, NEW n \in DOMAIN Node[t].iterations,
                 Ongoing(t, n), todo' \in Seq(Ahead(t, Node[t].iterations[n]))
          PROVE  RepInv'
      <4>1. Driven(t, n)'
        BY <1>2, <3>2 DEF Driven
      <4>2. QED
        BY <1>4, <3>2, <4>1 DEF Repeating, Repeats
    <3>3. QED
      BY <1>5, <1>6, <1>8, <3>1, <3>2, IterateBegins
  <2>4. QED
    BY <2>1, <2>2, <2>3
<1>9. ASSUME todo # <<>>, NEW t \in Repeats, NEW n \in DOMAIN Node[t].iterations, Driven(t, n)
      PROVE  RepInv'
  <2> DEFINE c == Node[t].iterations[n]
  <2>1. /\ t \in Task /\ c \in Task /\ c # t /\ Ongoing(t, n) /\ todo \in Seq(Ahead(t, c))
    BY <1>9, IterationsAre DEF Driven, Repeats
  <2>2. Head(todo) \in Ahead(t, c)
    <3> HIDE DEF c
    <3>1. QED
      BY <1>9, <2>1
  <2>3. CASE Head(todo).op \in {"move", "add", "launch", "submit"}
    BY <1>7, <1>9, <2>3
  <2>4. CASE Head(todo).op = "reserve"
    <3>1. PerformReserveRefused \/ PerformReserveRefusedRepeat \/ Crash
      BY <1>9, <2>4, WritingAmid DEF Rescripting, PerformIterate, PerformEach, PerformDecide,
         Drives, DriveAccepted, DriveRejected, DriveExhausted, DriveRaised, DriveUnfinished,
         Drive, At
    <3>2. CASE PerformReserveRefused
      <4>1. todo' \in Seq(Loops(Alone))
        BY <3>2, EmptyIn DEF PerformReserveRefused
      <4>2. QED
        BY <1>5, <4>1
    <3>3. CASE PerformReserveRefusedRepeat
      <4>1. Head(todo).by = t
        BY <2>2, <2>4 DEF Ahead
      <4>2. todo' = FailSteps(t)
        BY <3>3, <4>1 DEF PerformReserveRefusedRepeat
      <4>3. Move(t, "failed") \in Alone /\ Release(t) \in Alone
        BY <2>1 DEF Move, Release, Alone, AnyStep, CommonSteps, TaskState
      <4>4. FailSteps(t) \in Seq(Loops(Alone))
        BY <4>3, TwoIn, LoopsGrow DEF FailSteps
      <4>5. QED
        BY <1>5, <4>2, <4>4
    <3>4. QED
      BY <1>6, <3>1, <3>2, <3>3
  <2>5. CASE Head(todo).op = "drive"
    <3>1. Drives \/ Crash
      BY <1>9, <2>5, WritingAmid DEF Rescripting, PerformReserveRefused,
         PerformReserveRefusedRepeat, ReserveRefused, PerformEach, PerformDecide,
         PerformIterate, At
    <3>2. ASSUME NEW s \in Seq(Behind(c)), todo' = s \o AcceptComputed(t),
                 Move(c, "accepted") \in StepsOf(s)
          PROVE  RepInv'
      <4>1. Concluded(t, n, s)'
        BY <1>2, <2>1, <3>2 DEF Concluded, Move, StepsOf
      <4>2. s \in Seq(Behind(Node[t].iterations[n])')
        BY <3>2 DEF Behind
      <4>3. QED
        BY <1>4, <4>1, <4>2 DEF Repeating, Repeats
    <3>3. QED
      BY <1>5, <1>6, <1>9, <3>1, <3>2, DriveEnds
  <2>6. QED
    BY <2>2, <2>3, <2>4, <2>5 DEF Ahead
<1>10. ASSUME todo # <<>>, NEW t \in Repeats, todo \in Seq(MapMoves(t)) PROVE RepInv'
  <2>1. Head(todo) \in MapMoves(t)
    BY <1>10
  <2>2. QED
    BY <1>7, <1>10, <2>1 DEF MapMoves, Move
<1>11. ASSUME todo # <<>>, NEW t \in Repeats, NEW n \in DOMAIN Node[t].iterations,
              NEW s \in Seq(Behind(Node[t].iterations[n])), Concluded(t, n, s)
       PROVE  RepInv'
  <2> DEFINE S == Behind(Node[t].iterations[n])
  <2>1. CASE s = <<>>
    BY <1>10, <1>11, <2>1, AllConcluded
  <2>2. CASE s # <<>>
    <3>1. s \in Seq(S) /\ todo = s \o AcceptComputed(t) /\ t \in Task
      BY <1>11 DEF Concluded, Repeats
    <3> HIDE DEF S
    <3>2. Head(todo) \in S
      BY <2>2, <3>1, AcceptFront
    <3>3. QED
      BY <1>7, <1>11, <3>2 DEF S, Behind
  <2>3. QED
    BY <2>1, <2>2
<1>12. CASE todo = <<>>
  <2>1. todo \in Seq(Loops(Alone))
    BY <1>12, EmptyIn
  <2>2. QED
    BY <1>8, <2>1
<1>13. ASSUME todo # <<>>, NEW t \in Repeats, NEW n \in DOMAIN Node[t].iterations,
              \E s \in Seq(Behind(Node[t].iterations[n])) : Concluded(t, n, s)
       PROVE  RepInv'
  BY <1>11, <1>13
<1>14. QED
  BY <1>8, <1>9, <1>10, <1>12, <1>13 DEF RepInv, Repeating

LEMMA RepKept == RuntimeInv /\ LedgerInv /\ KindInv /\ RepInv /\ [Next]_vars => RepInv'
<1> SUFFICES ASSUME RuntimeInv, LedgerInv, KindInv, RepInv, [Next]_vars PROVE RepInv'
  OBVIOUS
<1>1. TypeOK /\ TodoInv /\ LoopInv /\ TaskFacts /\ Iterates
  BY DEF RuntimeInv, WorkerInv, LedgerInv
<1>2. CASE Writing
  BY <1>1, <1>2, RepWritten
<1>3. CASE StepDone(Head(todo))
  BY <1>1, <1>3, RepPopped
<1>4. CASE Beside
  <2>1. todo' = todo /\ state' = state
    BY <1>4 DEF Beside
  <2>2. /\ \A t, n : /\ Driven(t, n)' = Driven(t, n)
                     /\ \A s : Concluded(t, n, s)' = Concluded(t, n, s)
                     /\ Behind(Node[t].iterations[n])' = Behind(Node[t].iterations[n])
        /\ \A t : /\ Finished(t)' = Finished(t) /\ MapMoves(t)' = MapMoves(t) /\ Row(t)' = Row(t)
        /\ Repeats' = Repeats
    BY <2>1 DEF Driven, Concluded, Behind, Finished, Row, Ongoing, Earlier, Later, Ahead,
       MapMoves, Move, AcceptComputed, StepsOf, Repeats
  <2>3. Loops(Alone)' = Loops(Alone)
    BY <2>1 DEF Loops, Alone, AnyStep, CommonSteps, IterSteps, Repeats, Iteration
  <2>4. QED
    BY <2>1, <2>2, <2>3 DEF RepInv, Repeating
<1>5. QED
  BY <1>2, <1>3, <1>4, NextShape

(* A repeat node ends on one result (_run_repeat): once it is accepted, its   *)
(* iterations up to the one whose result it took are all accepted and no later *)
(* one was ever added, whatever crashes, requests and outcomes.               *)
THEOREM RepeatsEndOnTheirResult == Spec => []RepeatEndsOnItsResult
<1>1. Init => RepInv
  <2> SUFFICES ASSUME Init PROVE RepInv
    OBVIOUS
  <2>1. todo \in Seq(Loops(Alone))
    BY EmptyIn DEF Init
  <2>2. \A t \in Task : state[t] # "accepted"
    BY DEF Init, StoreInit
  <2>3. ASSUME NEW t \in Repeats, NEW n \in DOMAIN Node[t].iterations
        PROVE  state[Node[t].iterations[n]] = "absent"
    <3>1. t \in Task
      BY DEF Repeats
    <3>2. Node[t].iterations[n] \in Task \ Static
      BY <3>1, IterationsAre, GraphAssumption
    <3>3. QED
      BY <3>2 DEF Init, StoreInit
  <2>4. QED
    BY <2>1, <2>2, <2>3 DEF RepInv, Repeating, Row, Repeats
<1>2. RuntimeInv /\ LedgerInv /\ KindInv /\ RepInv /\ [Next]_vars => RepInv'
  BY RepKept
<1>3. RepInv => RepeatEndsOnItsResult
  <2> SUFFICES ASSUME RepInv, NEW t \in Task, Node[t].kind = "repeat_until",
                      state[t] = "accepted"
               PROVE  \E n \in DOMAIN Node[t].iterations : \A i \in DOMAIN Node[t].iterations :
                         state[Node[t].iterations[i]] = IF i <= n THEN "accepted" ELSE "absent"
    BY DEF RepeatEndsOnItsResult
  <2>1. Finished(t)
    BY DEF RepInv, Repeats
  <2>2. PICK n \in DOMAIN Node[t].iterations :
           Earlier(t, n) /\ Later(t, n) /\ state[Node[t].iterations[n]] = "accepted"
    BY <2>1 DEF Finished
  <2>3. ASSUME NEW i \in DOMAIN Node[t].iterations
        PROVE  state[Node[t].iterations[i]] = IF i <= n THEN "accepted" ELSE "absent"
    <3>1. i \in Nat /\ n \in Nat /\ (i < n \/ i = n \/ i > n)
      BY IterationsAre
    <3>2. QED
      BY <2>2, <3>1 DEF Earlier, Later
  <2>4. QED
    BY <2>3
<1>4. QED
  BY <1>1, <1>2, <1>3, RuntimeInvAlways, LedgerAlways, KindAlways, PTL DEF Spec

=============================================================================
