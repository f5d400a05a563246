---------------------------- MODULE RuntimeProofs ----------------------------
(***************************************************************************)
(* Proofs about the main loop and its workers (module Runtime), for every  *)
(* workflow, every set of requests and any number of crashes.              *)
(*                                                                         *)
(* What a handler still has to do is the sequence todo.  TodoInv says what *)
(* it may hold: a front of steps that each concern a task no worker runs,  *)
(* or none at all, and at most one step at its end that hands a task to a  *)
(* worker or waits for one.                                                *)
(***************************************************************************)
EXTENDS RuntimeProps, SequenceTheorems, TLAPS

-----------------------------------------------------------------------------
(* Sequences of steps. *)

LEMMA EmptyIn == ASSUME NEW S PROVE <<>> \in Seq(S)
OBVIOUS

LEMMA OneIn == ASSUME NEW S, NEW x \in S PROVE <<x>> \in Seq(S)
OBVIOUS

LEMMA TwoIn == ASSUME NEW S, NEW x \in S, NEW y \in S PROVE <<x, y>> \in Seq(S)
OBVIOUS

LEMMA ThreeIn == ASSUME NEW S, NEW x \in S, NEW y \in S, NEW z \in S PROVE <<x, y, z>> \in Seq(S)
OBVIOUS

LEMMA ConcatIn ==
    ASSUME NEW S, NEW s \in Seq(S), NEW t \in Seq(S)
    PROVE  s \o t \in Seq(S)
OBVIOUS

LEMMA SeqGrows ==
    ASSUME NEW S, NEW T, S \subseteq T
    PROVE  Seq(S) \subseteq Seq(T)
OBVIOUS

LEMMA ConcatAssoc ==
    ASSUME NEW S, NEW s \in Seq(S), NEW t \in Seq(S), NEW u \in Seq(S)
    PROVE  (s \o t) \o u = s \o (t \o u)
OBVIOUS

LEMMA EmptyFront ==
    ASSUME NEW S, NEW s \in Seq(S)
    PROVE  /\ s \o <<>> = s
           /\ <<>> \o s = s
OBVIOUS

(* The head of a sequence with a front is that of the front. *)
LEMMA FrontFirst ==
    ASSUME NEW S, NEW T, NEW s \in Seq(S), NEW t \in Seq(T), s # <<>>
    PROVE  /\ s \o t # <<>>
           /\ Head(s \o t) = Head(s)
           /\ Head(s) \in S
           /\ Tail(s) \in Seq(S)
           /\ Tail(s \o t) = Tail(s) \o t
<1>1. s \in Seq(S \cup T) /\ t \in Seq(S \cup T)
  BY SeqGrows
<1>2. QED
  BY <1>1

LEMMA OneFirst ==
    ASSUME NEW S, NEW x \in S, NEW s \in Seq(S)
    PROVE  /\ Head(<<x>> \o s) = x /\ Tail(<<x>> \o s) = s
           /\ <<x>> \o s # <<>> /\ <<x>> \o s \in Seq(S)
OBVIOUS

LEMMA Pair ==
    ASSUME NEW S, NEW x \in S, NEW y \in S
    PROVE  <<x, y>> = <<x>> \o <<y>>
<1>1. <<x>> \o <<y>> \in Seq(S) /\ <<x, y>> \in Seq(S)
  OBVIOUS
<1>2. Len(<<x>> \o <<y>>) = 2 /\ Len(<<x, y>>) = 2
  OBVIOUS
<1>3. \A i \in 1..2 : (<<x>> \o <<y>>)[i] = <<x, y>>[i]
  OBVIOUS
<1>4. QED
  BY <1>1, <1>2, <1>3, SeqEqual

-----------------------------------------------------------------------------
(* What todo may hold.  C stands for the tasks no worker runs and that have  *)
(* no live process, and F for those no longer in the list of ready tasks.    *)

MoveSteps(C, F) ==
    [op : {"move"}, task : C, to : TaskState]
        \cup [op : {"move"}, task : F, to : {"cancelled"}]
        \cup [op : {"fail"}, task : C, to : TaskState, fp : Fingerprint]
        \cup [op : {"update"}, task : C, fp : Fingerprint \cup {NoFingerprint}]

PlainSteps ==
    [op : {"release", "block", "escalate", "worktree", "kill"}, task : Task]
        \cup [op : {"add", "depend"}, task : Task, on : SUBSET Task]
        \cup [op : {"processed", "archive"}, request : Request]

ApprovalSteps(C, F) ==
    [op : {"start"}, task : {t \in C : Node[t].kind = "approval"}]
        \cup [op : {"decide"}, request :
                {r \in Request : r.task \in F /\ Node[r.task].kind = "approval"}]

Flat(C, F) == MoveSteps(C, F) \cup PlainSteps \cup ApprovalSteps(C, F)
Quiet(C, F) == Flat(C, F) \cup [op : {"each"}, items : SUBSET Seq(Flat(C, F))]

(* only while no ready task is left to launch *)
WorkflowSteps(F) == [op : {"workflow"}, to : {w \in WorkflowState : F = Task}]

StartingSteps(C) ==
    [op : {"reserve"}, task : C, by : C] \cup [op : {"start", "launch"}, task : C]

Launching(t) == [op |-> "launch", task |-> t]
Preparing(t) == [op |-> "worktree", task |-> t]
Submitting(t) == [op |-> "submit", task |-> t]
Iterating(t, n) == [op |-> "iterate", root |-> t, n |-> n]
Driving(t, n) == [op |-> "drive", root |-> t, n |-> n]

IsIteration(t, n) == n \in 1..Len(Node[t].iterations)

(* what follows the launch of a task: its worktree, its worker, and the wait  *)
(* of a repeat node for it                                                   *)
Waits(c, s, C) ==
    s = <<>> \/ \E t \in C \ {c} : \E n \in Nat \ {0} : IsIteration(t, n) /\ s = <<Driving(t, n)>>
Submits(c, s, C) == \E w : Waits(c, w, C) /\ s = <<Submitting(c)>> \o w
Hands(c, s, C) ==
    \/ Submits(c, s, C)
    \/ \E u : Submits(c, u, C) /\ s = <<Preparing(c)>> \o u

(* how a script that starts an attempt may end *)
Ending(s, C) ==
    \/ s = <<>>
    \/ \E c \in C : \E h : Hands(c, h, C) /\ s = <<Launching(c)>> \o h
    \/ \E t \in C : \E n \in Nat \ {0} :
          \/ s = <<Iterating(t, n)>>
          \/ IsIteration(t, n) /\ s = <<Driving(t, n)>>

(* a script that only records, and one that starts an attempt *)
Records(s, C, F) == s \in Seq(Quiet(C, F) \cup WorkflowSteps(F))
Starts(s, C, F) ==
    \E front \in Seq(Quiet(C, F) \cup StartingSteps(C)) :
        \E ending : Ending(ending, C) /\ s = front \o ending

Calm == {t \in Task : future[t] = "none" /\ ~Alive(t) /\ t \notin ready}

(* the task launched last is about to be handed to its worker *)
Handing(s) == \E c \in Calm : state[c] = "running" /\ Hands(c, s, Calm)

TodoInv ==
    \/ Records(todo, Calm, Task \ ready)
    \/ wf = "running" /\ Starts(todo, Calm, Task \ ready)
    \/ wf = "running" /\ Handing(todo)

(* More calm tasks, and fewer in the list, allow what was allowed before. *)
LEMMA FlatGrows ==
    ASSUME NEW C, NEW F, NEW C2, NEW F2, C \subseteq C2, F \subseteq F2
    PROVE  Flat(C, F) \subseteq Flat(C2, F2)
<1>1. MoveSteps(C, F) \subseteq MoveSteps(C2, F2)
  BY DEF MoveSteps
<1>2. ApprovalSteps(C, F) \subseteq ApprovalSteps(C2, F2)
  BY DEF ApprovalSteps
<1>3. QED
  BY <1>1, <1>2 DEF Flat

LEMMA QuietGrows ==
    ASSUME NEW C, NEW F, NEW C2, NEW F2, C \subseteq C2, F \subseteq F2
    PROVE  Quiet(C, F) \subseteq Quiet(C2, F2)
<1>1. Flat(C, F) \subseteq Flat(C2, F2)
  BY FlatGrows
<1>2. SUBSET Seq(Flat(C, F)) \subseteq SUBSET Seq(Flat(C2, F2))
  BY <1>1, SeqGrows
<1>3. QED
  BY <1>1, <1>2 DEF Quiet

LEMMA RecordsGrows ==
    ASSUME NEW C, NEW F, NEW C2, NEW F2, C \subseteq C2, F \subseteq F2, F2 \subseteq Task,
           NEW s, Records(s, C, F)
    PROVE  Records(s, C2, F2)
<1>1. WorkflowSteps(F) \subseteq WorkflowSteps(F2)
  BY DEF WorkflowSteps
<1>2. Quiet(C, F) \cup WorkflowSteps(F) \subseteq Quiet(C2, F2) \cup WorkflowSteps(F2)
  BY <1>1, QuietGrows
<1>3. QED
  BY <1>2, SeqGrows DEF Records

LEMMA HandsGrows ==
    ASSUME NEW C, NEW C2, C \subseteq C2, NEW c, NEW s, Hands(c, s, C)
    PROVE  Hands(c, s, C2)
BY DEF Hands, Submits, Waits

LEMMA StartsGrows ==
    ASSUME NEW C, NEW F, NEW C2, NEW F2, C \subseteq C2, F \subseteq F2,
           NEW s, Starts(s, C, F)
    PROVE  Starts(s, C2, F2)
<1>1. PICK front \in Seq(Quiet(C, F) \cup StartingSteps(C)) :
         \E ending : Ending(ending, C) /\ s = front \o ending
  BY DEF Starts
<1>2. PICK ending : Ending(ending, C) /\ s = front \o ending
  BY <1>1
<1>3. StartingSteps(C) \subseteq StartingSteps(C2)
  BY DEF StartingSteps
<1>4. Quiet(C, F) \cup StartingSteps(C) \subseteq Quiet(C2, F2) \cup StartingSteps(C2)
  BY <1>3, QuietGrows
<1>5. front \in Seq(Quiet(C2, F2) \cup StartingSteps(C2))
  BY <1>4, SeqGrows
<1>6. Ending(ending, C2)
  BY <1>2, HandsGrows DEF Ending
<1>7. QED
  BY <1>2, <1>5, <1>6 DEF Starts

(* What is left of a script when its first step is taken. *)
LEMMA RecordsPopped ==
    ASSUME NEW C, NEW F, NEW s, Records(s, C, F), s # <<>>
    PROVE  /\ Head(s) \in Quiet(C, F) \cup WorkflowSteps(F)
           /\ Records(Tail(s), C, F)
BY FrontFirst, EmptyIn DEF Records

LEMMA WaitsSeq ==
    ASSUME NEW C, NEW c, NEW s, Waits(c, s, C)
    PROVE  \E S : Submitting(c) \in S /\ Preparing(c) \in S /\ Launching(c) \in S /\ s \in Seq(S)
<1>1. ASSUME NEW x, s = <<x>>
      PROVE  s \in Seq({x, Submitting(c), Preparing(c), Launching(c)})
  BY <1>1
<1>2. s = <<>> => s \in Seq({Submitting(c), Preparing(c), Launching(c)})
  OBVIOUS
<1>3. QED
  BY <1>1, <1>2 DEF Waits

(* What is left when its first step is taken. *)
LEMMA HandsShape ==
    ASSUME NEW C, NEW c, NEW s, Hands(c, s, C)
    PROVE  /\ s # <<>> /\ \E S : s \in Seq(S) /\ Launching(c) \in S
           /\ \/ Head(s) = Submitting(c) /\ Waits(c, Tail(s), C)
              \/ Head(s) = Preparing(c) /\ Hands(c, Tail(s), C)
<1>1. PICK u, w : /\ Waits(c, w, C) /\ u = <<Submitting(c)>> \o w
                  /\ s = u \/ s = <<Preparing(c)>> \o u
  BY DEF Hands, Submits
<1>2. PICK S : /\ Submitting(c) \in S /\ Preparing(c) \in S /\ Launching(c) \in S
               /\ w \in Seq(S)
  BY <1>1, WaitsSeq
<1>3. Head(u) = Submitting(c) /\ Tail(u) = w /\ u # <<>> /\ u \in Seq(S)
  BY <1>1, <1>2, OneFirst
<1>4. CASE s = u
  BY <1>1, <1>2, <1>3, <1>4
<1>5. CASE s = <<Preparing(c)>> \o u
  <2>1. Head(s) = Preparing(c) /\ Tail(s) = u /\ s # <<>> /\ s \in Seq(S)
    BY <1>2, <1>3, <1>5, OneFirst
  <2>2. Hands(c, u, C)
    BY <1>1 DEF Hands, Submits
  <2>3. QED
    BY <1>2, <2>1, <2>2
<1>6. QED
  BY <1>1, <1>4, <1>5

LEMMA EndingShape ==
    ASSUME NEW C, NEW s, Ending(s, C), s # <<>>
    PROVE  /\ \E E : s \in Seq(E)
           /\ \/ \E c \in C : Head(s) = Launching(c) /\ Hands(c, Tail(s), C)
              \/ \E t \in C : \E n \in Nat \ {0} :
                    \/ s = <<Iterating(t, n)>>
                    \/ IsIteration(t, n) /\ s = <<Driving(t, n)>>
<1>1. ASSUME NEW c \in C, NEW h, Hands(c, h, C), s = <<Launching(c)>> \o h
      PROVE  /\ \E E : s \in Seq(E)
             /\ Head(s) = Launching(c) /\ Hands(c, Tail(s), C)
  <2>1. PICK S : h \in Seq(S) /\ Launching(c) \in S
    BY <1>1, HandsShape
  <2>2. Head(s) = Launching(c) /\ Tail(s) = h /\ s \in Seq(S)
    BY <1>1, <2>1, OneFirst
  <2>3. QED
    BY <1>1, <2>2
<1>2. ASSUME NEW x, s = <<x>> PROVE s \in Seq({x})
  BY <1>2
<1>3. QED
  BY <1>1, <1>2 DEF Ending

LEMMA EndingIsSeq ==
    ASSUME NEW C, NEW s, Ending(s, C)
    PROVE  \E E : s \in Seq(E)
<1>1. s = <<>> => s \in Seq({})
  OBVIOUS
<1>2. QED
  BY <1>1, EndingShape

LEMMA StartsPopped ==
    ASSUME NEW C, NEW F, NEW s, Starts(s, C, F), s # <<>>
    PROVE  \/ /\ Head(s) \in Quiet(C, F) \cup StartingSteps(C)
              /\ Starts(Tail(s), C, F)
           \/ Ending(s, C)
<1>1. PICK front \in Seq(Quiet(C, F) \cup StartingSteps(C)) :
         \E ending : Ending(ending, C) /\ s = front \o ending
  BY DEF Starts
<1>2. PICK ending : Ending(ending, C) /\ s = front \o ending
  BY <1>1
<1>3. PICK E : ending \in Seq(E)
  BY <1>2, EndingIsSeq
<1>4. CASE front = <<>>
  BY <1>2, <1>3, <1>4, EmptyFront
<1>5. CASE front # <<>>
  <2>1. /\ Head(s) = Head(front) /\ Head(front) \in Quiet(C, F) \cup StartingSteps(C)
        /\ Tail(s) = Tail(front) \o ending
        /\ Tail(front) \in Seq(Quiet(C, F) \cup StartingSteps(C))
    BY <1>2, <1>3, <1>5, FrontFirst
  <2>2. QED
    BY <1>2, <2>1 DEF Starts
<1>6. QED
  BY <1>4, <1>5

-----------------------------------------------------------------------------
(* The workers.  A task with a worker, or with a recorded process that lives, *)
(* is running or was cancelled; the process of a worker that is done is gone. *)
WorkerOf(t) ==
    /\ future[t] # "none" => state[t] \in {"running", "cancelled"}
    /\ Alive(t) => state[t] \in {"running", "cancelled"}
    /\ future[t] = "live" => pid[t] = attempt[t]
    /\ Ended(t) \/ future[t] = "queued" => ~Alive(t)
    /\ t \in ready => state[t] \in {"ready", "blocked"}

LoopInv ==
    /\ ready # {} => pc = "launch" /\ wf = "running"
    /\ pc = "off" => todo = <<>> /\ Running = {}
    /\ crashes \in 0..MaxCrashes

WorkerInv == LoopInv /\ \A t \in Task : WorkerOf(t)

(* before the first crash every process has its worker thread *)
Watched ==
    crashes = 0 => \A p \in procs : /\ future[p[1]] \in {"spawned", "registered", "live"}
                                   /\ p[2] = attempt[p[1]]

RuntimeInv == TypeOK /\ TodoInv /\ WorkerInv /\ Watched

-----------------------------------------------------------------------------
(* Steps of the main thread that only read the tasks and write a script.     *)

Places == {"recovered", "resume", "top", "inbox", "handle", "refresh",
           "list", "launch", "settle", "wait", "closing"}
Errors == {"none", "live_workers", "budget", "stalled", "state"}

Scripting ==
    \/ Boot \/ Recovered \/ Resume
    \/ RefreshBefore \/ TakeInbox \/ HandleRequest \/ InboxDone \/ RefreshAfter
    \/ ListReady \/ LaunchTask \/ EndLaunch \/ SettleIteration \/ WaitTimeout

(* the list of ready tasks is made when the workflow runs, and shrinks *)
ReadyStep ==
    \/ ready' \subseteq ready /\ (ready' # {} => pc' = pc)
    \/ /\ ready' = {t \in Task : state[t] = "ready"}
       /\ wf = "running" /\ pc' = "launch" /\ todo' = <<>>

LEMMA ScriptingShape ==
    ASSUME TypeOK, LoopInv, Scripting
    PROVE  /\ UNCHANGED <<storeVars, fieldVars, controlVars, workerVars, envVars>>
           /\ pc' \in Places /\ error' \in Errors
           /\ batch' \subseteq Request /\ progress' \in BOOLEAN
           /\ ReadyStep
<1> USE DEF unchangedByMain, Idle, Places, Errors, TypeOK, ReadyStep
<1>1. CASE Boot
  BY <1>1 DEF Boot, Reconcile, LoopInv
<1>2. CASE Recovered \/ Resume
  BY <1>2 DEF Recovered, Resume, LoopInv
<1>3. CASE RefreshBefore \/ RefreshAfter
  BY <1>3 DEF RefreshBefore, RefreshAfter, Refresh, LoopInv
<1>4. CASE TakeInbox \/ InboxDone
  BY <1>4 DEF TakeInbox, InboxDone, LoopInv
<1>5. CASE HandleRequest
  BY <1>5 DEF HandleRequest, HandlePause, HandleResume, HandleCancel, HandleRetry,
              HandleDecision, Handle, LoopInv
<1>6. CASE ListReady
  BY <1>6 DEF ListReady
<1>7. CASE LaunchTask
  <2>1. PICK t \in ready : \E computed \in BOOLEAN : \E steps : Launch(t, computed, steps)
    BY <1>7 DEF LaunchTask, LaunchDenied, LaunchCondition, LaunchCheck,
         LaunchUnusable, LaunchMap, LaunchReduce, LaunchRepeat, LaunchApproval,
         LaunchNoSlot, LaunchCached, LaunchAgent, LaunchUnprepared
  <2>2. QED
    BY <2>1 DEF Launch
<1>8. CASE EndLaunch \/ WaitTimeout
  BY <1>8 DEF EndLaunch, WaitTimeout, LoopInv
<1>9. CASE SettleIteration
  BY <1>9 DEF SettleIteration, SettleWait, SettleAgain, SettleCancelled, SettleSucceeded,
       SettleExhausted, SettleFailed, SettleStalled, SettleRefused, Conclude, Settle, LoopInv
<1>10. QED
  BY <1>1, <1>2, <1>3, <1>4, <1>5, <1>6, <1>7, <1>8, <1>9 DEF Scripting

-----------------------------------------------------------------------------
(* What the first step of todo may be. *)

LEMMA CalmIsTask == Calm \subseteq Task /\ Calm \subseteq Task \ ready
BY DEF Calm

QuietStep(s, C, F) ==
    /\ s.op \in {"move", "fail", "update", "release", "block", "escalate", "worktree",
                 "kill", "add", "depend", "processed", "archive", "start", "decide",
                 "each"}
    /\ s.op = "move" => /\ s.task \in F /\ s.to \in TaskState
                        /\ s.task \in C \/ s.to = "cancelled"
    /\ s.op = "fail" => s.task \in C /\ s.to \in TaskState /\ s.fp \in Fingerprint
    /\ s.op = "update" => s.task \in C /\ s.fp \in Fingerprint \cup {NoFingerprint}
    /\ s.op \in {"release", "block", "escalate", "worktree", "kill"} => s.task \in Task
    /\ s.op \in {"add", "depend"} => s.task \in Task /\ s.on \subseteq Task
    /\ s.op \in {"processed", "archive"} => s.request \in Request
    /\ s.op = "start" => s.task \in C /\ Node[s.task].kind = "approval"
    /\ s.op = "decide" => /\ s.request \in Request /\ s.request.task \in F
                          /\ Node[s.request.task].kind = "approval"
    /\ s.op = "each" => s.items \subseteq Seq(Flat(C, F))

LEMMA QuietHead ==
    ASSUME NEW C \in SUBSET Task, NEW F \in SUBSET Task, C \subseteq F, NEW s \in Quiet(C, F)
    PROVE  QuietStep(s, C, F)
<1> USE DEF QuietStep
<1>1. CASE s \in MoveSteps(C, F)
  BY <1>1 DEF MoveSteps, TaskState
<1>2. CASE s \in PlainSteps
  BY <1>2 DEF PlainSteps
<1>3. CASE s \in ApprovalSteps(C, F)
  BY <1>3 DEF ApprovalSteps
<1>4. CASE s \in [op : {"each"}, items : SUBSET Seq(Flat(C, F))]
  BY <1>4
<1>5. QED
  BY <1>1, <1>2, <1>3, <1>4 DEF Quiet, Flat

(* a step that hands nothing over leaves a script that may be *)
LEMMA TailAllowed ==
    ASSUME TodoInv, todo # <<>>, Head(todo).op \notin {"submit", "iterate", "drive"}
    PROVE  \/ Records(Tail(todo), Calm, Task \ ready)
           \/ /\ wf = "running" /\ Head(todo).op # "workflow"
              /\ Starts(Tail(todo), Calm, Task \ ready)
           \/ /\ wf = "running" /\ Head(todo).op = "launch"
              /\ Head(todo).task \in Calm /\ Hands(Head(todo).task, Tail(todo), Calm)
           \/ wf = "running" /\ Head(todo).op = "worktree" /\ Handing(Tail(todo))
<1>1. CASE Records(todo, Calm, Task \ ready)
  BY <1>1, RecordsPopped
<1>2. CASE wf = "running" /\ Starts(todo, Calm, Task \ ready) /\ ~Ending(todo, Calm)
  <2>1. /\ Head(todo) \in Quiet(Calm, Task \ ready) \cup StartingSteps(Calm)
        /\ Starts(Tail(todo), Calm, Task \ ready)
    BY <1>2, StartsPopped
  <2>2. Head(todo).op # "workflow"
    BY ZenonT(60), <2>1, QuietHead, CalmIsTask DEF QuietStep, StartingSteps
  <2>3. QED
    BY <1>2, <2>1, <2>2
<1>3. CASE wf = "running" /\ Ending(todo, Calm)
  <2>1. PICK c \in Calm : Head(todo) = Launching(c) /\ Hands(c, Tail(todo), Calm)
    BY <1>3, EndingShape DEF Iterating, Driving
  <2>2. QED
    BY <1>3, <2>1 DEF Launching
<1>4. CASE wf = "running" /\ Handing(todo)
  <2>1. PICK c \in Calm : state[c] = "running" /\ Hands(c, todo, Calm)
    BY <1>4 DEF Handing
  <2>2. Head(todo) = Preparing(c) /\ Hands(c, Tail(todo), Calm)
    BY <2>1, HandsShape DEF Submitting
  <2>3. QED
    BY <1>4, <2>1, <2>2 DEF Preparing, Handing
<1>5. QED
  BY <1>1, <1>2, <1>3, <1>4 DEF TodoInv

LEMMA PopKeeps ==
    ASSUME TodoInv, todo # <<>>, todo' = Tail(todo),
           Head(todo).op \notin {"submit", "iterate", "drive"},
           Calm \subseteq Calm', ready' = ready,
           Head(todo).op = "workflow" \/ wf' = wf,
           Head(todo).op = "launch" => state'[Head(todo).task] = "running",
           Head(todo).op = "worktree" => state' = state
    PROVE  TodoInv'
<1>1. Records(Tail(todo), Calm, Task \ ready) => Records(todo', Calm', Task \ ready')
  BY RecordsGrows
<1>2. Starts(Tail(todo), Calm, Task \ ready) => Starts(todo', Calm', Task \ ready')
  BY StartsGrows
<1>3. \A c \in Calm : Hands(c, Tail(todo), Calm) => c \in Calm' /\ Hands(c, todo', Calm')
  BY HandsGrows
<1>4. QED
  BY <1>1, <1>2, <1>3, TailAllowed DEF TodoInv, Handing

LEMMA TodoStays ==
    ASSUME TodoInv, todo' = todo, Calm \subseteq Calm', ready' = ready, wf' = wf, state' = state
    PROVE  TodoInv'
<1>1. CASE Records(todo, Calm, Task \ ready)
  <2>1. Records(todo', Calm', Task \ ready')
    BY <1>1, RecordsGrows
  <2>2. QED
    BY <2>1 DEF TodoInv
<1>2. CASE wf = "running" /\ Starts(todo, Calm, Task \ ready)
  <2>1. Starts(todo', Calm', Task \ ready')
    BY <1>2, StartsGrows
  <2>2. QED
    BY <1>2, <2>1 DEF TodoInv
<1>3. CASE wf = "running" /\ Handing(todo)
  <2>1. PICK c \in Calm : state[c] = "running" /\ Hands(c, todo, Calm)
    BY <1>3 DEF Handing
  <2>2. c \in Calm' /\ state'[c] = "running" /\ Hands(c, todo', Calm')
    BY <2>1, HandsGrows
  <2>3. QED
    BY <1>3, <2>2 DEF TodoInv, Handing
<1>4. QED
  BY <1>1, <1>2, <1>3 DEF TodoInv

(* The steps that start an attempt, hand it over or wait for it come while   *)
(* the workflow runs, and on calm tasks.                                     *)
LEMMA TodoHead ==
    ASSUME TodoInv, todo # <<>>
    PROVE  \/ Head(todo) \in Quiet(Calm, Task \ ready)
           \/ Head(todo) \in WorkflowSteps(Task \ ready)
           \/ wf = "running" /\ Head(todo) \in StartingSteps(Calm)
           \/ /\ wf = "running" /\ Ending(todo, Calm)
              /\ Head(todo).op \in {"iterate", "drive"}
           \/ wf = "running" /\ Handing(todo) /\ Head(todo).op = "submit"
<1>1. CASE Ending(todo, Calm)
  <2>1. \/ \E c \in Calm : Head(todo) = Launching(c)
        \/ Head(todo).op \in {"iterate", "drive"}
    BY <1>1, EndingShape DEF Iterating, Driving
  <2>2. \A c \in Calm : Launching(c) \in StartingSteps(Calm)
    BY DEF Launching, StartingSteps
  <2>3. wf = "running" \/ Records(todo, Calm, Task \ ready)
    BY DEF TodoInv
  <2>4. QED
    BY <1>1, <2>1, <2>2, <2>3, RecordsPopped
<1>2. CASE wf = "running" /\ Handing(todo)
  <2>1. PICK c \in Calm : Head(todo) \in {Submitting(c), Preparing(c)}
    BY <1>2, HandsShape DEF Handing
  <2>2. Preparing(c) \in Quiet(Calm, Task \ ready)
    BY CalmIsTask DEF Preparing, Quiet, Flat, PlainSteps
  <2>3. QED
    BY <1>2, <2>1, <2>2 DEF Submitting
<1>3. QED
  BY <1>1, <1>2, RecordsPopped, StartsPopped DEF TodoInv

HeadFact(s) ==
    /\ s.op = "move" => /\ s.task \in Task \ ready /\ s.to \in TaskState
                        /\ s.task \in Calm \/ s.to = "cancelled"
    /\ s.op = "fail" => s.task \in Calm /\ s.to \in TaskState /\ s.fp \in Fingerprint
    /\ s.op = "update" => s.task \in Calm /\ s.fp \in Fingerprint \cup {NoFingerprint}
    /\ s.op \in {"release", "block", "escalate", "worktree", "kill"} => s.task \in Task
    /\ s.op \in {"add", "depend"} => s.task \in Task /\ s.on \subseteq Task
    /\ s.op \in {"processed", "archive"} => s.request \in Request
    /\ s.op = "start" => /\ s.task \in Calm
                         /\ wf = "running" \/ Node[s.task].kind = "approval"
    /\ s.op = "launch" => s.task \in Calm /\ wf = "running"
    /\ s.op = "reserve" => s.task \in Calm /\ s.by \in Calm /\ wf = "running"
    /\ s.op = "decide" => /\ s.request \in Request /\ s.request.task \in Task \ ready
                          /\ Node[s.request.task].kind = "approval"
    /\ s.op = "each" => s.items \subseteq Seq(Flat(Calm, Task \ ready))
    /\ s.op = "workflow" => s.to \in WorkflowState /\ ready = {}
    /\ s.op \in {"iterate", "drive"} => wf = "running" /\ Ending(todo, Calm)
    /\ s.op = "submit" => wf = "running" /\ Handing(todo)

LEMMA HeadFacts ==
    ASSUME ready \subseteq Task, TodoInv, todo # <<>>, NEW s, s = Head(todo)
    PROVE  HeadFact(s)
<1> USE DEF HeadFact
<1>1. CASE s \in Quiet(Calm, Task \ ready)
  <2>1. /\ Calm \in SUBSET Task /\ Task \ ready \in SUBSET Task
        /\ Calm \subseteq Task \ ready
    BY CalmIsTask
  <2>2. QuietStep(s, Calm, Task \ ready)
    BY <1>1, <2>1, QuietHead
  <2> QED
    BY <2>2, CalmIsTask DEF QuietStep
<1>2. CASE s \in WorkflowSteps(Task \ ready)
  BY <1>2 DEF WorkflowSteps
<1>3. CASE wf = "running" /\ s \in StartingSteps(Calm)
  BY <1>3 DEF StartingSteps
<1>4. QED
  BY <1>1, <1>2, <1>3, TodoHead

-----------------------------------------------------------------------------
(* What a step of the main thread may do to the tasks and their workers,     *)
(* other than handing a task to a worker or collecting one.                  *)
Moved(t, to) == state' = [state EXCEPT ![t] = to]

Effect ==
    /\ UNCHANGED <<ready, pc, crashes>>
    /\ pc # "off"
    /\ wf' = wf \/ ready = {}
    /\ \/ UNCHANGED <<state, attempt, pid, procs, future>>
       \/ /\ \E t \in Task \ ready, to \in TaskState :
                /\ t \in Calm \/ to = "cancelled"
                /\ CanTransitionTask(state[t], to) /\ Moved(t, to)
          /\ UNCHANGED <<attempt, pid, procs, future>>
       \/ /\ \E t \in Calm : /\ state[t] = "ready" /\ Moved(t, "running")
                             /\ wf = "running" \/ Node[t].kind = "approval"
                             /\ attempt' = [attempt EXCEPT ![t] = @ + 1]
          /\ UNCHANGED <<pid, procs, future>>
       \/ /\ \E t \in Task : \/ state[t] \in {"pending", "ready"} /\ Moved(t, "blocked")
                             \/ state[t] = "absent" /\ Moved(t, "pending")
          /\ UNCHANGED <<attempt, pid, procs, future>>
       \/ /\ \E t \in Calm : pid' = [pid EXCEPT ![t] = 0]
          /\ UNCHANGED <<state, attempt, procs, future>>
       \/ /\ procs' \subseteq procs
          /\ UNCHANGED <<state, attempt, pid, future>>

LEMMA EffectKeeps ==
    ASSUME TypeOK, TypeOK', WorkerInv, Watched, Effect
    PROVE  WorkerInv' /\ Watched' /\ Calm \subseteq Calm'
<1> USE DEF TypeOK, StoreTypeOK, Moved
<1>1. LoopInv'
  BY DEF Effect, WorkerInv, LoopInv
<1>2. CASE UNCHANGED <<state, attempt, pid, procs, future>>
  BY <1>1, <1>2 DEF Effect, WorkerInv, WorkerOf, Watched, Alive, Ended, Calm
<1>3. CASE /\ \E t \in Task \ ready, to \in TaskState :
                /\ t \in Calm \/ to = "cancelled"
                /\ CanTransitionTask(state[t], to) /\ Moved(t, to)
           /\ UNCHANGED <<attempt, pid, procs, future>>
  <2>1. PICK t \in Task \ ready, to \in TaskState :
                /\ t \in Calm \/ to = "cancelled"
                /\ CanTransitionTask(state[t], to) /\ Moved(t, to)
    BY <1>3
  <2>2. UNCHANGED <<attempt, pid, procs, future, ready>>
    BY <1>3 DEF Effect
  <2>3. ASSUME NEW u \in Task PROVE WorkerOf(u)'
    <3>1. CASE u = t
      BY <2>1, <2>2, <3>1 DEF WorkerInv, WorkerOf, Alive, Ended, Calm
    <3>2. CASE u # t
      BY <2>1, <2>2, <3>2 DEF WorkerInv, WorkerOf, Alive, Ended, Calm
    <3>3. QED
      BY <3>1, <3>2
  <2>4. Watched' /\ Calm \subseteq Calm'
    BY <2>2 DEF Watched, Calm, Alive, Effect
  <2>5. QED
    BY <1>1, <2>3, <2>4 DEF WorkerInv
<1>4. CASE /\ \E t \in Calm : /\ state[t] = "ready" /\ Moved(t, "running")
                              /\ wf = "running" \/ Node[t].kind = "approval"
                              /\ attempt' = [attempt EXCEPT ![t] = @ + 1]
           /\ UNCHANGED <<pid, procs, future>>
  <2>1. PICK t \in Calm : /\ state[t] = "ready" /\ Moved(t, "running")
                          /\ attempt' = [attempt EXCEPT ![t] = @ + 1]
    BY <1>4
  <2>2. UNCHANGED <<pid, procs, future, ready>>
    BY <1>4 DEF Effect
  <2>3. ASSUME NEW u \in Task PROVE WorkerOf(u)'
    BY <2>1, <2>2 DEF WorkerInv, WorkerOf, Alive, Ended, Calm
  <2>4. Watched'
    BY <2>1, <2>2 DEF Watched, Calm, Effect
  <2>5. Calm \subseteq Calm'
    BY <2>2 DEF Calm, Alive
  <2>6. QED
    BY <1>1, <2>3, <2>4, <2>5 DEF WorkerInv
<1>5. CASE /\ \E t \in Task : \/ state[t] \in {"pending", "ready"} /\ Moved(t, "blocked")
                              \/ state[t] = "absent" /\ Moved(t, "pending")
           /\ UNCHANGED <<attempt, pid, procs, future>>
  BY <1>1, <1>5 DEF Effect, WorkerInv, WorkerOf, Watched, Alive, Ended, Calm
<1>6. CASE /\ \E t \in Calm : pid' = [pid EXCEPT ![t] = 0]
           /\ UNCHANGED <<state, attempt, procs, future>>
  BY SMTT(60), <1>1, <1>6 DEF Effect, WorkerInv, WorkerOf, Watched, Alive, Ended, Calm
<1>7. CASE /\ procs' \subseteq procs
           /\ UNCHANGED <<state, attempt, pid, future>>
  <2>1. \A u \in Task : Alive(u)' => Alive(u)
    BY <1>7 DEF Alive
  <2>2. QED
    BY <1>1, <1>7, <2>1 DEF Effect, WorkerInv, WorkerOf, Watched, Ended, Calm
<1>8. QED
  BY <1>2, <1>3, <1>4, <1>5, <1>6, <1>7 DEF Effect

-----------------------------------------------------------------------------
(* The steps that take the head off todo and hand nothing over. *)

Popping ==
    \/ PerformMove \/ PerformFail \/ PerformStart \/ PerformReserve \/ PerformLaunch
    \/ PerformRelease \/ PerformBlock \/ PerformWorkflow \/ PerformEscalate
    \/ PerformUpdate \/ PerformWorktree \/ PerformKill \/ PerformAdd \/ PerformDepend
    \/ PerformProcessed \/ PerformArchive

PopShape ==
    /\ todo # <<>> /\ todo' = Tail(todo)
    /\ Head(todo).op \notin {"submit", "iterate", "drive"}
    /\ Head(todo).op = "workflow" \/ wf' = wf
    /\ Head(todo).op = "launch" => state'[Head(todo).task] = "running"
    /\ Head(todo).op = "worktree" => state' = state

LEMMA BlockEffect ==
    ASSUME NEW t \in Task, state[t] \in {"pending", "ready"}, Moved(t, "blocked"), pc # "off",
           UNCHANGED <<attempt, pid, procs, future, ready, pc, crashes, wf>>
    PROVE  Effect
BY DEF Effect, Moved

LEMMA PoppingShape ==
    ASSUME TypeOK, TodoInv, WorkerInv, Popping
    PROVE  PopShape /\ Effect /\ TypeOK'
<1> DEFINE s == Head(todo)
<1>1. todo # <<>> /\ pc # "off"
  BY DEF Popping, PerformMove, PerformFail, PerformStart, PerformReserve, PerformLaunch,
     PerformRelease, PerformBlock, PerformWorkflow, PerformEscalate, PerformUpdate,
     PerformWorktree, PerformKill, PerformAdd, PerformDepend, PerformProcessed,
     PerformArchive, At, WorkerInv, LoopInv
<1>2. HeadFact(s)
  BY <1>1, HeadFacts DEF TypeOK
<1>3. Calm \subseteq Task
  BY CalmIsTask
<1> HIDE DEF s
<1> USE DEF At, Pop, HeadFact, PopShape, Effect, Moved, storeVars, fieldVars, controlVars,
            loopVars, workerVars, envVars, TypeOK, StoreTypeOK
<1>4. CASE PerformMove
  BY <1>1, <1>2, <1>3, <1>4 DEF PerformMove, TransitionTask, s
<1>5. CASE PerformFail
  <2>1. /\ s.task \in Calm /\ s.to \in TaskState /\ s.fp \in Fingerprint
        /\ CanTransitionTask(state[s.task], s.to) /\ Moved(s.task, s.to)
        /\ fingerprint' = [fingerprint EXCEPT ![s.task] = s.fp]
        /\ UNCHANGED <<wf, deps, attempt, reserved, budgetReserved, used, keys, terra, pid,
                        worktree, controlVars, loopVars, workerVars, envVars>>
    BY <1>2, <1>5 DEF PerformFail, TransitionTask, s
  <2>2. PopShape
    BY <1>1, <1>5, <2>1 DEF PerformFail
  <2>3. Effect
    BY <1>1, <1>3, <2>1 DEF Calm
  <2>4. TypeOK'
    BY <1>3, <2>1
  <2>5. QED
    BY <2>2, <2>3, <2>4
<1>6. CASE PerformStart
  <2>1. /\ s.task \in Calm /\ state[s.task] = "ready" /\ Moved(s.task, "running")
        /\ wf = "running" \/ Node[s.task].kind = "approval"
        /\ attempt' = [attempt EXCEPT ![s.task] = @ + 1]
        /\ UNCHANGED <<wf, deps, budgetReserved, used, keys, fieldVars, controlVars, loopVars,
                        workerVars, envVars>>
    BY <1>2, <1>6 DEF PerformStart, TransitionToRunning, CanTransitionTask, s
  <2>2. \E tokens \in Nat : reserved' = [reserved EXCEPT ![s.task] = tokens]
    BY <1>2, <1>3, <1>6, RuntimeAssumption DEF PerformStart, TransitionToRunning, NodeType, s
  <2>3. PopShape
    BY <1>1, <1>6, <2>1 DEF PerformStart
  <2>4. Effect
    BY <1>1, <2>1
  <2>5. TypeOK'
    BY <1>3, <2>1, <2>2 DEF TaskState
  <2>6. QED
    BY <2>3, <2>4, <2>5
<1>7. CASE PerformLaunch
  <2>1. /\ s.task \in Calm /\ state[s.task] = "ready" /\ Moved(s.task, "running")
        /\ wf = "running" \/ Node[s.task].kind = "approval"
        /\ attempt' = [attempt EXCEPT ![s.task] = @ + 1]
        /\ UNCHANGED <<wf, deps, budgetReserved, used, keys, fieldVars, controlVars, loopVars,
                        workerVars, envVars>>
    BY <1>2, <1>7 DEF PerformLaunch, TransitionToRunning, CanTransitionTask, s
  <2>2. \E tokens \in Nat : reserved' = [reserved EXCEPT ![s.task] = tokens]
    BY <1>2, <1>3, <1>7, RuntimeAssumption DEF PerformLaunch, TransitionToRunning, NodeType, s
  <2>3. PopShape
    <3>1. state'[s.task] = "running"
      BY <1>3, <2>1
    <3>2. QED
      BY <1>1, <1>7, <2>1, <3>1 DEF PerformLaunch, s
  <2>4. Effect
    BY <1>1, <2>1
  <2>5. TypeOK'
    BY <1>3, <2>1, <2>2 DEF TaskState
  <2>6. QED
    BY <2>3, <2>4, <2>5
<1>8. CASE PerformReserve
  <2>1. UNCHANGED <<wf, state, deps, attempt, used, fieldVars, controlVars, loopVars,
                    workerVars, envVars>>
    BY <1>8 DEF PerformReserve, ReserveBudget
  <2>2. PopShape /\ Effect
    BY <1>1, <1>8, <2>1 DEF PerformReserve
  <2>3. /\ s.task \in Task /\ Node[s.task].reserve \in Nat
        /\ ReserveKey(s.task, attempt[s.task] + 1) \in Key
    BY <1>2, <1>3, <1>8, RuntimeAssumption DEF PerformReserve, ReserveKey, Key, NodeType, s
  <2>4. ReserveBudget(s.task, Node[s.task].reserve, ReserveKey(s.task, attempt[s.task] + 1))
    BY <1>8 DEF PerformReserve, s
  <2>5. reserved' \in [Task -> Nat] /\ budgetReserved' \in Nat /\ keys' \subseteq Key
    BY <2>3, <2>4 DEF ReserveBudget
  <2>6. QED
    BY <2>1, <2>2, <2>5
<1>9. CASE PerformRelease
  <2>1. UNCHANGED <<wf, state, deps, attempt, used, fieldVars, controlVars, loopVars,
                    workerVars, envVars>>
    BY <1>9 DEF PerformRelease, ReleaseBudget
  <2>2. PopShape /\ Effect
    BY <1>1, <1>9, <2>1 DEF PerformRelease
  <2>3. s.task \in Task
    BY <1>2, <1>9 DEF PerformRelease, s
  <2>4. ReleaseOf(s.task) \in Key
    BY <2>3 DEF ReleaseOf, ReleaseKey, RecoveryKey, Key
  <2>5. \/ UNCHANGED storeVars
        \/ ReleaseBudget(s.task, reserved[s.task], ReleaseOf(s.task))
    BY <1>9 DEF PerformRelease, s
  <2>6. reserved' \in [Task -> Nat] /\ budgetReserved' \in Nat /\ keys' \subseteq Key
    BY <2>3, <2>4, <2>5 DEF ReleaseBudget
  <2>7. QED
    BY <2>1, <2>2, <2>6
<1>10. CASE PerformBlock
  <2>1. UNCHANGED <<wf, deps, attempt, reserved, budgetReserved, used, keys, fieldVars,
                    controlVars, loopVars, workerVars, envVars>>
    BY <1>10 DEF PerformBlock, TransitionTask
  <2>2. PopShape
    BY <1>1, <1>10, <2>1 DEF PerformBlock
  <2>3. s.task \in Task
    BY <1>2, <1>10 DEF PerformBlock, s
  <2>4. \/ UNCHANGED state
        \/ state[s.task] \in {"pending", "ready"} /\ Moved(s.task, "blocked")
    BY <1>10 DEF PerformBlock, TransitionTask, s
  <2>5. Effect
    <3>1. CASE UNCHANGED state
      BY <1>1, <2>1, <3>1
    <3>2. CASE state[s.task] \in {"pending", "ready"} /\ Moved(s.task, "blocked")
      <4>1. UNCHANGED <<attempt, pid, procs, future, ready, pc, crashes, wf>>
        BY <2>1
      <4>2. QED
        BY <1>1, <2>3, <3>2, <4>1, BlockEffect
    <3>3. QED
      BY <2>4, <3>1, <3>2
  <2>6. TypeOK'
    BY <2>1, <2>3, <2>4 DEF TaskState
  <2>7. QED
    BY <2>2, <2>5, <2>6
<1>11. CASE PerformWorkflow
  BY <1>1, <1>2, <1>3, <1>11 DEF PerformWorkflow, TransitionWorkflow, s
<1>12. CASE PerformEscalate \/ PerformWorktree
  BY SMTT(60), <1>1, <1>2, <1>3, <1>12 DEF PerformEscalate, PerformWorktree, s
<1>13. CASE PerformUpdate
  BY <1>1, <1>2, <1>3, <1>13 DEF PerformUpdate, s
<1>14. CASE PerformKill
  BY <1>1, <1>2, <1>3, <1>14 DEF PerformKill, s
<1>15. CASE PerformAdd
  BY ZenonT(60), <1>1, <1>2, <1>3, <1>15 DEF PerformAdd, AddTask, TaskState, s
<1>16. CASE PerformDepend
  BY <1>1, <1>2, <1>3, <1>16 DEF PerformDepend, UpdateDeps, s
<1>17. CASE PerformProcessed \/ PerformArchive
  BY <1>1, <1>2, <1>3, <1>17 DEF PerformProcessed, PerformArchive, s
<1>18. QED
  BY <1>4, <1>5, <1>6, <1>7, <1>8, <1>9, <1>10, <1>11, <1>12, <1>13, <1>14, <1>15, <1>16,
     <1>17 DEF Popping

-----------------------------------------------------------------------------
(* The scripts of the handlers.  Each is a sequence of quiet steps, unless    *)
(* it starts an attempt.                                                     *)

LEMMA MovesAreFlat ==
    ASSUME NEW C, NEW F, NEW t \in C
    PROVE  /\ \A to \in TaskState : Move(t, to) \in Flat(C, F)
           /\ \A to \in TaskState, f \in Fingerprint : Fail(t, to, f) \in Flat(C, F)
           /\ \A f \in Fingerprint \cup {NoFingerprint} : Update(t, f) \in Flat(C, F)
<1> USE DEF Flat, MoveSteps
<1>1. \A to \in TaskState : Move(t, to) \in Flat(C, F)
  BY DEF Move
<1>2. \A to \in TaskState, f \in Fingerprint : Fail(t, to, f) \in Flat(C, F)
  BY DEF Fail
<1>3. \A f \in Fingerprint \cup {NoFingerprint} : Update(t, f) \in Flat(C, F)
  BY DEF Update
<1>4. QED
  BY <1>1, <1>2, <1>3

LEMMA PlainIsFlat ==
    ASSUME NEW C, NEW F, NEW t \in Task
    PROVE  /\ Release(t) \in Flat(C, F) /\ Block(t) \in Flat(C, F)
           /\ [op |-> "escalate", task |-> t] \in Flat(C, F)
           /\ [op |-> "worktree", task |-> t] \in Flat(C, F)
           /\ [op |-> "kill", task |-> t] \in Flat(C, F)
           /\ \A ts \in SUBSET Task : /\ [op |-> "add", task |-> t, on |-> ts] \in Flat(C, F)
                                      /\ [op |-> "depend", task |-> t, on |-> ts] \in Flat(C, F)
BY DEF Flat, PlainSteps, Release, Block

LEMMA CancelsAreFlat ==
    ASSUME NEW C, NEW F, NEW t \in F
    PROVE  Move(t, "cancelled") \in Flat(C, F)
BY DEF Flat, MoveSteps, Move

LEMMA VerdictScripts ==
    ASSUME NEW C \in SUBSET Task, NEW F, NEW t \in C
    PROVE  /\ AcceptComputed(t) \in Seq(Flat(C, F))
           /\ FailSteps(t) \in Seq(Flat(C, F))
           /\ \A to \in TaskState : <<Move(t, to), Release(t)>> \in Seq(Flat(C, F))
           /\ \A to \in TaskState, f \in Fingerprint :
                 <<Fail(t, to, f), Release(t)>> \in Seq(Flat(C, F))
<1>1. {"completed", "verifying", "accepted", "failed"} \subseteq TaskState
  BY DEF TaskState
<1>2. Release(t) \in Flat(C, F) /\ \A to \in TaskState : Move(t, to) \in Flat(C, F)
  BY MovesAreFlat, PlainIsFlat
<1>3. \A to \in TaskState, f \in Fingerprint : Fail(t, to, f) \in Flat(C, F)
  BY MovesAreFlat
<1>4. /\ \A to \in TaskState : <<Move(t, to), Release(t)>> \in Seq(Flat(C, F))
      /\ \A to \in TaskState, f \in Fingerprint :
            <<Fail(t, to, f), Release(t)>> \in Seq(Flat(C, F))
  BY <1>2, <1>3
<1>5. AcceptComputed(t) \in Seq(Flat(C, F)) /\ FailSteps(t) \in Seq(Flat(C, F))
  BY <1>1, <1>2, <1>4 DEF AcceptComputed, FailSteps
<1>6. QED
  BY <1>4, <1>5

LEMMA CompleteScript ==
    ASSUME TypeOK, NEW C \in SUBSET Task, NEW F, NEW t \in C
    PROVE  /\ <<ClearPid(t)>> \in Seq(Flat(C, F))
           /\ CompleteSteps(t) \in Seq(Flat(C, F))
           /\ \A f \in Fingerprint : <<Update(t, f)>> \in Seq(Flat(C, F))
<1>1. ClearPid(t) \in Flat(C, F) /\ \A f \in Fingerprint : Update(t, f) \in Flat(C, F)
  BY MovesAreFlat DEF ClearPid, TypeOK
<1>2. Move(t, "completed") \in Flat(C, F) /\ Move(t, "verifying") \in Flat(C, F)
  BY MovesAreFlat DEF TaskState
<1>3. QED
  BY <1>1, <1>2 DEF CompleteSteps

LEMMA RetryScripts ==
    ASSUME NEW C \in SUBSET Task, NEW F, NEW t \in C, NEW f \in Fingerprint
    PROVE  /\ Escalate(t, f) \in Seq(Flat(C, F))
           /\ MaybeRetry(t, f) \in Seq(Flat(C, F))
           /\ <<Move(t, "retry_wait"), Move(t, "ready")>> \in Seq(Flat(C, F))
<1>1. Move(t, "retry_wait") \in Flat(C, F) /\ Move(t, "ready") \in Flat(C, F)
  BY MovesAreFlat DEF TaskState
<1>2. [op |-> "escalate", task |-> t] \in Flat(C, F)
  BY PlainIsFlat
<1>3. QED
  BY <1>1, <1>2 DEF Escalate, MaybeRetry

LEMMA EachIsQuiet ==
    ASSUME NEW C, NEW F, NEW items, items \subseteq Seq(Flat(C, F))
    PROVE  Each(items) \in Seq(Quiet(C, F))
<1>1. [op |-> "each", items |-> items] \in Quiet(C, F)
  BY DEF Quiet
<1>2. QED
  BY <1>1 DEF Each

LEMMA FlatIsQuiet == \A C, F : Seq(Flat(C, F)) \subseteq Seq(Quiet(C, F))
BY SeqGrows DEF Quiet

LEMMA QuietRecords ==
    ASSUME NEW C, NEW F, NEW s \in Seq(Quiet(C, F))
    PROVE  Records(s, C, F)
BY SeqGrows DEF Records

LEMMA StartingFront ==
    ASSUME NEW C \in SUBSET Task, NEW F, NEW t \in C
    PROVE  /\ Seq(Quiet(C, F)) \subseteq Seq(Quiet(C, F) \cup StartingSteps(C))
           /\ <<StartComputed(t)>> \in Seq(Quiet(C, F) \cup StartingSteps(C))
           /\ \A by \in C : StartSteps(t, by) \in Seq(Quiet(C, F) \cup StartingSteps(C))
BY SeqGrows DEF StartComputed, StartSteps, StartingSteps

LEMMA FrontStarts ==
    ASSUME NEW C, NEW F, NEW s \in Seq(Quiet(C, F) \cup StartingSteps(C))
    PROVE  /\ Starts(s, C, F)
           /\ \A e : Ending(e, C) => Starts(s \o e, C, F)
<1>1. s = s \o <<>>
  BY EmptyFront
<1>2. QED
  BY <1>1 DEF Starts, Ending

(* a task is reserved for, launched, given its worktree and handed over *)
LEMMA HandoverScript ==
    ASSUME NEW C \in SUBSET Task, NEW F, NEW c \in C, NEW by \in C,
           NEW f \in Seq(Quiet(C, F) \cup StartingSteps(C)),
           NEW p \in {<<>>, <<Preparing(c)>>}, NEW w, Waits(c, w, C)
    PROVE  Starts(((f \o StartSteps(c, by)) \o p) \o (<<Submitting(c)>> \o w), C, F)
<1> DEFINE reserve == [op |-> "reserve", task |-> c, by |-> by]
           Q == Quiet(C, F) \cup StartingSteps(C)
           out == <<Submitting(c)>> \o w
<1>1. PICK S : /\ Submitting(c) \in S /\ Preparing(c) \in S /\ Launching(c) \in S
               /\ w \in Seq(S)
  BY WaitsSeq
<1> DEFINE U == Q \cup S
<1>2. reserve \in Q
  BY DEF StartingSteps
<1> HIDE DEF reserve, Q
<1>3. /\ f \in Seq(U) /\ p \in Seq(U) /\ out \in Seq(U)
      /\ reserve \in U /\ Launching(c) \in U
  <2>1. w \in Seq(U) /\ f \in Seq(U)
    BY <1>1, SeqGrows DEF Q
  <2>2. Submitting(c) \in U /\ Preparing(c) \in U
    BY <1>1
  <2>3. p \in Seq(U)
    BY <2>2, OneIn, EmptyIn
  <2>4. QED
    BY <1>1, <1>2, <2>1, <2>2, <2>3, OneFirst
<1>4. ((f \o StartSteps(c, by)) \o p) \o out
         = (f \o <<reserve>>) \o (<<Launching(c)>> \o (p \o out))
  <2> DEFINE x == <<reserve>>
             y == <<Launching(c)>>
             xy == StartSteps(c, by)
  <2>1. x \in Seq(U) /\ y \in Seq(U)
    BY <1>3
  <2>2. xy = x \o y
    <3>1. <<reserve, Launching(c)>> = <<reserve>> \o <<Launching(c)>>
      BY <1>3, Pair
    <3>2. xy = <<reserve, Launching(c)>>
      BY DEF StartSteps, reserve, Launching
    <3>3. QED
      BY <3>1, <3>2
  <2> HIDE DEF x, y, xy, U, out
  <2>3. f \in Seq(U) /\ p \in Seq(U) /\ out \in Seq(U)
    BY <1>3
  <2>4. f \o xy = (f \o x) \o y /\ f \o x \in Seq(U)
    BY SMTT(60), <2>1, <2>2, <2>3
  <2>5. ASSUME NEW g \in Seq(U) PROVE ((g \o y) \o p) \o out = g \o (y \o (p \o out))
    <3>1. (g \o y) \o p = g \o (y \o p) /\ y \o p \in Seq(U)
      BY SMTT(60), <2>1, <2>3
    <3>2. ASSUME NEW v \in Seq(U) PROVE (g \o v) \o out = g \o (v \o out)
      BY <2>3
    <3>3. ASSUME NEW v \in Seq(U) PROVE (y \o v) \o out = y \o (v \o out)
      BY SMTT(60), <2>1, <2>3
    <3>4. QED
      BY <2>3, <3>1, <3>2, <3>3
  <2>6. QED
    BY <2>4, <2>5 DEF x, y, xy
<1>5. Hands(c, p \o out, C)
  <2>1. Submits(c, out, C)
    BY DEF Submits
  <2>2. <<>> \o out = out
    BY <1>3, EmptyFront
  <2>3. QED
    BY <2>1, <2>2 DEF Hands
<1>6. Ending(<<Launching(c)>> \o (p \o out), C)
  BY <1>5 DEF Ending
<1>7. f \o <<reserve>> \in Seq(Q)
  BY <1>2, OneIn, ConcatIn DEF Q
<1>8. QED
  BY <1>4, <1>6, <1>7 DEF Starts, Q

-----------------------------------------------------------------------------
(* What the handlers write into todo. *)

LEMMA RestingIsCalm ==
    ASSUME WorkerInv
    PROVE  /\ \A t \in Task \ ready : state[t] \notin {"running", "cancelled"} => t \in Calm
           /\ \A t \in Task : t \in ready => future[t] = "none" /\ ~Alive(t)
BY DEF WorkerInv, WorkerOf, Calm

LEMMA RefreshScript ==
    ASSUME WorkerInv, ready = {}
    PROVE  RefreshReady \in Seq(Quiet(Calm, Task \ ready))
<1> DEFINE pending == {t \in Task : state[t] = "pending"}
           moves(ts, to) == {<<Move(t, to)>> : t \in ts}
<1>1. pending \subseteq Calm
  BY RestingIsCalm
<1>2. ASSUME NEW ts \in SUBSET pending, NEW to \in {"ready", "blocked"}
      PROVE  moves(ts, to) \subseteq Seq(Flat(Calm, Task \ ready))
  <2>1. \A t \in ts : Move(t, to) \in Flat(Calm, Task \ ready)
    BY <1>1, <1>2, MovesAreFlat DEF TaskState
  <2>2. \A t \in ts : <<Move(t, to)>> \in Seq(Flat(Calm, Task \ ready))
    BY <2>1, OneIn
  <2>3. QED
    BY <2>2
<1>3. \E ts, us \in SUBSET pending : RefreshReady = Each(moves(ts, "ready") \cup moves(us, "blocked"))
  BY DEF RefreshReady
<1>4. QED
  BY <1>2, <1>3, EachIsQuiet

LEMMA WorkflowRecord ==
    ASSUME ready = {}, NEW w \in WorkflowState
    PROVE  Records(<<Workflow(w)>>, Calm, Task \ ready)
BY DEF Records, WorkflowSteps, Workflow

LEMMA RecordsJoin ==
    ASSUME NEW C, NEW F, NEW s, NEW u, Records(s, C, F), Records(u, C, F)
    PROVE  Records(s \o u, C, F)
BY ConcatIn DEF Records

LEMMA EmptyRecords == \A C, F : Records(<<>>, C, F)
BY DEF Records

(* a worker-free script, written by a step that only reads the tasks *)
LEMMA ScriptWritten ==
    ASSUME NEW s, todo' = s, ready' \subseteq ready, ready \subseteq Task,
           UNCHANGED <<future, pid, procs>>, Records(s, Calm, Task \ ready)
    PROVE  TodoInv'
<1>1. Calm \subseteq Calm'
  BY DEF Calm, Alive
<1>2. Records(todo', Calm', Task \ ready')
  BY <1>1, RecordsGrows
<1>3. QED
  BY <1>2 DEF TodoInv

(* Boot and Resume *)
LEMMA BootScript ==
    ASSUME TypeOK, WorkerInv, Boot \/ Resume
    PROVE  TodoInv'
<1> USE DEF Boot, Resume, Idle, Reconcile, unchangedByMain, workerVars, fieldVars
<1>1. ready = {}
  BY DEF WorkerInv, LoopInv
<1>2. CASE Resume
  <2>1. Records(todo', Calm, Task \ ready)
    BY <1>1, <1>2, WorkflowRecord, EmptyRecords DEF WorkflowState
  <2>2. QED
    BY <1>1, <1>2, <2>1, ScriptWritten
<1>3. CASE Boot /\ wf # "running"
  BY <1>1, <1>3, EmptyRecords, ScriptWritten
<1>4. CASE Boot /\ wf = "running"
  <2> DEFINE missing == {t \in Task : state[t] = "running" /\ ~Alive(t)}
             items == {<<Move(t, "interrupted"), Release(t)>> : t \in missing}
  <2>1. missing \subseteq Calm
    BY <1>1, <1>4 DEF WorkerInv, LoopInv, Running, Calm
  <2>2. \A t \in missing : <<Move(t, "interrupted"), Release(t)>> \in Seq(Flat(Calm, Task \ ready))
    BY <2>1, CalmIsTask, VerdictScripts DEF TaskState
  <2>3. Records(Each(items), Calm, Task \ ready)
    BY <2>2, EachIsQuiet, QuietRecords
  <2>4. Records(IF missing = {} THEN <<>> ELSE <<Workflow("interrupted")>>, Calm, Task \ ready)
    BY <1>1, WorkflowRecord, EmptyRecords DEF WorkflowState
  <2>5. Records(todo', Calm, Task \ ready)
    BY <1>4, <2>3, <2>4, RecordsJoin
  <2>6. QED
    BY <1>1, <1>4, <2>5, ScriptWritten
<1>5. QED
  BY <1>2, <1>3, <1>4

LEMMA RefreshStep ==
    ASSUME TypeOK, WorkerInv, RefreshBefore \/ RefreshAfter
    PROVE  TodoInv'
<1> USE DEF RefreshBefore, RefreshAfter, Refresh, Idle, unchangedByMain, workerVars, fieldVars
<1>1. ready = {}
  BY DEF WorkerInv, LoopInv
<1>2. Records(todo', Calm, Task \ ready)
  BY <1>1, RefreshScript, QuietRecords, EmptyRecords
<1>3. QED
  BY <1>1, <1>2, ScriptWritten

(* The requests.  Only a decision on an approval may start an attempt. *)
LEMMA HandleStep ==
    ASSUME TypeOK, WorkerInv, HandleRequest
    PROVE  TodoInv'
<1>1. PICK r \in batch : HandlePause(r) \/ HandleResume(r) \/ HandleCancel(r)
                           \/ HandleRetry(r) \/ HandleDecision(r)
  BY DEF HandleRequest
<1>2. r \in Request /\ r.task \in Task
  BY <1>1, RuntimeAssumption DEF TypeOK
<1>3. pc = "handle" /\ ready = {}
  BY <1>1 DEF HandlePause, HandleResume, HandleCancel, HandleRetry, HandleDecision, Handle,
              Idle, WorkerInv, LoopInv
<1> DEFINE C == Calm
           F == Task \ ready
           end == <<[op |-> "processed", request |-> r], [op |-> "archive", request |-> r]>>
<1>4. Records(end, C, F)
  <2>1. /\ [op |-> "processed", request |-> r] \in Flat(C, F)
        /\ [op |-> "archive", request |-> r] \in Flat(C, F)
    BY <1>2 DEF Flat, PlainSteps
  <2>2. end \in Seq(Flat(C, F))
    BY <2>1
  <2>3. QED
    BY <2>2, FlatIsQuiet, QuietRecords
<1>5. ASSUME NEW steps, Handle(r, steps), Records(steps, C, F)
      PROVE  TodoInv'
  <2>1. /\ todo' = steps \o end /\ ready' = ready
        /\ UNCHANGED <<future, pid, procs>>
    BY <1>5 DEF Handle, unchangedByMain, workerVars, fieldVars
  <2>2. Records(steps \o end, C, F)
    BY <1>4, <1>5, RecordsJoin
  <2>3. QED
    BY <2>1, <2>2, ScriptWritten DEF TypeOK
<1>6. CASE HandlePause(r) \/ HandleResume(r)
  <2>1. \A w \in {"paused", "running"} : Records(<<Workflow(w)>>, C, F)
    BY <1>3, WorkflowRecord DEF WorkflowState
  <2>2. QED
    BY <1>5, <1>6, <2>1, EmptyRecords DEF HandlePause, HandleResume
<1>7. CASE HandleCancel(r)
  <2> DEFINE active == {t \in Task : state[t] \in {"pending", "ready", "retry_wait", "running"}}
             items == {CancelSteps(t, r.stop_active) : t \in active}
  <2>1. \A t \in Task : CancelSteps(t, r.stop_active) \in Seq(Flat(C, F))
    <3>1. \A t \in Task : /\ Move(t, "cancelled") \in Flat(C, F) /\ Release(t) \in Flat(C, F)
                          /\ [op |-> "kill", task |-> t] \in Flat(C, F)
      BY <1>3, CancelsAreFlat, PlainIsFlat
    <3>2. ASSUME NEW t \in Task PROVE CancelSteps(t, r.stop_active) \in Seq(Flat(C, F))
      <4>1. <<Move(t, "cancelled"), Release(t)>> \in Seq(Flat(C, F))
        BY <3>1, TwoIn
      <4>2. /\ <<[op |-> "kill", task |-> t]>> \in Seq(Flat(C, F))
            /\ <<>> \in Seq(Flat(C, F))
        BY <3>1, OneIn, EmptyIn
      <4>3. QED
        BY <4>1, <4>2, ConcatIn DEF CancelSteps
    <3>3. QED
      BY <3>2
  <2>2. Records(Each(items), C, F)
    BY <2>1, EachIsQuiet, QuietRecords
  <2>3. Records(<<Workflow("cancelled")>>, C, F)
    BY <1>3, WorkflowRecord DEF WorkflowState
  <2>4. Records(Each(items) \o <<Workflow("cancelled")>>, C, F)
    BY <2>2, <2>3, RecordsJoin
  <2>5. QED
    BY <1>5, <1>7, <2>4, EmptyRecords DEF HandleCancel
<1>8. CASE HandleRetry(r)
  <2>1. Retryable(r.task) => r.task \in C
    BY <1>2, <1>3, RestingIsCalm DEF Retryable
  <2>2. r.task \in C => Move(r.task, "retry_wait") \in Flat(C, F) /\ Move(r.task, "ready") \in Flat(C, F)
    BY MovesAreFlat DEF TaskState
  <2>3. r.task \in C => Records(<<Move(r.task, "retry_wait"), Move(r.task, "ready")>>, C, F)
    <3>1. r.task \in C => <<Move(r.task, "retry_wait"), Move(r.task, "ready")>> \in Seq(Flat(C, F))
      BY <2>2
    <3>2. QED
      BY <3>1, FlatIsQuiet, QuietRecords
  <2>4. QED
    BY <1>5, <1>8, <2>1, <2>3, EmptyRecords DEF HandleRetry
<1>9. CASE HandleDecision(r)
  <2>1. Node[r.task].kind = "approval" => Records(<<[op |-> "decide", request |-> r]>>, C, F)
    <3>1. Node[r.task].kind = "approval" => [op |-> "decide", request |-> r] \in Flat(C, F)
      BY <1>2, <1>3 DEF Flat, ApprovalSteps
    <3>2. QED
      BY <3>1, OneIn, FlatIsQuiet, QuietRecords
  <2>2. Records(RefreshReady, C, F)
    BY <1>3, RefreshScript, QuietRecords
  <2>3. QED
    BY <1>5, <1>9, <2>1, <2>2, RecordsJoin, EmptyRecords DEF HandleDecision
<1>10. QED
  BY <1>1, <1>6, <1>7, <1>8, <1>9

(* The steps that write nothing, or the verdict on the workflow. *)
LEMMA QuietStepTodo ==
    ASSUME TypeOK, WorkerInv, Recovered \/ TakeInbox \/ InboxDone \/ ListReady \/ EndLaunch
                              \/ WaitTimeout \/ SettleIteration
    PROVE  TodoInv'
<1>1. CASE Recovered \/ TakeInbox \/ InboxDone \/ ListReady \/ EndLaunch \/ WaitTimeout
  <2>1. todo' = <<>>
    BY <1>1 DEF Recovered, TakeInbox, InboxDone, ListReady, EndLaunch, WaitTimeout, Idle
  <2>2. QED
    BY <2>1, EmptyRecords DEF TodoInv
<1>2. CASE SettleIteration
  <2>1. PICK next, steps, why : /\ Settle(next, steps, why)
                                /\ \/ steps = <<>>
                                   \/ \E w \in WorkflowState : steps = <<Workflow(w)>>
    BY <1>2 DEF SettleIteration, SettleWait, SettleAgain, SettleCancelled, SettleSucceeded,
                SettleExhausted, SettleFailed, SettleStalled, SettleRefused, Conclude,
                WorkflowState
  <2>2. /\ ready = {} /\ ready' = ready /\ todo' = steps
        /\ UNCHANGED <<future, pid, procs>>
    BY <2>1 DEF Settle, Idle, WorkerInv, LoopInv, unchangedByMain, workerVars, fieldVars
  <2>3. Records(steps, Calm, Task \ ready)
    BY <2>1, <2>2, EmptyRecords, WorkflowRecord
  <2>4. QED
    BY <2>2, <2>3, ScriptWritten
<1>3. QED
  BY <1>1, <1>2

(* A task taken off the list is calm: it has not started since the list was  *)
(* made.  Its attempt starts while the workflow runs.                        *)
LEMMA LaunchCalm ==
    ASSUME TypeOK, WorkerInv, NEW t, NEW computed, NEW steps, Launch(t, computed, steps)
    PROVE  /\ t \in Calm' /\ t \in Task
           /\ wf' = "running" /\ todo' = steps
<1>1. t \in ready /\ t \in Task /\ ready' = ready \ {t}
  BY DEF Launch, TypeOK
<1>2. UNCHANGED <<future, pid, procs, wf>> /\ wf = "running" /\ todo' = steps
  BY <1>1 DEF Launch, unchangedByMain, workerVars, fieldVars, storeVars, WorkerInv, LoopInv
<1>3. future[t] = "none" /\ ~Alive(t)
  BY <1>1, RestingIsCalm
<1>4. QED
  BY <1>1, <1>2, <1>3 DEF Calm, Alive

LEMMA LaunchStep ==
    ASSUME TypeOK, WorkerInv, LaunchTask
    PROVE  TodoInv'
<1> DEFINE C == Calm'
           F == Task \ ready'
           Quiets == Seq(Quiet(C, F))
           Fronts == Seq(Quiet(C, F) \cup StartingSteps(C))
<1>1. PICK t \in ready :
         \/ LaunchDenied(t) \/ LaunchCondition(t) \/ LaunchCheck(t)
         \/ LaunchUnusable(t) \/ LaunchMap(t) \/ LaunchReduce(t) \/ LaunchRepeat(t)
         \/ LaunchApproval(t)
         \/ LaunchNoSlot(t) \/ LaunchCached(t) \/ LaunchAgent(t) \/ LaunchUnprepared(t)
  BY DEF LaunchTask
<1>2. t \in Task /\ Node[t] \in NodeType
  BY RuntimeAssumption DEF TypeOK
<1>3. C \in SUBSET Task
  BY DEF Calm
<1>4. ASSUME NEW computed, NEW steps, Launch(t, computed, steps), t \in C => Starts(steps, C, F)
      PROVE  TodoInv'
  BY <1>4, LaunchCalm DEF TodoInv
<1> HIDE DEF C, F
<1>5. ASSUME NEW computed, NEW steps, Launch(t, computed, steps), t \in C => steps \in Fronts
      PROVE  TodoInv'
  BY <1>4, <1>5, FrontStarts
<1>6. /\ Quiets \subseteq Fronts
      /\ \A s \in Seq(Flat(C, F)) : s \in Quiets /\ s \in Fronts
  BY <1>3, SeqGrows, FlatIsQuiet
<1>7. \A s, u \in Fronts : s \o u \in Fronts
  BY ConcatIn
<1>8. t \in C => /\ <<StartComputed(t)>> \in Fronts /\ StartSteps(t, t) \in Fronts
  BY <1>3, StartingFront
<1>9. t \in C => /\ AcceptComputed(t) \in Fronts /\ FailSteps(t) \in Fronts
  BY <1>3, <1>6, VerdictScripts
<1>10. /\ <<Block(t)>> \in Fronts /\ <<>> \in Fronts
       /\ <<[op |-> "worktree", task |-> t]>> \in Fronts
  BY <1>2, <1>6, PlainIsFlat, OneIn, EmptyIn
<1>11. ASSUME NEW items, items \subseteq Seq(Flat(C, F)) PROVE Each(items) \in Fronts
  BY <1>6, <1>11, EachIsQuiet
<1> HIDE DEF Fronts, Quiets
<1>12. CASE LaunchDenied(t) \/ LaunchApproval(t) \/ LaunchNoSlot(t)
  BY <1>5, <1>10, <1>12 DEF LaunchDenied, LaunchApproval, LaunchNoSlot
<1>13. CASE LaunchCondition(t)
  <2> DEFINE skipped == IF branch[t] = "on_true" THEN Node[t].on_false ELSE Node[t].on_true
  <2>1. \A b \in skipped : <<Block(b)>> \in Seq(Flat(C, F))
    BY <1>2, PlainIsFlat, OneIn DEF NodeType
  <2>2. Each({<<Block(b)>> : b \in skipped}) \in Fronts
    BY <1>11, <2>1
  <2>3. QED
    BY <1>5, <1>7, <1>8, <1>9, <1>13, <2>2 DEF LaunchCondition
<1>14. CASE LaunchCheck(t)
  <2>1. PICK verdict \in {"accepted", "rejected"} :
           Launch(t, TRUE, <<StartComputed(t), Move(t, "completed"), Move(t, "verifying"),
                             Move(t, verdict), Release(t)>>)
    BY <1>14 DEF LaunchCheck
  <2>2. t \in C => /\ StartComputed(t) \in Quiet(C, F) \cup StartingSteps(C)
                   /\ \A to \in TaskState : Move(t, to) \in Quiet(C, F) \cup StartingSteps(C)
                   /\ Release(t) \in Quiet(C, F) \cup StartingSteps(C)
    BY <1>2, MovesAreFlat, PlainIsFlat DEF StartComputed, StartingSteps, Quiet
  <2>3. t \in C => <<StartComputed(t), Move(t, "completed"), Move(t, "verifying"),
                    Move(t, verdict), Release(t)>> \in Fronts
    BY <2>2 DEF Fronts, TaskState
  <2>4. QED
    BY <1>5, <2>1, <2>3
<1>15. CASE LaunchUnusable(t) \/ LaunchReduce(t) \/ LaunchCached(t)
  BY <1>5, <1>7, <1>8, <1>9, <1>15 DEF LaunchUnusable, LaunchReduce, LaunchCached
<1>16. CASE LaunchMap(t)
  <2> DEFINE add == {<<[op |-> "add", task |-> x, on |-> {t}]>> : x \in Node[t].children}
             depend == {<<[op |-> "depend", task |-> r, on |-> Node[t].children]>> :
                           r \in Node[t].reduce}
  <2>1. /\ \A x \in Node[t].children : <<[op |-> "add", task |-> x, on |-> {t}]>> \in Seq(Flat(C, F))
        /\ \A r \in Node[t].reduce :
              <<[op |-> "depend", task |-> r, on |-> Node[t].children]>> \in Seq(Flat(C, F))
    BY <1>2, PlainIsFlat, OneIn DEF NodeType
  <2>2. Each(add) \in Fronts /\ Each(depend) \in Fronts
    BY <1>11, <2>1
  <2>3. QED
    BY <1>5, <1>7, <1>8, <1>9, <1>16, <2>2 DEF LaunchMap
<1>17. CASE LaunchRepeat(t)
  <2>1. t \in C => Ending(Iterate(t, 1), C)
    BY DEF Ending, Iterate, Iterating
  <2>2. t \in C => Starts(<<StartComputed(t)>> \o Iterate(t, 1), C, F)
    BY <1>8, <2>1, FrontStarts DEF Fronts
  <2>3. t \in C => <<StartComputed(t)>> \o FailSteps(t) \in Fronts
    BY <1>7, <1>8, <1>9
  <2>4. QED
    BY <1>4, <1>5, <1>10, <1>17, <2>2, <2>3 DEF LaunchRepeat
<1>18. CASE LaunchAgent(t)
  <2> DEFINE prepare == IF NeedsWorktree(t) THEN <<[op |-> "worktree", task |-> t]>> ELSE <<>>
             submit == <<[op |-> "submit", task |-> t]>>
  <2>1. prepare \in {<<>>, <<Preparing(t)>>}
    BY DEF Preparing
  <2>2. submit = <<Submitting(t)>> \o <<>>
    BY DEF Submitting
  <2>3. t \in C => <<>> \o StartSteps(t, t) = StartSteps(t, t)
    BY <1>8, EmptyFront DEF Fronts
  <2>4. Waits(t, <<>>, C)
    BY DEF Waits
  <2> HIDE DEF prepare, submit
  <2>5. t \in C => Starts(StartSteps(t, t) \o prepare \o submit, C, F)
    BY <1>3, <1>10, <2>1, <2>2, <2>3, <2>4, HandoverScript DEF Fronts
  <2>6. QED
    BY <1>4, <1>18, <2>5 DEF LaunchAgent, prepare, submit
<1>19. CASE LaunchUnprepared(t)
  BY <1>5, <1>7, <1>8, <1>9, <1>19 DEF LaunchUnprepared
<1>20. QED
  BY <1>1, <1>12, <1>13, <1>14, <1>15, <1>16, <1>17, <1>18, <1>19

-----------------------------------------------------------------------------
(* Steps of a script that write another one. *)

Rescripting ==
    PerformReserveRefused \/ PerformReserveRefusedRepeat \/ PerformEach \/ PerformDecide
        \/ PerformIterate

(* a quiet step in front of a script that starts or records *)
LEMMA QuietBefore ==
    ASSUME NEW C, NEW F, NEW s \in Seq(Quiet(C, F)), NEW u
    PROVE  /\ Records(u, C, F) => Records(s \o u, C, F)
           /\ Starts(u, C, F) => Starts(s \o u, C, F)
<1>1. Records(u, C, F) => Records(s \o u, C, F)
  BY QuietRecords, RecordsJoin
<1>2. ASSUME Starts(u, C, F) PROVE Starts(s \o u, C, F)
  <2> DEFINE S == Quiet(C, F) \cup StartingSteps(C)
  <2>1. PICK front \in Seq(S) : \E ending : Ending(ending, C) /\ u = front \o ending
    BY <1>2 DEF Starts
  <2>2. PICK ending : Ending(ending, C) /\ u = front \o ending
    BY <2>1
  <2>3. PICK E : ending \in Seq(E)
    BY <2>2, EndingIsSeq
  <2>4. s \in Seq(S)
    BY SeqGrows
  <2>5. /\ s \in Seq(S \cup E) /\ front \in Seq(S \cup E) /\ ending \in Seq(S \cup E)
    BY <2>1, <2>3, <2>4, SeqGrows
  <2>6. s \o u = (s \o front) \o ending /\ s \o front \in Seq(S)
    BY SMTT(60), <2>1, <2>2, <2>4, <2>5, ConcatAssoc, ConcatIn
  <2>7. QED
    BY <2>2, <2>6 DEF Starts
<1>3. QED
  BY <1>1, <1>2

LEMMA StartsAreSeqs ==
    ASSUME NEW C, NEW F, NEW s, Starts(s, C, F)
    PROVE  \E E : s \in Seq(E)
<1>1. PICK front \in Seq(Quiet(C, F) \cup StartingSteps(C)) :
         \E ending : Ending(ending, C) /\ s = front \o ending
  BY DEF Starts
<1>2. PICK ending : Ending(ending, C) /\ s = front \o ending
  BY <1>1
<1>3. PICK E : ending \in Seq(E)
  BY <1>2, EndingIsSeq
<1> DEFINE U == Quiet(C, F) \cup StartingSteps(C) \cup E
<1>4. front \in Seq(U) /\ ending \in Seq(U)
  BY <1>1, <1>3, SeqGrows
<1>5. QED
  BY <1>2, <1>4, ConcatIn

LEMMA EachStep ==
    ASSUME TypeOK, TodoInv, PerformEach
    PROVE  TodoInv'
<1>1. todo # <<>> /\ Head(todo).op = "each"
  BY DEF PerformEach, At
<1> DEFINE items == Head(todo).items
<1>2. items \subseteq Seq(Flat(Calm, Task \ ready))
  BY <1>1, HeadFacts DEF HeadFact, TypeOK
<1>3. PICK item \in items : todo' = item \o Each(items \ {item}) \o Tail(todo)
  BY DEF PerformEach
<1>4. item \o Each(items \ {item}) \in Seq(Quiet(Calm, Task \ ready))
  BY <1>2, EachIsQuiet, FlatIsQuiet, ConcatIn
<1>5. UNCHANGED <<Calm, ready, wf>>
  BY DEF PerformEach, Calm, Alive, storeVars, fieldVars, workerVars, loopVars
<1>6. \/ Records(Tail(todo), Calm, Task \ ready)
      \/ wf = "running" /\ Starts(Tail(todo), Calm, Task \ ready)
  BY <1>1, TailAllowed
<1>7. QED
  BY <1>3, <1>4, <1>5, <1>6, QuietBefore DEF TodoInv

(* the approval is looked at again: it starts if it is still ready *)
LEMMA DecideStep ==
    ASSUME TypeOK, TodoInv, WorkerInv, PerformDecide
    PROVE  TodoInv'
<1>1. todo # <<>> /\ Head(todo).op = "decide"
  BY DEF PerformDecide, At
<1> DEFINE r == Head(todo).request
           C == Calm
           F == Task \ ready
           first == IF state[r.task] # "ready" THEN <<>>
                    ELSE IF r.type = "approve"
                         THEN <<StartComputed(r.task)>> \o AcceptComputed(r.task)
                         ELSE <<Block(r.task)>>
<1>2. /\ r \in Request /\ r.task \in Task /\ r.task \notin ready
      /\ Node[r.task].kind = "approval"
  BY <1>1, HeadFacts DEF HeadFact, TypeOK
<1>3. state[r.task] = "ready" => r.task \in C
  BY <1>2, RestingIsCalm
<1>4. r.task \in C => <<StartComputed(r.task)>> \o AcceptComputed(r.task) \in Seq(Flat(C, F))
  <2>1. r.task \in C => StartComputed(r.task) \in Flat(C, F)
    BY <1>2 DEF StartComputed, Flat, ApprovalSteps
  <2>2. r.task \in C => AcceptComputed(r.task) \in Seq(Flat(C, F))
    BY CalmIsTask, VerdictScripts
  <2>3. QED
    BY <2>1, <2>2, OneIn, ConcatIn
<1>5. <<Block(r.task)>> \in Seq(Flat(C, F)) /\ <<>> \in Seq(Flat(C, F))
  BY <1>2, PlainIsFlat, OneIn, EmptyIn
<1>6. first \in Seq(Quiet(C, F))
  BY <1>3, <1>4, <1>5, FlatIsQuiet
<1>7. todo' = first \o Tail(todo) /\ UNCHANGED <<Calm, ready, wf>>
  BY DEF PerformDecide, Calm, Alive, storeVars, fieldVars, workerVars, loopVars
<1>8. QED
  BY <1>1, <1>6, <1>7, TailAllowed, QuietBefore DEF TodoInv

LEMMA RefusedStep ==
    ASSUME TypeOK, TodoInv, PerformReserveRefused \/ PerformReserveRefusedRepeat
    PROVE  TodoInv'
<1>1. CASE PerformReserveRefused
  BY <1>1, EmptyRecords DEF PerformReserveRefused, TodoInv
<1>2. CASE PerformReserveRefusedRepeat
  <2>1. todo # <<>> /\ Head(todo).op = "reserve" /\ todo' = FailSteps(Head(todo).by)
    BY <1>2 DEF PerformReserveRefusedRepeat, ReserveRefused, At
  <2>2. Head(todo).by \in Calm
    BY <2>1, HeadFacts DEF HeadFact, TypeOK
  <2>3. Records(todo', Calm, Task \ ready)
    BY <2>1, <2>2, CalmIsTask, VerdictScripts, FlatIsQuiet, QuietRecords
  <2>4. ready' = ready /\ UNCHANGED <<future, pid, procs>>
    BY <1>2 DEF PerformReserveRefusedRepeat, fieldVars, workerVars, loopVars
  <2>5. QED
    BY <2>3, <2>4, ScriptWritten DEF TypeOK
<1>3. QED
  BY <1>1, <1>2

(* The next iteration of a repeat node: its child is new, or pending. *)
LEMMA IterateStep ==
    ASSUME TypeOK, TodoInv, WorkerInv, PerformIterate
    PROVE  TodoInv'
<1>1. todo # <<>> /\ Head(todo).op = "iterate"
  BY DEF PerformIterate, At
<1>2. wf = "running" /\ Ending(todo, Calm)
  BY <1>1, HeadFacts DEF HeadFact, TypeOK
<1>3. PICK t \in Calm, n \in Nat \ {0} : todo = <<Iterating(t, n)>>
  BY <1>1, <1>2, EndingShape DEF Launching, Driving
<1>4. t \in Task /\ Head(todo).root = t /\ Head(todo).n = n /\ Tail(todo) = <<>>
  BY <1>3, CalmIsTask DEF Iterating
<1> DEFINE C == Calm
           F == Task \ ready
           Fronts == Seq(Quiet(C, F) \cup StartingSteps(C))
           more == n <= Len(Node[t].iterations)
           child == Node[t].iterations[n]
           before == IF n = 1 THEN {} ELSE {Node[t].iterations[n - 1]}
           add == IF state[child] = "absent"
                  THEN <<[op |-> "add", task |-> child, on |-> before]>> ELSE <<>>
           go == add \o <<Move(child, "ready")>> \o StartSteps(child, t)
           out == <<Submitting(child), Driving(t, n)>>
<1>5. UNCHANGED <<Calm, ready, wf>>
  BY DEF PerformIterate, Calm, Alive, storeVars, fieldVars, workerVars, loopVars
<1>6. C \in SUBSET Task
  BY CalmIsTask
<1>7. FailSteps(t) \in Seq(Quiet(C, F))
  BY <1>3, <1>6, VerdictScripts, FlatIsQuiet
<1>8. ASSUME more, state[child] \in {"absent", "pending"} PROVE Starts(go \o out, C, F)
  <2>1. /\ Node[t].iterations \in Seq(Task \ {t})
        /\ n \in 1..Len(Node[t].iterations)
    BY <1>3, <1>4, <1>8, RuntimeAssumption
  <2>2. child \in Task /\ child # t /\ before \subseteq Task
    BY <2>1
  <2>3. child \notin ready
    BY <1>8, <2>2 DEF WorkerInv, WorkerOf
  <2>4. child \in C
    BY <1>8, <2>2, <2>3, RestingIsCalm
  <2>5. add \in Seq(Flat(C, F))
    BY <2>2, PlainIsFlat, OneIn, EmptyIn
  <2>6. <<Move(child, "ready")>> \in Seq(Flat(C, F))
    BY <2>4, MovesAreFlat, OneIn DEF TaskState
  <2> DEFINE first == add \o <<Move(child, "ready")>>
  <2>7. first \in Fronts
    <3>1. add \in Fronts /\ <<Move(child, "ready")>> \in Fronts
      BY <1>6, <2>4, <2>5, <2>6, FlatIsQuiet, StartingFront
    <3>2. QED
      BY <3>1, ConcatIn
  <2>8. Waits(child, <<Driving(t, n)>>, C)
    BY <1>3, <2>1, <2>2 DEF Waits, IsIteration
  <2>9. out = <<Submitting(child)>> \o <<Driving(t, n)>>
    <3>1. out = <<Submitting(child)>> \o <<Driving(t, n)>>
      BY Pair
    <3>2. QED
      BY <3>1
  <2>10. go \o <<>> = go
    <3>1. StartSteps(child, t) \in Fronts
      BY <1>3, <1>6, <2>4, StartingFront
    <3>2. first \o StartSteps(child, t) \in Fronts
      BY <2>7, <3>1, ConcatIn
    <3>3. QED
      BY <3>2, EmptyFront
  <2> HIDE DEF first, add
  <2>11. Starts(((first \o StartSteps(child, t)) \o <<>>) \o (<<Submitting(child)>> \o <<Driving(t, n)>>), C, F)
    BY <1>3, <1>6, <2>4, <2>7, <2>8, HandoverScript
  <2>12. QED
    BY <2>9, <2>10, <2>11 DEF first
<1>9. todo' = IF more /\ state[child] \in {"absent", "pending"}
              THEN go \o out ELSE FailSteps(t)
  <2>1. todo' = (IF more /\ state[child] \in {"absent", "pending"}
                   THEN go \o out ELSE FailSteps(t)) \o <<>>
    BY <1>4 DEF PerformIterate, Submitting, Driving
  <2>2. FailSteps(t) \o <<>> = FailSteps(t)
    BY <1>7, EmptyFront
  <2>3. more /\ state[child] \in {"absent", "pending"} => (go \o out) \o <<>> = go \o out
    BY <1>8, StartsAreSeqs, EmptyFront
  <2>4. QED
    BY <2>1, <2>2, <2>3
<1>10. QED
  BY <1>2, <1>5, <1>7, <1>8, <1>9, QuietRecords DEF TodoInv

-----------------------------------------------------------------------------
(* A task is handed to a worker thread. *)

LEMMA EndingStarts ==
    ASSUME NEW C, NEW F, NEW e, Ending(e, C)
    PROVE  Starts(e, C, F)
<1>1. <<>> \o e = e
  BY EndingIsSeq, EmptyFront
<1>2. Starts(<<>> \o e, C, F)
  BY EmptyIn, FrontStarts
<1>3. QED
  BY <1>1, <1>2

LEMMA SubmitStep ==
    ASSUME RuntimeInv, PerformSubmit
    PROVE  RuntimeInv'
<1>1. todo # <<>> /\ Head(todo).op = "submit" /\ TypeOK
  BY DEF PerformSubmit, At, RuntimeInv
<1>2. wf = "running" /\ Handing(todo)
  BY <1>1, HeadFacts DEF HeadFact, TypeOK, RuntimeInv
<1>3. PICK c \in Calm : state[c] = "running" /\ Hands(c, todo, Calm)
  BY <1>2 DEF Handing
<1>4. Head(todo) = Submitting(c) /\ Waits(c, Tail(todo), Calm)
  BY <1>1, <1>3, HandsShape DEF Preparing
<1>5. /\ future' = [future EXCEPT ![c] = "queued"] /\ todo' = Tail(todo)
      /\ UNCHANGED <<storeVars, fieldVars, controlVars, loopVars, procs, processes, envVars>>
  <2>1. Head(todo).task = c
    BY <1>4 DEF Submitting
  <2>2. QED
    BY <2>1 DEF PerformSubmit, Pop
<1>6. Calm \ {c} \subseteq Calm' /\ c \in Task
  BY <1>1, <1>3, <1>5 DEF Calm, Alive, fieldVars, loopVars, TypeOK
<1>7. TodoInv'
  <2>1. Waits(c, todo', Calm')
    BY <1>4, <1>5, <1>6 DEF Waits
  <2>2. Ending(todo', Calm')
    BY <1>6, <2>1 DEF Waits, Ending
  <2>3. QED
    BY <1>2, <1>5, <2>2, EndingStarts DEF TodoInv, storeVars
<1>8. TypeOK'
  BY <1>1, <1>5, <1>6 DEF TypeOK, StoreTypeOK, storeVars, fieldVars, controlVars, loopVars, envVars
<1>9. WorkerInv'
  <2>1. UNCHANGED <<state, attempt, pid, procs, ready, pc, wf, crashes>> /\ WorkerInv
    BY <1>5 DEF storeVars, fieldVars, loopVars, envVars, RuntimeInv
  <2>2. LoopInv'
    BY <1>1, <2>1 DEF WorkerInv, LoopInv
  <2>3. ASSUME NEW u \in Task PROVE WorkerOf(u)'
    BY <1>1, <1>3, <1>5, <2>1 DEF WorkerInv, WorkerOf, Alive, Ended, Calm, TypeOK
  <2>4. QED
    BY <2>2, <2>3 DEF WorkerInv
<1>10. Watched'
  BY <1>1, <1>3, <1>5, <1>6 DEF Watched, RuntimeInv, Calm, TypeOK, storeVars, envVars
<1>11. QED
  BY <1>7, <1>8, <1>9, <1>10 DEF RuntimeInv

-----------------------------------------------------------------------------
(* An ended worker is collected: its task is calm again. *)

LEMMA CollectedKeeps ==
    ASSUME TypeOK, WorkerInv, Watched, NEW u \in Task, Ended(u),
           future' = [future EXCEPT ![u] = "none"],
           UNCHANGED <<state, attempt, pid, procs, ready, crashes, wf>>,
           pc' # "off", ready # {} => pc' = "launch"
    PROVE  WorkerInv' /\ Watched' /\ Calm \subseteq Calm' /\ u \in Calm'
<1> USE DEF TypeOK, StoreTypeOK
<1>1. LoopInv'
  BY DEF WorkerInv, LoopInv
<1>2. ASSUME NEW v \in Task PROVE WorkerOf(v)'
  BY DEF WorkerInv, WorkerOf, Alive, Ended
<1>3. Watched'
  BY DEF Watched, Ended
<1>4. Calm \subseteq Calm' /\ u \in Calm'
  BY DEF WorkerInv, WorkerOf, Calm, Alive, Ended
<1>5. QED
  BY <1>1, <1>2, <1>3, <1>4 DEF WorkerInv

LEMMA CollectScript ==
    ASSUME TypeOK, CollectFuture
    PROVE  \E t \in Task : \E steps :
              /\ Collect(t, steps)
              /\ \A C \in SUBSET Task : \A F : t \in C => Records(steps, C, F)
<1>1. PICK t \in Task :
          \/ CollectCancelled(t) \/ CollectAccepted(t) \/ CollectDenied(t)
          \/ CollectRejected(t) \/ CollectExhausted(t) \/ CollectFailed(t)
          \/ CollectUnfinished(t)
  BY DEF CollectFuture
<1> DEFINE Sound(s) == \A C \in SUBSET Task : \A F : t \in C => s \in Seq(Flat(C, F))
<1>2. SUFFICES \E steps : Collect(t, steps) /\ Sound(steps)
  BY FlatIsQuiet, QuietRecords
<1>3. /\ Sound(<<ClearPid(t)>>) /\ Sound(CompleteSteps(t)) /\ Sound(<<>>)
      /\ \A f \in Fingerprint : /\ Sound(<<Update(t, f)>>)
                                /\ Sound(Escalate(t, f)) /\ Sound(MaybeRetry(t, f))
      /\ \A to \in TaskState : Sound(<<Move(t, to), Release(t)>>)
      /\ \A to \in TaskState, f \in Fingerprint : Sound(<<Fail(t, to, f), Release(t)>>)
  BY CompleteScript, VerdictScripts, RetryScripts, EmptyIn
<1>4. \A r, s : Sound(r) /\ Sound(s) => Sound(r \o s)
  BY ConcatIn
<1>5. Sound(<<ClearPid(t), Move(t, "budget_exhausted"), Release(t)>>)
  <2>1. \A C \in SUBSET Task : \A F : t \in C => /\ ClearPid(t) \in Flat(C, F)
                                                  /\ Move(t, "budget_exhausted") \in Flat(C, F)
                                                  /\ Release(t) \in Flat(C, F)
    BY MovesAreFlat, PlainIsFlat DEF ClearPid, TypeOK, TaskState
  <2>2. QED
    BY <2>1
<1>6. {"accepted", "rejected", "failed"} \subseteq TaskState
  BY DEF TaskState
<1> HIDE DEF Sound
<1>7. CASE CollectCancelled(t)
  BY <1>3, <1>7 DEF CollectCancelled
<1>8. CASE CollectAccepted(t) \/ CollectDenied(t)
  BY <1>3, <1>4, <1>6, <1>8 DEF CollectAccepted, CollectDenied
<1>9. CASE CollectRejected(t)
  BY <1>3, <1>4, <1>6, <1>9 DEF CollectRejected
<1>10. CASE CollectExhausted(t)
  BY <1>5, <1>10 DEF CollectExhausted
<1>11. CASE CollectFailed(t)
  BY <1>3, <1>4, <1>6, <1>11 DEF CollectFailed
<1>12. CASE CollectUnfinished(t)
  BY <1>3, <1>4, <1>12 DEF CollectUnfinished
<1>13. QED
  BY <1>1, <1>7, <1>8, <1>9, <1>10, <1>11, <1>12

LEMMA CollectStep ==
    ASSUME RuntimeInv, CollectFuture
    PROVE  RuntimeInv'
<1>0. PICK t \in Task :
         \E steps : /\ Collect(t, steps)
                    /\ \A C \in SUBSET Task : \A F : t \in C => Records(steps, C, F)
  BY CollectScript DEF RuntimeInv
<1>1. PICK steps : /\ Collect(t, steps)
                   /\ \A C \in SUBSET Task : \A F : t \in C => Records(steps, C, F)
  BY <1>0
<1>2. /\ pc = "wait" /\ Ended(t) /\ pc' \in {"wait", "top"} /\ todo' = steps
      /\ future' = [future EXCEPT ![t] = "none"]
      /\ UNCHANGED <<storeVars, fieldVars, controlVars, envVars, procs, processes, ready,
                     batch, progress, error>>
  BY <1>1 DEF Collect, Idle, unchangedByMain
<1>3. WorkerInv' /\ Watched' /\ t \in Calm'
  BY <1>2, CollectedKeeps DEF RuntimeInv, WorkerInv, LoopInv, storeVars, fieldVars, envVars
<1>4. TypeOK'
  BY <1>2 DEF RuntimeInv, TypeOK, StoreTypeOK, storeVars, fieldVars, controlVars, envVars
<1>5. TodoInv'
  <2>1. Calm' \in SUBSET Task
    BY DEF Calm
  <2>2. Records(todo', Calm', Task \ ready')
    BY <1>1, <1>2, <1>3, <2>1
  <2>3. QED
    BY <2>2 DEF TodoInv
<1>6. QED
  BY <1>3, <1>4, <1>5 DEF RuntimeInv

(* The wait of a repeat node ends: its child is collected in the main loop. *)
Drives == DriveAccepted \/ DriveRejected \/ DriveExhausted \/ DriveRaised \/ DriveUnfinished

LEMMA DriveHead ==
    ASSUME TypeOK, TodoInv, At("drive")
    PROVE  \E t \in Calm : \E n \in Nat \ {0} :
              /\ todo = <<Driving(t, n)>> /\ IsIteration(t, n)
              /\ Head(todo).root = t /\ Head(todo).n = n /\ Tail(todo) = <<>>
              /\ wf = "running" /\ t \in Task /\ Child \in Task \ {t}
<1>1. wf = "running" /\ Ending(todo, Calm) /\ todo # <<>> /\ Head(todo).op = "drive"
  BY HeadFacts DEF HeadFact, At, TypeOK
<1>2. PICK t \in Calm, n \in Nat \ {0} : todo = <<Driving(t, n)>> /\ IsIteration(t, n)
  BY <1>1, EndingShape DEF Launching, Iterating
<1>3. Head(todo).root = t /\ Head(todo).n = n /\ Tail(todo) = <<>> /\ t \in Task
  BY <1>2, CalmIsTask DEF Driving
<1>4. Child \in Task \ {t}
  <2>1. Node[t].iterations \in Seq(Task \ {t})
    BY <1>3, RuntimeAssumption
  <2>2. Node[t].iterations[n] \in Task \ {t}
    BY <1>2, <2>1 DEF IsIteration
  <2>3. QED
    BY <1>3, <2>2 DEF Child
<1>5. QED
  BY <1>1, <1>2, <1>3, <1>4

LEMMA DriveScript ==
    ASSUME TypeOK, Drives, NEW t, Head(todo).root = t, NEW n \in Nat, Head(todo).n = n,
           NEW C \in SUBSET Task, NEW F, t \in C, Child \in C
    PROVE  \E steps : Drive(steps) /\ (Records(steps, C, F) \/ Starts(steps, C, F))
<1> DEFINE u == Child
           Quiets == Seq(Quiet(C, F))
<1>1. /\ <<ClearPid(u)>> \in Quiets /\ CompleteSteps(u) \in Quiets
      /\ AcceptComputed(t) \in Quiets /\ FailSteps(t) \in Quiets
      /\ \A to \in TaskState : <<Move(u, to), Release(u)>> \in Quiets
  BY CompleteScript, VerdictScripts, FlatIsQuiet
<1>2. \A r, s \in Quiets : r \o s \in Quiets
  BY ConcatIn
<1>3. <<ClearPid(u), Move(u, "budget_exhausted"), Release(u)>> \in Quiets
  <2>1. /\ ClearPid(u) \in Flat(C, F) /\ Move(u, "budget_exhausted") \in Flat(C, F)
        /\ Release(u) \in Flat(C, F)
    BY MovesAreFlat, PlainIsFlat DEF ClearPid, TypeOK, TaskState
  <2>2. QED
    BY <2>1 DEF Quiet
<1>4. {"accepted", "rejected"} \subseteq TaskState
  BY DEF TaskState
<1>5. \A s \in Quiets : Records(s, C, F)
  BY QuietRecords
<1>6. \A s \in Quiets : Starts(s \o Iterate(t, n + 1), C, F)
  <2>1. Ending(Iterate(t, n + 1), C)
    BY DEF Ending, Iterate, Iterating
  <2>2. Starts(Iterate(t, n + 1), C, F)
    BY <2>1, EndingStarts
  <2>3. QED
    BY <2>2, QuietBefore
<1> HIDE DEF Quiets
<1>7. CASE DriveAccepted
  <2>1. PICK next \in {AcceptComputed(t), Iterate(t, n + 1), FailSteps(t)} :
           Drive(CompleteSteps(u) \o <<Move(u, "accepted"), Release(u)>> \o next)
    BY <1>7 DEF DriveAccepted
  <2>2. CompleteSteps(u) \o <<Move(u, "accepted"), Release(u)>> \in Quiets
    BY <1>1, <1>2, <1>4
  <2> HIDE DEF u
  <2>3. QED
    BY <1>1, <1>2, <1>5, <1>6, <2>1, <2>2
<1>8. CASE DriveRejected \/ DriveRaised \/ DriveUnfinished
  BY <1>1, <1>2, <1>4, <1>5, <1>8 DEF DriveRejected, DriveRaised, DriveUnfinished
<1>9. CASE DriveExhausted
  BY <1>1, <1>2, <1>3, <1>5, <1>9 DEF DriveExhausted
<1>10. QED
  BY <1>7, <1>8, <1>9 DEF Drives

LEMMA DriveStep ==
    ASSUME RuntimeInv, Drives
    PROVE  RuntimeInv'
<1>1. At("drive") /\ Ended(Child)
  BY DEF Drives, DriveAccepted, DriveRejected, DriveExhausted, DriveRaised, DriveUnfinished, Drive
<1>2. PICK t \in Calm, n \in Nat \ {0} :
         /\ Head(todo).root = t /\ Head(todo).n = n /\ Tail(todo) = <<>>
         /\ wf = "running" /\ t \in Task /\ Child \in Task
  BY <1>1, DriveHead DEF RuntimeInv
<1>3. /\ future' = [future EXCEPT ![Child] = "none"]
      /\ UNCHANGED <<storeVars, fieldVars, controlVars, envVars, procs, processes, loopVars>>
  BY DEF Drives, DriveAccepted, DriveRejected, DriveExhausted, DriveRaised, DriveUnfinished,
         Drive, unchangedByMain
<1>4. WorkerInv' /\ Watched' /\ t \in Calm' /\ Child \in Calm'
  <2>1. pc' # "off" /\ (ready # {} => pc' = "launch")
    BY <1>1, <1>3 DEF At, RuntimeInv, WorkerInv, LoopInv, loopVars
  <2>2. UNCHANGED <<state, attempt, pid, procs, ready, crashes, wf>>
    BY <1>3 DEF storeVars, fieldVars, loopVars, envVars
  <2>3. WorkerInv' /\ Watched' /\ Calm \subseteq Calm' /\ Child \in Calm'
    BY <1>1, <1>2, <1>3, <2>1, <2>2, CollectedKeeps DEF RuntimeInv
  <2>4. QED
    BY <1>2, <2>3
<1>5. TypeOK'
  <2>1. TypeOK
    BY DEF RuntimeInv
  <2>2. QED
    BY <1>2, <1>3, <2>1 DEF TypeOK, StoreTypeOK, storeVars, fieldVars, controlVars, envVars, loopVars
<1>6. TodoInv'
  <2> DEFINE C == Calm'
             F == Task \ ready'
  <2>1. C \in SUBSET Task
    BY DEF Calm
  <2>2. n \in Nat /\ TypeOK /\ t \in C /\ Child \in C
    BY <1>4 DEF RuntimeInv
  <2> HIDE DEF C, F
  <2>3. PICK steps : Drive(steps) /\ (Records(steps, C, F) \/ Starts(steps, C, F))
    BY <1>2, <2>1, <2>2, DriveScript
  <2>4. todo' = steps
    <3>1. todo' = steps \o <<>>
      BY <1>2, <2>3 DEF Drive
    <3>2. \E E : steps \in Seq(E)
      BY <2>3, StartsAreSeqs DEF Records
    <3>3. QED
      BY <3>1, <3>2, EmptyFront
  <2>5. wf' = "running"
    BY <1>2, <1>3 DEF storeVars
  <2>6. QED
    BY <2>3, <2>4, <2>5 DEF TodoInv, C, F
<1>7. QED
  BY <1>4, <1>5, <1>6 DEF RuntimeInv

-----------------------------------------------------------------------------
(* The worker threads and the environment. *)

(* a step of a worker thread: it changes the record of its own task only, and *)
(* only while that task has a worker                                         *)
LEMMA WorkerKeeps ==
    ASSUME RuntimeInv, NEW t \in Task, Worker(t)
    PROVE  RuntimeInv'
<1>1. TypeOK /\ WorkerOf(t) /\ future[t] # "none"
  BY DEF RuntimeInv, WorkerInv, Worker, Spawn, SpawnFails, Register, RecordPid, Finish
<1>2. /\ UNCHANGED <<storeVars, controlVars, loopVars, todo, envVars, fingerprint, terra, worktree>>
      /\ \E f \in {"spawned", "registered", "live", "done", "raised"} :
            future' = [future EXCEPT ![t] = f]
      /\ UNCHANGED pid \/ pid' = [pid EXCEPT ![t] = attempt[t]]
      /\ processes' \subseteq processes \cup {t}
      /\ \/ procs' \subseteq procs \cup {<<t, attempt[t]>>}
      /\ \A u \in Task \ {t} : \A n : <<u, n>> \in procs' => <<u, n>> \in procs
  BY DEF Worker, Spawn, SpawnFails, Register, RecordPid, Finish, unchangedByWorker, fieldVars
<1>3. TypeOK'
  BY <1>1, <1>2 DEF TypeOK, StoreTypeOK, storeVars, controlVars, loopVars, envVars
<1>4. \A u \in Task \ {t} : Alive(u)' => Alive(u)
  BY <1>1, <1>2 DEF Alive, TypeOK
<1>5. TodoInv'
  <2>1. Calm \subseteq Calm'
    BY <1>1, <1>2, <1>4 DEF Calm, TypeOK, loopVars
  <2>2. QED
    BY <1>2, <2>1, TodoStays DEF RuntimeInv, storeVars, loopVars
<1>6. WorkerInv'
  <2>1. LoopInv'
    <3>1. Running' \subseteq Running
      BY <1>1, <1>2 DEF Running, TypeOK
    <3>2. QED
      BY <1>2, <3>1 DEF RuntimeInv, WorkerInv, LoopInv, loopVars, envVars, storeVars
  <2>2. ASSUME NEW u \in Task \ {t} PROVE WorkerOf(u)'
    BY <1>1, <1>2, <1>4 DEF RuntimeInv, WorkerInv, WorkerOf, Ended, TypeOK, storeVars, loopVars
  <2>3. WorkerOf(t)'
    BY <1>1 DEF WorkerOf, Worker, Spawn, SpawnFails, Register, RecordPid, Finish, Ended, Alive,
       TypeOK, StoreTypeOK, storeVars, fieldVars, unchangedByWorker, loopVars
  <2>4. QED
    BY <2>1, <2>2, <2>3 DEF WorkerInv
<1>7. Watched'
  <2>1. SUFFICES ASSUME crashes = 0, NEW p \in procs'
                 PROVE  /\ future'[p[1]] \in {"spawned", "registered", "live"}
                        /\ p[2] = attempt[p[1]]
    BY <1>2 DEF Watched, envVars, storeVars
  <2>2. p \in procs => /\ future[p[1]] \in {"spawned", "registered", "live"}
                       /\ p[2] = attempt[p[1]]
    BY <2>1 DEF RuntimeInv, Watched
  <2>3. p \in Task \X Nat
    BY <1>3 DEF TypeOK
  <2>4. p \in procs \/ p = <<t, attempt[t]>>
    BY <1>2
  <2>5. CASE p[1] # t
    BY <1>1, <1>2, <2>2, <2>3, <2>4, <2>5 DEF TypeOK
  <2>6. CASE p[1] = t
    <3>1. p = <<t, attempt[t]>>
      BY <2>2, <2>3, <2>4, <2>6
    <3>2. QED
      BY <1>1, <2>2, <3>1 DEF Worker, Spawn, SpawnFails, Register, RecordPid, Finish, TypeOK
  <2>7. QED
    BY <2>5, <2>6
<1>8. QED
  BY <1>3, <1>5, <1>6, <1>7 DEF RuntimeInv

(* steps that touch neither a task nor a worker thread *)
LEMMA ElsewhereKeeps ==
    ASSUME RuntimeInv, TypeOK', procs' \subseteq procs,
           UNCHANGED <<wf, state, attempt, pid, future, pc, todo, ready, crashes>>
    PROVE  RuntimeInv'
<1>1. \A u \in Task : Alive(u)' => Alive(u)
  BY DEF Alive
<1>2. TodoInv'
  BY <1>1, TodoStays DEF RuntimeInv, Calm
<1>3. WorkerInv'
  BY <1>1 DEF RuntimeInv, WorkerInv, LoopInv, Running, WorkerOf, Ended
<1>4. Watched'
  BY DEF RuntimeInv, Watched
<1>5. QED
  BY <1>2, <1>3, <1>4 DEF RuntimeInv

LEMMA EnvironmentKeeps ==
    ASSUME RuntimeInv,
           (\E t \in Task : ReportUsage(t)) \/ (\E r \in Request : Submit(r)) \/ OrphanExits
               \/ UNCHANGED vars
    PROVE  RuntimeInv'
<1> USE DEF storeVars, fieldVars, workerVars, controlVars, loopVars, envVars, unchangedByWorker
<1>1. CASE \E t \in Task : ReportUsage(t)
  <2>1. PICK n \in UsageDeltas : RecordUsage(n)
    BY <1>1 DEF ReportUsage
  <2>2. UNCHANGED <<fieldVars, workerVars, unchangedByWorker>>
    BY <1>1 DEF ReportUsage
  <2>3. TypeOK'
    BY <2>1, <2>2, RuntimeAssumption DEF RuntimeInv, TypeOK, StoreTypeOK, RecordUsage
  <2>4. QED
    BY <2>1, <2>2, <2>3, ElsewhereKeeps DEF RecordUsage
<1>2. CASE \E r \in Request : Submit(r)
  <2>1. PICK r \in Request : Submit(r)
    BY <1>2
  <2>2. TypeOK'
    BY <2>1 DEF Submit, RuntimeInv, TypeOK, StoreTypeOK
  <2>3. QED
    BY <2>1, <2>2, ElsewhereKeeps DEF Submit
<1>3. CASE OrphanExits
  <2>1. TypeOK' /\ procs' \subseteq procs
    BY <1>3 DEF OrphanExits, RuntimeInv, TypeOK, StoreTypeOK
  <2>2. QED
    BY <1>3, <2>1, ElsewhereKeeps DEF OrphanExits
<1>4. CASE UNCHANGED vars
  <2>1. TypeOK'
    BY <1>4 DEF vars, RuntimeInv, TypeOK, StoreTypeOK
  <2>2. QED
    BY <1>4, <2>1, ElsewhereKeeps DEF vars
<1>5. QED
  BY <1>1, <1>2, <1>3, <1>4

(* A run ends, or the runtime process dies: its threads are gone, and their  *)
(* tasks keep their states.                                                  *)
LEMMA EndKeeps ==
    ASSUME RuntimeInv, Close \/ Crash
    PROVE  RuntimeInv'
<1> USE DEF storeVars, fieldVars, workerVars, controlVars, loopVars, envVars, unchangedByMain
<1>1. /\ UNCHANGED <<storeVars, fieldVars, controlVars, procs, branch>>
      /\ future' = [t \in Task |-> "none"] /\ pc' = "off" /\ todo' = <<>>
      /\ ready' = {} /\ processes' \subseteq processes
      /\ batch' \subseteq batch /\ (progress' = progress \/ progress' = FALSE) /\ error' \in {error, "none"}
      /\ crashes' \in 0..MaxCrashes
  <2>1. MaxCrashes \in Nat /\ crashes \in 0..MaxCrashes
    BY RuntimeAssumption DEF RuntimeInv, WorkerInv, LoopInv
  <2>2. CASE Close
    <3>1. pc = "closing" /\ ready = {}
      BY <2>2 DEF Close, Idle, RuntimeInv, WorkerInv, LoopInv
    <3>2. QED
      BY <2>1, <2>2, <3>1 DEF Close, Idle
  <2>3. CASE Crash
    BY <2>1, <2>3 DEF Crash
  <2>4. QED
    BY <2>2, <2>3
<1>2. TypeOK'
  BY <1>1 DEF RuntimeInv, TypeOK, StoreTypeOK
<1>3. TodoInv'
  BY <1>1, EmptyRecords DEF TodoInv
<1>4. WorkerInv'
  BY <1>1, RuntimeAssumption DEF Close, Crash, RuntimeInv, WorkerInv, LoopInv, WorkerOf, Running,
     Ended, Alive
<1>5. Watched'
  <2>1. CASE Close
    <3>1. crashes' = crashes /\ \A t \in Running : Ended(t)
      BY <2>1 DEF Close
    <3>2. crashes = 0 => procs = {}
      BY <3>1 DEF RuntimeInv, Watched, Running, Ended, TypeOK
    <3>3. QED
      BY <1>1, <3>1, <3>2 DEF Watched
  <2>2. CASE Crash
    BY <1>1, <2>2 DEF Crash, Watched, RuntimeInv, WorkerInv, LoopInv
  <2>3. QED
    BY <2>1, <2>2
<1>6. QED
  BY <1>2, <1>3, <1>4, <1>5 DEF RuntimeInv

-----------------------------------------------------------------------------
(* Every step keeps the invariant. *)

LEMMA PoppingKeeps ==
    ASSUME RuntimeInv, Popping
    PROVE  RuntimeInv'
<1>1. PopShape /\ Effect /\ TypeOK'
  BY PoppingShape DEF RuntimeInv
<1>2. WorkerInv' /\ Watched' /\ Calm \subseteq Calm'
  BY <1>1, EffectKeeps DEF RuntimeInv
<1>3. TodoInv'
  BY <1>1, <1>2, PopKeeps DEF PopShape, Effect, RuntimeInv
<1>4. QED
  BY <1>1, <1>2, <1>3 DEF RuntimeInv

LEMMA ScriptingKeeps ==
    ASSUME RuntimeInv, Scripting
    PROVE  RuntimeInv'
<1>1. TypeOK /\ WorkerInv /\ LoopInv /\ Watched
  BY DEF RuntimeInv, WorkerInv
<1>2. /\ UNCHANGED <<storeVars, fieldVars, controlVars, workerVars, envVars>>
      /\ pc' \in Places /\ error' \in Errors
      /\ batch' \subseteq Request /\ progress' \in BOOLEAN
      /\ ReadyStep
  BY <1>1, ScriptingShape
<1>3. ready' \subseteq Task
  BY <1>1, <1>2 DEF ReadyStep, TypeOK
<1>4. TypeOK'
  BY <1>1, <1>2, <1>3 DEF TypeOK, StoreTypeOK, Places, Errors, storeVars, fieldVars, controlVars,
     workerVars, envVars
<1>5. TodoInv'
  BY <1>1, BootScript, RefreshStep, HandleStep, QuietStepTodo, LaunchStep DEF Scripting
<1>6. WorkerInv'
  <2>1. LoopInv'
    BY <1>1, <1>2 DEF LoopInv, ReadyStep, Places, storeVars, envVars
  <2>2. ASSUME NEW t \in Task PROVE WorkerOf(t)'
    BY <1>1, <1>2 DEF WorkerInv, WorkerOf, ReadyStep, Ended, Alive, storeVars, fieldVars, workerVars
  <2>3. QED
    BY <2>1, <2>2 DEF WorkerInv
<1>7. Watched'
  BY <1>1, <1>2 DEF Watched, storeVars, workerVars, envVars
<1>8. QED
  BY <1>4, <1>5, <1>6, <1>7 DEF RuntimeInv

LEMMA RescriptingKeeps ==
    ASSUME RuntimeInv, Rescripting
    PROVE  RuntimeInv'
<1>1. TypeOK /\ TodoInv /\ WorkerInv /\ Watched /\ todo # <<>>
  BY DEF RuntimeInv, Rescripting, PerformReserveRefused, PerformReserveRefusedRepeat,
     ReserveRefused, PerformEach, PerformDecide, PerformIterate, At
<1>2. /\ UNCHANGED <<storeVars, fieldVars, controlVars, workerVars, envVars>>
      /\ \/ UNCHANGED loopVars
         \/ /\ ready' = {} /\ batch' = {} /\ progress' = FALSE
            /\ pc' = "closing" /\ error' = "budget"
  BY DEF Rescripting, PerformReserveRefused, PerformReserveRefusedRepeat, PerformEach,
     PerformDecide, PerformIterate
<1>3. TypeOK'
  BY <1>1, <1>2 DEF TypeOK, StoreTypeOK, storeVars, fieldVars, controlVars, workerVars, envVars,
     loopVars
<1>4. TodoInv'
  BY <1>1, EachStep, DecideStep, RefusedStep, IterateStep DEF Rescripting
<1>5. WorkerInv'
  <2>1. LoopInv'
    BY <1>1, <1>2 DEF WorkerInv, LoopInv, loopVars, storeVars, envVars
  <2>2. ASSUME NEW t \in Task PROVE WorkerOf(t)'
    BY <1>1, <1>2 DEF WorkerInv, WorkerOf, Ended, Alive, loopVars, storeVars, fieldVars, workerVars
  <2>3. QED
    BY <2>1, <2>2 DEF WorkerInv
<1>6. Watched'
  BY <1>1, <1>2 DEF Watched, storeVars, workerVars, envVars
<1>7. QED
  BY <1>3, <1>4, <1>5, <1>6 DEF RuntimeInv

LEMMA RuntimeInvStarts == Init => RuntimeInv
<1> SUFFICES ASSUME Init PROVE RuntimeInv
  OBVIOUS
<1> USE DEF Init, StoreInit
<1>1. StoreTypeOK
  BY StoreAssumption DEF StoreTypeOK, WorkflowState, TaskState
<1>2. TypeOK
  BY <1>1, RuntimeAssumption DEF TypeOK
<1>3. TodoInv
  BY EmptyRecords DEF TodoInv
<1>4. WorkerInv /\ Watched
  BY RuntimeAssumption DEF WorkerInv, LoopInv, WorkerOf, Running, Ended, Alive, Watched
<1>5. QED
  BY <1>2, <1>3, <1>4 DEF RuntimeInv

LEMMA RuntimeInvKept == RuntimeInv /\ [Next]_vars => RuntimeInv'
<1> SUFFICES ASSUME RuntimeInv, [Next]_vars PROVE RuntimeInv'
  OBVIOUS
<1>1. CASE Popping
  BY <1>1, PoppingKeeps
<1>2. CASE PerformSubmit
  BY <1>2, SubmitStep
<1>3. CASE Rescripting
  BY <1>3, RescriptingKeeps
<1>4. CASE Scripting
  BY <1>4, ScriptingKeeps
<1>5. CASE CollectFuture
  BY <1>5, CollectStep
<1>6. CASE Drives
  BY <1>6, DriveStep
<1>7. CASE Close \/ Crash
  BY <1>7, EndKeeps
<1>8. CASE \E t \in Task : Worker(t)
  BY <1>8, WorkerKeeps
<1>9. CASE (\E t \in Task : ReportUsage(t)) \/ (\E r \in Request : Submit(r)) \/ OrphanExits
             \/ UNCHANGED vars
  BY <1>9, EnvironmentKeeps
<1>10. Perform => Popping \/ PerformSubmit \/ Rescripting
  BY DEF Perform, Popping, Rescripting
<1>11. QED
  BY <1>1, <1>2, <1>3, <1>4, <1>5, <1>6, <1>7, <1>8, <1>9, <1>10
     DEF Next, Main, Scripting, Repeat, Drives, Rescripting

LEMMA RuntimeInvAlways == Spec => []RuntimeInv
<1>1. QED
  BY RuntimeInvStarts, RuntimeInvKept, PTL DEF Spec

-----------------------------------------------------------------------------
(* What follows from it. *)

(* The state of the main loop, of its threads and of the store keeps its     *)
(* shape, whatever run() does (workflow.py, scheduler.py, recovery.py).      *)
THEOREM RuntimeTypeCorrect == Spec => []TypeOK
BY RuntimeInvAlways, PTL DEF RuntimeInv

(* A worker that lives and whose pid is in the journal keeps its task,       *)
(* through every crash, recovery, retry and request: the task is running, or *)
(* was cancelled by an operator (reconcile, _run_one, on_process).           *)
THEOREM LiveWorkerKeepsIt == Spec => []LiveWorkerKeepsItsTask
<1>1. RuntimeInv => LiveWorkerKeepsItsTask
  BY DEF RuntimeInv, WorkerInv, WorkerOf, LiveWorkerKeepsItsTask
<1>2. QED
  BY <1>1, RuntimeInvAlways, PTL

(* Without a crash of the runtime no task ever has two live worker processes *)
(* (run, _run_one).                                                          *)
THEOREM OneWorkerAtATime ==
    ASSUME MaxCrashes = 0
    PROVE  Spec => []OneWorkerPerTask
<1>1. RuntimeInv => OneWorkerPerTask
  <2> SUFFICES ASSUME RuntimeInv, NEW p \in procs, NEW q \in procs, p[1] = q[1]
               PROVE  p = q
    BY DEF OneWorkerPerTask
  <2>1. crashes = 0
    BY DEF RuntimeInv, WorkerInv, LoopInv
  <2>2. p[2] = attempt[p[1]] /\ q[2] = attempt[q[1]]
    BY <2>1 DEF RuntimeInv, Watched
  <2>3. p \in Task \X Nat /\ q \in Task \X Nat
    BY DEF RuntimeInv, TypeOK
  <2>4. QED
    BY <2>2, <2>3
<1>2. QED
  BY <1>1, RuntimeInvAlways, PTL

(* what StartsOnlyWhileRunning says of one step *)
StartsInRun ==
    \A t \in Task :
        /\ future'[t] = "queued" /\ future[t] # "queued" => wf = "running"
        /\ attempt'[t] > attempt[t] /\ Node[t].kind # "approval" => wf = "running"

LEMMA StartsStep == RuntimeInv /\ [Next]_vars => StartsInRun
<1> SUFFICES ASSUME RuntimeInv, [Next]_vars PROVE StartsInRun
  OBVIOUS
<1>1. TypeOK /\ future \in [Task -> {"none", "queued", "spawned", "registered", "live", "done",
                                     "raised"}]
             /\ attempt \in [Task -> Nat] /\ TodoInv /\ WorkerInv
  BY DEF RuntimeInv, TypeOK, StoreTypeOK
<1>2. UNCHANGED attempt /\ (\A t \in Task : future'[t] = "queued" => future[t] = "queued")
         => StartsInRun
  BY <1>1 DEF StartsInRun
<1>3. CASE Popping
  <2>1. Effect
    BY <1>1, <1>3, PoppingShape
  <2>2. UNCHANGED future
    BY <2>1 DEF Effect
  <2>3. CASE UNCHANGED attempt
    BY <1>2, <2>2, <2>3
  <2>4. CASE \E t \in Calm : /\ wf = "running" \/ Node[t].kind = "approval"
                             /\ attempt' = [attempt EXCEPT ![t] = @ + 1]
    BY <1>1, <2>2, <2>4, CalmIsTask DEF StartsInRun
  <2>5. QED
    BY <2>1, <2>3, <2>4 DEF Effect
<1>4. CASE PerformSubmit
  <2>1. wf = "running" /\ UNCHANGED attempt
    BY <1>1, <1>4, HeadFacts DEF PerformSubmit, At, HeadFact, TypeOK, storeVars
  <2>2. QED
    BY <1>1, <2>1 DEF StartsInRun
<1>5. CASE Scripting \/ Rescripting
  <2>1. UNCHANGED <<attempt, future>>
    BY <1>1, <1>5, ScriptingShape
       DEF WorkerInv, Rescripting, PerformReserveRefused, PerformReserveRefusedRepeat,
           PerformEach, PerformDecide, PerformIterate, storeVars, workerVars
  <2>2. QED
    BY <1>2, <2>1
<1>6. CASE CollectFuture \/ Drives
  <2>1. UNCHANGED attempt /\ \E u : future' = [future EXCEPT ![u] = "none"]
    <3>1. CASE CollectFuture
      <4>1. PICK t, steps : Collect(t, steps)
        BY <1>1, <3>1, CollectScript
      <4>2. QED
        BY <4>1 DEF Collect, unchangedByMain, storeVars
    <3>2. CASE Drives
      BY <3>2 DEF Drives, DriveAccepted, DriveRejected, DriveExhausted, DriveRaised,
         DriveUnfinished, Drive, unchangedByMain, storeVars
    <3>3. QED
      BY <1>6, <3>1, <3>2
  <2>2. QED
    BY <1>1, <1>2, <2>1
<1>7. CASE Close \/ Crash
  BY <1>1, <1>2, <1>7 DEF Close, Crash, unchangedByMain, storeVars
<1>8. CASE \E t \in Task : Worker(t)
  BY <1>1, <1>2, <1>8 DEF Worker, Spawn, SpawnFails, Register, RecordPid, Finish, storeVars
<1>9. CASE (\E t \in Task : ReportUsage(t)) \/ (\E r \in Request : Submit(r)) \/ OrphanExits
             \/ UNCHANGED vars
  BY <1>2, <1>9 DEF ReportUsage, RecordUsage, Submit, OrphanExits, vars, storeVars, workerVars
<1>10. Perform => Popping \/ PerformSubmit \/ Rescripting
  BY DEF Perform, Popping, Rescripting
<1>11. QED
  BY <1>3, <1>4, <1>5, <1>6, <1>7, <1>8, <1>9, <1>10
     DEF Next, Main, Scripting, Repeat, Drives, Rescripting

(* Pausing and cancelling stop the scheduling (_handle_control): no agent    *)
(* attempt starts, and no worker thread is submitted, unless the workflow    *)
(* runs.                                                                     *)
THEOREM StartsInRunOnly == Spec => StartsOnlyWhileRunning
<1>1. RuntimeInv /\ [Next]_vars => [StartsInRun]_vars
  BY StartsStep
<1>2. QED
  BY <1>1, RuntimeInvAlways, PTL DEF Spec, StartsOnlyWhileRunning, StartsInRun

=============================================================================
