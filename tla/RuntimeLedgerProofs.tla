------------------------- MODULE RuntimeLedgerProofs -------------------------
(***************************************************************************)
(* Proof that the main loop, its workers and its recovery (module Runtime) *)
(* keep the journal's contract (module Ledger), for every workflow that    *)
(* normalize_workflow lets through; and the algebra of the scripts the     *)
(* handlers write, with what each of them does to the states it meets.     *)
(***************************************************************************)
EXTENDS RuntimeProofs

LP == INSTANCE LedgerProofs WITH
        Reserve <- [t \in Task |-> Node[t].reserve],
        MaxAttempts <- [t \in Task |-> Node[t].max_attempts]

-----------------------------------------------------------------------------
(* Scripts: sequences of steps in which one that needs the effect of another *)
(* comes right after it.                                                     *)
Over == {"accepted", "rejected", "failed", "budget_exhausted", "interrupted", "cancelled"}

Free(y) ==
    /\ y.op \notin {"release", "escalate", "reserve", "launch"}
    /\ y.op = "move" => y.to # "retry_wait"
Feeds(x, y) ==
    \/ y.op = "release" /\ x.op \in {"move", "fail"} /\ x.task = y.task /\ x.to \in Over
    \/ y.op = "escalate" /\ x.op = "release" /\ x.task = y.task
    \/ /\ y.op = "move" /\ y.to = "retry_wait"
       /\ x.op \in {"release", "escalate"} /\ x.task = y.task
    \/ y.op = "reserve" /\ x.op = "move" /\ x.task = y.task /\ x.to = "ready"
    \/ y.op = "launch" /\ x.op = "reserve" /\ x.task = y.task
Link(x, y) == Free(y) \/ Feeds(x, y)

Scripts(S) == {s \in Seq(S) : \A i \in 1..Len(s) : i + 1 \in 1..Len(s) => Link(s[i], s[i + 1])}
FreeScripts(S) == {s \in Scripts(S) : s # <<>> => Free(Head(s))}

(* what the first step needs of the state *)
Needs(y) ==
    /\ y.op \in {"release", "escalate"} => state[y.task] \in Over
    /\ y.op = "move" /\ y.to = "retry_wait" => state[y.task] \in Over
    /\ y.op = "reserve" => state[y.task] = "ready"
    /\ y.op = "launch" => ReserveKey(y.task, attempt[y.task] + 1) \in keys
HeadNeeds == todo # <<>> => Needs(Head(todo))

-----------------------------------------------------------------------------
(* The iterations of repeat nodes, and the one before each.                  *)
Iteration == {i \in Task : \E t \in Task : \E n \in DOMAIN Node[t].iterations :
                              i = Node[t].iterations[n]}
Before(i) ==
    {u \in Task : \E t \in Task : \E n \in DOMAIN Node[t].iterations :
        n > 1 /\ i = Node[t].iterations[n] /\ u = Node[t].iterations[n - 1]}
Accepted(ts) == \A t \in ts : state[t] = "accepted"

(* a task that may be made ready: what it depends on is accepted, or will be *)
(* once it is added                                                          *)
Opens(t) ==
    /\ state[t] = "pending" => Accepted(deps[t])
    /\ state[t] = "absent" => Accepted(Before(t))

(* The steps of a script, with what each needs of the state for as long as   *)
(* it waits: in every script, in those that start no attempt and may retry,  *)
(* and in the others.                                                        *)
Unlisted == Task \ ready
InRun(ts) == {t \in ts : wf = "running"}

SharedSteps ==
    [op : {"move"}, task : Unlisted, to : Over \cup {"completed", "verifying"}]
        \cup [op : {"move"}, task : {t \in Unlisted : Opens(t)}, to : {"ready"}]
        \cup [op : {"fail"}, task : Unlisted, to : Over, fp : Fingerprint]
        \cup [op : {"update"}, task : Task, fp : Fingerprint \cup {NoFingerprint}]
        \cup [op : {"release", "escalate", "kill"}, task : Task]
        \cup [op : {"block"}, task : Unlisted]
        \cup [op : {"processed", "archive"}, request : Request]
RetrySteps ==
    SharedSteps
        \cup [op : {"move"}, task : {t \in Unlisted : attempt[t] < Node[t].max_attempts},
              to : {"retry_wait"}]
        \cup [op : {"workflow"}, to : WorkflowState \ {"succeeded"}]
LaunchSteps ==
    SharedSteps
        \cup [op : {"move"}, task : {t \in Unlisted : state[t] # "retry_wait"}, to : {"blocked"}]
        \cup [op : {"start", "worktree", "submit"}, task : Unlisted]
        \cup [op : {"decide"}, request : {r \in Request : r.task \in Unlisted}]
        \cup [op : {"reserve"}, task : InRun(Unlisted), by : Unlisted]
        \cup [op : {"launch"}, task : InRun(Unlisted)]
        \cup [op : {"iterate", "drive"}, root : InRun(Unlisted), n : Nat \ {0}]
        \cup {[op |-> "add", task |-> i, on |-> Before(i)] :
                i \in {j \in InRun(Iteration) : Before(j) \subseteq Present}}

\* a loop starts no iteration of a repeat node
Plain(S) == {x \in S : x.op # "iterate"}
Looped(S) == S \cup [op : {"each"}, items : SUBSET FreeScripts(Plain(S))]

-----------------------------------------------------------------------------
(* The expansion of a map: its children are added, then its reducers wait    *)
(* for them, while the map runs.                                             *)
Adding(t, u) == [op |-> "add", task |-> u, on |-> {t}]
Depending(t, r) == [op |-> "depend", task |-> r, on |-> Node[t].children]
AddAll(t, us) == Each({<<Adding(t, u)>> : u \in us})
DependAll(t, rs) == Each({<<Depending(t, r)>> : r \in rs})
Linking(t, rs) == DependAll(t, rs) \o AcceptComputed(t)
Expansion(t, us) == AddAll(t, us) \o Linking(t, Node[t].reduce)
Added(t, us) == Node[t].children \ us \subseteq Present

Expanding(t) ==
    \/ state[t] = "ready" /\ todo = <<StartComputed(t)>> \o Expansion(t, Node[t].children)
    \/ /\ state[t] = "running"
       /\ \E us \in SUBSET Node[t].children : us # {} /\ Added(t, us) /\ todo = Expansion(t, us)
    \/ /\ state[t] = "running"
       /\ \E us \in SUBSET Node[t].children : \E u \in Node[t].children :
             Added(t, us \cup {u}) /\ todo = <<Adding(t, u)>> \o Expansion(t, us)
    \/ /\ state[t] = "running" /\ Added(t, {})
       /\ \E rs \in SUBSET Node[t].reduce : rs # {} /\ todo = Linking(t, rs)
    \/ /\ state[t] = "running" /\ Added(t, {})
       /\ \E rs \in SUBSET Node[t].reduce : \E r \in Node[t].reduce :
             todo = <<Depending(t, r)>> \o Linking(t, rs)

MayConclude ==
    /\ \A t \in Task : state[t] \in {"absent", "accepted", "blocked"}
    /\ \E t \in Task : state[t] = "accepted"

Scripted ==
    \/ todo \in Scripts(Looped(RetrySteps))
    \/ todo \in Scripts(Looped(LaunchSteps))
    \/ MayConclude /\ todo = <<Workflow("succeeded")>>
    \/ wf = "running" /\ \E t \in Unlisted : Node[t].kind = "map" /\ Expanding(t)

(* an iteration after the first comes when the one before it is accepted *)
StepsOf(s) == {s[i] : i \in DOMAIN s}
Follows(t, n, s) ==
    n > 1 => /\ n - 1 \in DOMAIN Node[t].iterations
             /\ \/ state[Node[t].iterations[n - 1]] = "accepted"
                \/ Move(Node[t].iterations[n - 1], "accepted") \in StepsOf(s)
Iterates == \A x \in StepsOf(todo) : x.op = "iterate" => Follows(x.root, x.n, todo)

TaskFacts ==
    /\ \A t \in Static : state[t] # "absent" /\ StaticDeps[t] \subseteq deps[t]
    /\ \A i \in Iteration : state[i] # "absent" => deps[i] \subseteq Before(i)
    /\ \A t \in ready : state[t] = "ready"
    /\ \A t \in Task : state[t] # "paused"

LedgerInv == Scripted /\ HeadNeeds /\ Iterates /\ TaskFacts

-----------------------------------------------------------------------------
(* Scripts are put together and taken apart. *)

LEMMA OneStep == ASSUME NEW x PROVE StepsOf(<<x>>) = {x}
BY DEF StepsOf

LEMMA JoinedAt ==
    ASSUME NEW S, NEW s \in Seq(S), NEW t \in Seq(S)
    PROVE  /\ s \o t \in Seq(S) /\ Len(s \o t) = Len(s) + Len(t)
           /\ \A i \in 1..Len(s) : (s \o t)[i] = s[i]
           /\ \A i \in 1..Len(t) : (s \o t)[Len(s) + i] = t[i]
OBVIOUS

LEMMA ScriptJoin ==
    ASSUME NEW S, NEW s \in Scripts(S), NEW t \in Scripts(S),
           s # <<>> /\ t # <<>> => Link(s[Len(s)], t[1])
    PROVE  s \o t \in Scripts(S)
<1>1. s \in Seq(S) /\ t \in Seq(S) /\ Len(s) \in Nat /\ Len(t) \in Nat
  BY DEF Scripts
<1> DEFINE u == s \o t
<1>2. /\ u \in Seq(S) /\ Len(u) = Len(s) + Len(t)
      /\ \A i \in 1..Len(s) : u[i] = s[i]
      /\ \A i \in 1..Len(t) : u[Len(s) + i] = t[i]
  BY <1>1, JoinedAt
<1> HIDE DEF u
<1>3. \A i \in 1..Len(s) : i + 1 \in 1..Len(s) => Link(s[i], s[i + 1])
  BY DEF Scripts
<1>4. \A i \in 1..Len(t) : i + 1 \in 1..Len(t) => Link(t[i], t[i + 1])
  BY DEF Scripts
<1>5. ASSUME NEW i \in 1..Len(u), i + 1 \in 1..Len(u)
      PROVE  Link(u[i], u[i + 1])
  <2>1. CASE i + 1 \in 1..Len(s)
    BY <1>1, <1>2, <1>3, <2>1
  <2>2. CASE i = Len(s)
    <3>1. 1 \in 1..Len(t) /\ i \in 1..Len(s)
      BY <1>1, <1>2, <1>5, <2>2
    <3>2. u[i] = s[Len(s)] /\ u[i + 1] = t[1]
      BY <1>2, <2>2, <3>1
    <3>3. s # <<>> /\ t # <<>>
      BY <1>1, <3>1
    <3>4. QED
      BY <3>2, <3>3
  <2>3. CASE i > Len(s)
    <3> DEFINE j == i - Len(s)
    <3>1. j \in 1..Len(t) /\ j + 1 \in 1..Len(t) /\ i = Len(s) + j /\ i + 1 = Len(s) + (j + 1)
      BY <1>1, <1>2, <1>5, <2>3
    <3> HIDE DEF j
    <3>2. u[i] = t[j] /\ u[i + 1] = t[j + 1]
      BY <1>2, <3>1
    <3>3. QED
      BY <1>4, <3>1, <3>2
  <2>4. QED
    BY <1>1, <1>2, <1>5, <2>1, <2>2, <2>3
<1>6. QED
  BY <1>2, <1>5 DEF Scripts, u

LEMMA FreeJoin ==
    ASSUME NEW S, NEW s \in Scripts(S), NEW t \in FreeScripts(S)
    PROVE  /\ s \o t \in Scripts(S)
           /\ s \in FreeScripts(S) => s \o t \in FreeScripts(S)
<1>1. s \in Seq(S) /\ t \in Seq(S) /\ t \in Scripts(S)
  BY DEF Scripts, FreeScripts
<1>2. t # <<>> => Free(t[1])
  BY <1>1 DEF FreeScripts
<1>3. s \o t \in Scripts(S)
  BY <1>1, <1>2, ScriptJoin DEF Link
<1>4. CASE s = <<>>
  <2>1. s \o t = t
    BY <1>1, <1>4
  <2>2. QED
    BY <1>3, <2>1
<1>5. CASE s # <<>>
  <2>1. Head(s \o t) = Head(s)
    BY <1>1, <1>5, FrontFirst
  <2>2. QED
    BY <1>3, <1>5, <2>1 DEF FreeScripts
<1>6. QED
  BY <1>4, <1>5

LEMMA NoScript == ASSUME NEW S PROVE <<>> \in FreeScripts(S)
BY DEF FreeScripts, Scripts

LEMMA OneScript ==
    ASSUME NEW S, NEW x \in S
    PROVE  <<x>> \in Scripts(S) /\ (Free(x) => <<x>> \in FreeScripts(S))
<1> DEFINE s == <<x>>
<1>1. s \in Seq(S) /\ Len(s) = 1 /\ Head(s) = x
  BY OneIn
<1> HIDE DEF s
<1>2. s \in Scripts(S)
  <2>1. \A i \in 1..Len(s) : ~(i + 1 \in 1..Len(s))
    BY <1>1
  <2>2. QED
    BY <1>1, <2>1 DEF Scripts
<1>3. Free(x) => s \in FreeScripts(S)
  BY <1>1, <1>2 DEF FreeScripts
<1>4. QED
  BY <1>2, <1>3 DEF s

LEMMA TwoScript ==
    ASSUME NEW S, NEW x \in S, NEW y \in S, Link(x, y)
    PROVE  <<x, y>> \in Scripts(S) /\ (Free(x) => <<x, y>> \in FreeScripts(S))
<1> DEFINE s == <<x, y>>
<1>1. s \in Seq(S) /\ Len(s) = 2 /\ Head(s) = x /\ s[1] = x /\ s[2] = y
  BY TwoIn
<1> HIDE DEF s
<1>2. s \in Scripts(S)
  <2>1. \A i \in 1..Len(s) : i + 1 \in 1..Len(s) => i = 1 /\ i + 1 = 2
    BY <1>1
  <2>2. \A i \in 1..Len(s) : i + 1 \in 1..Len(s) => Link(s[i], s[i + 1])
    BY <1>1, <2>1
  <2>3. QED
    BY <1>1, <2>2 DEF Scripts
<1>3. Free(x) => s \in FreeScripts(S)
  BY <1>1, <1>2 DEF FreeScripts
<1>4. QED
  BY <1>2, <1>3 DEF s

LEMMA ThreeScript ==
    ASSUME NEW S, NEW x \in S, NEW y \in S, NEW z \in S, Link(x, y), Link(y, z)
    PROVE  <<x, y, z>> \in Scripts(S) /\ (Free(x) => <<x, y, z>> \in FreeScripts(S))
<1> DEFINE s == <<x, y, z>>
<1>1. s \in Seq(S) /\ Len(s) = 3 /\ Head(s) = x /\ s[1] = x /\ s[2] = y /\ s[3] = z
  OBVIOUS
<1> HIDE DEF s
<1>2. s \in Scripts(S)
  <2>1. \A i \in 1..Len(s) : i + 1 \in 1..Len(s) => (i = 1 /\ i + 1 = 2) \/ (i = 2 /\ i + 1 = 3)
    BY <1>1
  <2>2. \A i \in 1..Len(s) : i + 1 \in 1..Len(s) => Link(s[i], s[i + 1])
    BY <1>1, <2>1
  <2>3. QED
    BY <1>1, <2>2 DEF Scripts
<1>3. Free(x) => s \in FreeScripts(S)
  BY <1>1, <1>2 DEF FreeScripts
<1>4. QED
  BY <1>2, <1>3 DEF s

LEMMA TailScript ==
    ASSUME NEW S, NEW s \in Scripts(S), s # <<>>
    PROVE  /\ Head(s) \in S /\ Tail(s) \in Scripts(S)
           /\ Tail(s) # <<>> => Link(Head(s), Head(Tail(s)))
           /\ Head(s).op \notin {"move", "fail", "release", "escalate", "reserve"}
                 => Tail(s) \in FreeScripts(S)
<1>1. s \in Seq(S) /\ Len(s) \in Nat \ {0} /\ Head(s) = s[1] /\ Head(s) \in S
  BY DEF Scripts
<1> DEFINE u == Tail(s)
<1>2. u \in Seq(S) /\ Len(u) = Len(s) - 1 /\ \A i \in 1..Len(u) : u[i] = s[i + 1]
  BY <1>1
<1>3. u # <<>> => Head(u) = s[2] /\ 2 \in 1..Len(s)
  BY <1>1, <1>2
<1> HIDE DEF u
<1>4. \A i \in 1..Len(s) : i + 1 \in 1..Len(s) => Link(s[i], s[i + 1])
  BY DEF Scripts
<1>5. ASSUME NEW i \in 1..Len(u), i + 1 \in 1..Len(u) PROVE Link(u[i], u[i + 1])
  <2>1. i + 1 \in 1..Len(s) /\ (i + 1) + 1 \in 1..Len(s)
    BY <1>1, <1>2, <1>5
  <2>2. QED
    BY <1>2, <1>4, <1>5, <2>1
<1>6. u \in Scripts(S)
  BY <1>2, <1>5 DEF Scripts
<1>7. u # <<>> => Link(Head(s), Head(u))
  BY <1>1, <1>3, <1>4
<1>8. Head(s).op \notin {"move", "fail", "release", "escalate", "reserve"} => u \in FreeScripts(S)
  BY <1>6, <1>7 DEF FreeScripts, Link, Feeds
<1>9. QED
  BY <1>1, <1>6, <1>7, <1>8 DEF u

LEMMA ScriptsGrow ==
    ASSUME NEW S, NEW T, S \subseteq T
    PROVE  /\ Scripts(S) \subseteq Scripts(T) /\ FreeScripts(S) \subseteq FreeScripts(T)
           /\ Looped(S) \subseteq Looped(T)
           /\ Scripts(Looped(S)) \subseteq Scripts(Looped(T))
           /\ FreeScripts(S) \subseteq FreeScripts(Looped(S))
           /\ Scripts(S) \subseteq Scripts(Looped(S))
<1>1. ASSUME NEW A, NEW B, A \subseteq B
      PROVE  Scripts(A) \subseteq Scripts(B) /\ FreeScripts(A) \subseteq FreeScripts(B)
  <2>1. Seq(A) \subseteq Seq(B)
    BY <1>1, SeqGrows
  <2>2. QED
    BY <2>1 DEF Scripts, FreeScripts
<1>2. /\ FreeScripts(S) \subseteq FreeScripts(T)
      /\ FreeScripts(Plain(S)) \subseteq FreeScripts(Plain(T))
  BY <1>1 DEF Plain
<1>3. Looped(S) \subseteq Looped(T)
  BY <1>2 DEF Looped
<1>4. S \subseteq Looped(S)
  BY DEF Looped
<1>5. QED
  BY <1>1, <1>3, <1>4

LEMMA EachScript ==
    ASSUME NEW S, NEW items \in SUBSET FreeScripts(Plain(S))
    PROVE  Each(items) \in FreeScripts(Looped(S))
<1> DEFINE x == [op |-> "each", items |-> items]
<1>1. x \in Looped(S) /\ Free(x)
  BY DEF Looped, Free
<1>2. <<x>> \in FreeScripts(Looped(S))
  <2> HIDE DEF x
  <2> QED
    BY <1>1, OneScript
<1>3. QED
  BY <1>2, NoScript DEF Each

-----------------------------------------------------------------------------
(* What a step may do to the tasks for the steps that wait behind it to be   *)
(* possible still.                                                           *)
Onward ==
    /\ ready' \subseteq ready
    /\ \A t \in Task :
        /\ state[t] = "accepted" => state'[t] = "accepted"
        /\ state'[t] = "absent" => state[t] = "absent"
        /\ state'[t] = "pending" => \/ state[t] = "pending" /\ deps'[t] = deps[t]
                                    \/ state[t] = "absent" /\ deps'[t] \subseteq Before(t)

LEMMA OpensStays ==
    ASSUME StoreTypeOK, Onward, NEW t \in Task, Opens(t)
    PROVE  Opens(t)'
<1>1. ASSUME NEW ts \in SUBSET Task, Accepted(ts) PROVE Accepted(ts)'
  BY <1>1 DEF Accepted, Onward
<1>2. deps[t] \in SUBSET Task /\ Before(t) \in SUBSET Task
  BY DEF StoreTypeOK, Before
<1>3. Accepted(Before(t)) => Accepted(Before(t))'
  BY <1>1, <1>2
<1>4. Accepted(deps[t]) => \A u \in deps[t] : state'[u] = "accepted"
  BY <1>2 DEF Accepted, Onward
<1>5. state'[t] = "pending" => \A u \in deps'[t] : state'[u] = "accepted"
  <2>1. CASE state[t] = "pending"
    BY <1>4, <2>1 DEF Opens, Onward
  <2>2. CASE state[t] = "absent"
    BY <1>3, <2>2 DEF Opens, Onward, Accepted
  <2>3. QED
    BY <2>1, <2>2 DEF Onward
<1>6. state'[t] = "absent" => Accepted(Before(t))'
  BY <1>3 DEF Opens, Onward
<1>7. QED
  BY <1>5, <1>6 DEF Opens, Accepted

LEMMA UnlistedStays ==
    ASSUME Onward PROVE Unlisted \subseteq Unlisted'
BY DEF Onward, Unlisted

LEMMA SharedGrow ==
    ASSUME StoreTypeOK, Onward
    PROVE  SharedSteps \subseteq SharedSteps'
<1>1. /\ Unlisted \subseteq Unlisted'
      /\ {t \in Unlisted : Opens(t)} \subseteq {t \in Unlisted : Opens(t)}'
  <2>1. \A t \in Unlisted : t \in Task
    BY DEF Unlisted
  <2>2. QED
    BY <2>1, UnlistedStays, OpensStays
<1> DEFINE O == {t \in Unlisted : Opens(t)}
<1> HIDE DEF O
<1>2. QED
  BY <1>1 DEF SharedSteps, O

LEMMA RetryGrow ==
    ASSUME StoreTypeOK, Onward, attempt' = attempt
    PROVE  RetrySteps \subseteq RetrySteps'
<1>1. SharedSteps \subseteq SharedSteps' /\ Unlisted \subseteq Unlisted'
  BY SharedGrow, UnlistedStays
<1>2. QED
  BY <1>1 DEF RetrySteps

LEMMA LaunchGrow ==
    ASSUME StoreTypeOK, Onward, wf' = wf,
           \A t \in Task : state'[t] = "retry_wait" => state[t] = "retry_wait"
    PROVE  LaunchSteps \subseteq LaunchSteps'
<1>1. SharedSteps \subseteq SharedSteps' /\ Unlisted \subseteq Unlisted'
  BY SharedGrow, UnlistedStays
<1> DEFINE W == {t \in Unlisted : state[t] # "retry_wait"}
           D == {r \in Request : r.task \in Unlisted}
           R == InRun(Unlisted)
           A == {[op |-> "add", task |-> i, on |-> Before(i)] :
                   i \in {j \in InRun(Iteration) : Before(j) \subseteq Present}}
<1>2. W \subseteq W' /\ D \subseteq D' /\ R \subseteq R'
  BY <1>1 DEF InRun, Unlisted
<1>3. A \subseteq A'
  <2>1. \A i \in Task : Before(i) \in SUBSET Task
    BY DEF Before
  <2>2. \A i \in Task : Before(i) \subseteq Present => Before(i) \subseteq Present'
    BY <2>1 DEF Present, Onward
  <2>3. Iteration \subseteq Task
    BY DEF Iteration
  <2>4. \A i \in InRun(Iteration) : i \in InRun(Iteration)' /\ i \in Task
    BY <2>3 DEF InRun
  <2>5. QED
    BY <2>2, <2>4
<1> HIDE DEF W, D, R, A
<1>4. LaunchSteps = SharedSteps
        \cup [op : {"move"}, task : W, to : {"blocked"}]
        \cup [op : {"start", "worktree", "submit"}, task : Unlisted]
        \cup [op : {"decide"}, request : D]
        \cup [op : {"reserve"}, task : R, by : Unlisted]
        \cup [op : {"launch"}, task : R]
        \cup [op : {"iterate", "drive"}, root : R, n : Nat \ {0}] \cup A
  BY DEF LaunchSteps, W, D, R, A
<1>5. LaunchSteps' = SharedSteps'
        \cup [op : {"move"}, task : W', to : {"blocked"}]
        \cup [op : {"start", "worktree", "submit"}, task : Unlisted']
        \cup [op : {"decide"}, request : D']
        \cup [op : {"reserve"}, task : R', by : Unlisted']
        \cup [op : {"launch"}, task : R']
        \cup [op : {"iterate", "drive"}, root : R', n : Nat \ {0}] \cup A'
  BY DEF LaunchSteps, W, D, R, A
<1>6. QED
  BY <1>1, <1>2, <1>3, <1>4, <1>5

-----------------------------------------------------------------------------
(* The events of module Ledger, as the runtime's state makes them.           *)
LEMMA SameStore ==
    ASSUME NEW t \in Task
    PROVE  /\ \A to : L!TransitionTask(t, to) <=> TransitionTask(t, to)
           /\ \A n : L!TransitionToRunning(t, n) <=> TransitionToRunning(t, n)
           /\ \A ds : L!AddTask(t, ds) <=> AddTask(t, ds)
           /\ \A ds : L!UpdateDeps(t, ds) <=> UpdateDeps(t, ds)
           /\ \A n, k : L!ReserveBudget(t, n, k) <=> ReserveBudget(t, n, k)
           /\ \A n, k : L!ReleaseBudget(t, n, k) <=> ReleaseBudget(t, n, k)
           /\ \A to : L!TransitionWorkflow(to) <=> TransitionWorkflow(to)
           /\ \A n : L!RecordUsage(n) <=> RecordUsage(n)
           /\ \A n : L!ReserveKey(t, n) = ReserveKey(t, n)
           /\ \A n : L!RecoveryKey(t, n) = RecoveryKey(t, n)
           /\ \A n, m : L!ReleaseKey(t, n, m) = ReleaseKey(t, n, m)
<1>1. /\ \A to : L!TransitionTask(t, to) <=> TransitionTask(t, to)
      /\ \A n : L!TransitionToRunning(t, n) <=> TransitionToRunning(t, n)
  BY DEF L!TransitionTask, TransitionTask, L!TransitionToRunning, TransitionToRunning,
         L!CanTransitionTask, CanTransitionTask
<1>2. /\ \A ds : L!AddTask(t, ds) <=> AddTask(t, ds)
      /\ \A ds : L!UpdateDeps(t, ds) <=> UpdateDeps(t, ds)
      /\ \A n : L!RecordUsage(n) <=> RecordUsage(n)
  BY DEF L!AddTask, AddTask, L!UpdateDeps, UpdateDeps, L!RecordUsage, RecordUsage
<1>3. /\ \A n, k : L!ReserveBudget(t, n, k) <=> ReserveBudget(t, n, k)
      /\ \A n, k : L!ReleaseBudget(t, n, k) <=> ReleaseBudget(t, n, k)
  BY DEF L!ReserveBudget, ReserveBudget, L!ReleaseBudget, ReleaseBudget, L!FitsBudget, FitsBudget,
         L!storeVars, storeVars
<1>4. \A to : L!TransitionWorkflow(to) <=> TransitionWorkflow(to)
  BY DEF L!TransitionWorkflow, TransitionWorkflow, L!CanTransitionWorkflow, CanTransitionWorkflow
<1>5. /\ \A n : L!ReserveKey(t, n) = ReserveKey(t, n)
      /\ \A n : L!RecoveryKey(t, n) = RecoveryKey(t, n)
      /\ \A n, m : L!ReleaseKey(t, n, m) = ReleaseKey(t, n, m)
  BY DEF L!ReserveKey, ReserveKey, L!RecoveryKey, RecoveryKey, L!ReleaseKey, ReleaseKey
<1>6. QED
  BY <1>1, <1>2, <1>3, <1>4, <1>5

LEMMA LedgerConstants == LP!StoreAssumption /\ LP!TaskAssumption /\ LP!LedgerAssumption
<1>1. \A t \in Task : Node[t].reserve \in Nat \ {0} /\ Node[t].max_attempts \in Nat \ {0}
  BY RuntimeAssumption DEF NodeType
<1>2. QED
  BY <1>1, StoreAssumption, TaskAssumption, RuntimeAssumption
  DEF LP!StoreAssumption, LP!TaskAssumption, LP!IsFiniteSet, IsFiniteSet,
      LP!LedgerAssumption

\* the same events, in the module of the proofs about them
LEMMA SameEvents ==
    ASSUME [L!Next]_(L!storeVars)
    PROVE  [LP!Next]_(LP!storeVars)
<1>1. ASSUME NEW t \in Task, L!TaskEvent(t) PROVE LP!TaskEvent(t)
  <2> USE DEF LP!TransitionTask, L!TransitionTask, LP!CanTransitionTask, L!CanTransitionTask,
              LP!storeVars, L!storeVars, LP!DepsAccepted, L!DepsAccepted
  <2>1. CASE L!Expand(t) \/ L!AwaitChildren(t)
    BY <2>1 DEF L!Expand, LP!Expand, L!AwaitChildren, LP!AwaitChildren, L!AddTask, LP!AddTask,
                L!UpdateDeps, LP!UpdateDeps, LP!TaskEvent
  <2>2. CASE L!MakeReady(t) \/ L!Block(t)
    BY <2>2 DEF L!MakeReady, LP!MakeReady, L!Block, LP!Block, LP!TaskEvent
  <2>3. CASE L!ReserveAttempt(t)
    BY <2>3 DEF L!ReserveAttempt, LP!ReserveAttempt, L!ReserveBudget, LP!ReserveBudget,
                L!FitsBudget, LP!FitsBudget, L!ReserveKey, LP!ReserveKey, LP!TaskEvent
  <2>4. CASE L!StartReserved(t) \/ L!StartComputed(t)
    BY <2>4 DEF L!StartReserved, LP!StartReserved, L!StartComputed, LP!StartComputed,
                L!TransitionToRunning, LP!TransitionToRunning, L!ReserveKey, LP!ReserveKey,
                LP!TaskEvent
  <2>5. CASE L!Complete(t) \/ L!BeginVerify(t) \/ L!Accept(t) \/ L!Reject(t)
    BY <2>5 DEF L!Complete, LP!Complete, L!BeginVerify, LP!BeginVerify, L!Accept, LP!Accept,
                L!Reject, LP!Reject, LP!TaskEvent
  <2>6. CASE L!Fail(t) \/ L!Exhaust(t) \/ L!Interrupt(t) \/ L!Cancel(t)
    BY <2>6 DEF L!Fail, LP!Fail, L!Exhaust, LP!Exhaust, L!Interrupt, LP!Interrupt,
                L!Cancel, LP!Cancel, LP!TaskEvent
  <2>7. CASE L!WaitForRetry(t) \/ L!Requeue(t)
    BY <2>7 DEF L!WaitForRetry, LP!WaitForRetry, L!Retryable, LP!Retryable, L!Requeue, LP!Requeue,
                LP!TaskEvent
  <2>8. CASE L!ReleaseAttempt(t) \/ L!ReleaseInterrupted(t)
    BY <2>8 DEF L!ReleaseAttempt, LP!ReleaseAttempt, L!ReleaseInterrupted, LP!ReleaseInterrupted,
                L!ReleaseBudget, LP!ReleaseBudget, L!ReleaseKey, LP!ReleaseKey, L!RecoveryKey,
                LP!RecoveryKey, LP!TaskEvent
  <2>9. QED
    BY <1>1, <2>1, <2>2, <2>3, <2>4, <2>5, <2>6, <2>7, <2>8 DEF L!TaskEvent
<1>2. CASE L!ReportUsage
  BY <1>2 DEF L!ReportUsage, LP!ReportUsage, L!RecordUsage, LP!RecordUsage, LP!Next
<1>3. CASE L!Succeed \/ L!MoveWorkflow
  BY <1>3 DEF L!Succeed, LP!Succeed, L!MoveWorkflow, LP!MoveWorkflow, L!TransitionWorkflow,
              LP!TransitionWorkflow, L!CanTransitionWorkflow, LP!CanTransitionWorkflow,
              L!WorkflowState, LP!WorkflowState, LP!Next
<1>4. CASE UNCHANGED L!storeVars
  BY <1>4 DEF L!storeVars, LP!storeVars
<1>5. QED
  BY <1>1, <1>2, <1>3, <1>4 DEF L!Next, LP!Next

LEMMA GatedKept ==
    ASSUME StoreTypeOK, LP!Gated, [L!Next]_(L!storeVars)
    PROVE  LP!Gated'
<1>1. LP!TypeOK
  BY DEF LP!TypeOK, LP!StoreTypeOK, StoreTypeOK, LP!WorkflowState, WorkflowState, LP!TaskState,
         TaskState, LP!Key, Key
<1>2. QED
  BY <1>1, LedgerConstants, SameEvents, LP!GatedStep

-----------------------------------------------------------------------------
(* Each kind of append is an event of Ledger.                                *)
LEMMA MoveEvent ==
    ASSUME NEW t \in Task, NEW to \in Over \cup {"completed", "verifying"}, TransitionTask(t, to)
    PROVE  L!Next
<1>1. L!TransitionTask(t, to)
  BY SameStore
<1>2. \/ L!Complete(t) \/ L!BeginVerify(t) \/ L!Accept(t) \/ L!Reject(t)
      \/ L!Fail(t) \/ L!Exhaust(t) \/ L!Interrupt(t) \/ L!Cancel(t)
  BY <1>1 DEF Over, L!Complete, L!BeginVerify, L!Accept, L!Reject, L!Fail, L!Exhaust,
              L!Interrupt, L!Cancel
<1>3. QED
  BY <1>2 DEF L!Next, L!TaskEvent

LEMMA ReadyEvent ==
    ASSUME TaskFacts, NEW t \in Task, Opens(t), TransitionTask(t, "ready")
    PROVE  L!Next
<1>1. L!TransitionTask(t, "ready")
  BY SameStore
<1>2. state[t] \in {"pending", "retry_wait"}
  BY DEF TransitionTask, CanTransitionTask, TaskFacts
<1>3. state[t] = "pending" => L!DepsAccepted(t)
  BY DEF Opens, Accepted, L!DepsAccepted
<1>4. L!MakeReady(t) \/ L!Requeue(t)
  BY <1>1, <1>2, <1>3 DEF L!MakeReady, L!Requeue
<1>5. QED
  BY <1>4 DEF L!Next, L!TaskEvent

LEMMA RetryEvent ==
    ASSUME NEW t \in Task, state[t] \in Over, attempt[t] < Node[t].max_attempts,
           TransitionTask(t, "retry_wait")
    PROVE  L!Next
<1>1. L!TransitionTask(t, "retry_wait")
  BY SameStore
<1>2. L!Retryable(t)
  BY DEF TransitionTask, CanTransitionTask, Over, L!Retryable
<1>3. L!WaitForRetry(t)
  BY <1>1, <1>2 DEF L!WaitForRetry
<1>4. QED
  BY <1>3 DEF L!Next, L!TaskEvent

LEMMA BlockEvent ==
    ASSUME NEW t \in Task, state[t] # "retry_wait", TransitionTask(t, "blocked")
    PROVE  L!Next
<1>1. L!TransitionTask(t, "blocked")
  BY SameStore
<1>2. state[t] \in {"pending", "ready"}
  BY DEF TransitionTask, CanTransitionTask
<1>3. L!Block(t)
  BY <1>1, <1>2 DEF L!Block
<1>4. QED
  BY <1>3 DEF L!Next, L!TaskEvent

LEMMA StartEvent ==
    ASSUME NEW t \in Task, TransitionToRunning(t, reserved[t])
    PROVE  L!Next
BY SameStore DEF L!StartComputed, L!Next, L!TaskEvent

LEMMA LaunchEvent ==
    ASSUME NEW t \in Task, wf = "running", ReserveKey(t, attempt[t] + 1) \in keys,
           TransitionToRunning(t, Node[t].reserve)
    PROVE  L!Next
<1>1. L!StartReserved(t)
  BY SameStore DEF L!StartReserved
<1>2. QED
  BY <1>1 DEF L!Next, L!TaskEvent

LEMMA ReserveEvent ==
    ASSUME NEW t \in Task, wf = "running", state[t] = "ready",
           ReserveBudget(t, Node[t].reserve, ReserveKey(t, attempt[t] + 1))
    PROVE  L!Next
<1>1. L!ReserveAttempt(t)
  BY SameStore DEF L!ReserveAttempt
<1>2. QED
  BY <1>1 DEF L!Next, L!TaskEvent

LEMMA ReleaseEvent ==
    ASSUME StoreTypeOK, NEW t \in Task, state[t] \in Over, reserved[t] # 0,
           ReleaseBudget(t, reserved[t], ReleaseOf(t))
    PROVE  L!Next
<1>1. reserved[t] > 0
  BY DEF StoreTypeOK
<1>2. L!ReleaseAttempt(t) \/ L!ReleaseInterrupted(t)
  BY <1>1, SameStore DEF Over, ReleaseOf, L!ReleaseAttempt, L!ReleaseInterrupted
<1>3. QED
  BY <1>2 DEF L!Next, L!TaskEvent

LEMMA WorkflowEvent ==
    ASSUME NEW to \in WorkflowState, to # "succeeded" \/ MayConclude, TransitionWorkflow(to)
    PROVE  L!Next
<1>1. L!TransitionWorkflow(to)
  BY DEF L!TransitionWorkflow, TransitionWorkflow, L!CanTransitionWorkflow, CanTransitionWorkflow
<1>2. CASE to # "succeeded"
  BY <1>1, <1>2 DEF L!MoveWorkflow, L!WorkflowState, WorkflowState, L!Next
<1>3. CASE to = "succeeded"
  BY <1>1, <1>3 DEF L!Succeed, MayConclude, L!Next
<1>4. QED
  BY <1>2, <1>3

LEMMA AddEvent ==
    ASSUME NEW t \in Task, NEW ds \in SUBSET Present, wf = "running", AddTask(t, ds)
    PROVE  L!Next
<1>1. L!Expand(t)
  BY SameStore DEF L!Expand, Present
<1>2. QED
  BY <1>1 DEF L!Next, L!TaskEvent

LEMMA DependEvent ==
    ASSUME NEW t \in Task, NEW ds \in SUBSET Present, wf = "running", attempt[t] = 0,
           state[t] \in {"pending", "blocked", "cancelled"}, UpdateDeps(t, deps[t] \cup ds)
    PROVE  L!Next
<1>1. L!AwaitChildren(t)
  BY SameStore DEF L!AwaitChildren, Present
<1>2. QED
  BY <1>1 DEF L!Next, L!TaskEvent

-----------------------------------------------------------------------------
(* What a step of a script is.                                               *)
SharedStep(x) ==
    /\ x.op = "move" => /\ x.task \in Unlisted
                        /\ x.to \in Over \cup {"completed", "verifying", "ready", "retry_wait",
                                               "blocked"}
                        /\ x.to = "ready" => Opens(x.task)
    /\ x.op = "fail" => x.task \in Unlisted /\ x.to \in Over /\ x.fp \in Fingerprint
    /\ x.op \in {"release", "escalate"} => x.task \in Task
    /\ x.op = "block" => x.task \in Unlisted

RetryStep(x) ==
    /\ SharedStep(x)
    /\ x.op \in {"move", "fail", "update", "release", "escalate", "kill", "block", "processed",
                 "archive", "workflow", "each"}
    /\ x.op = "move" => /\ x.to # "blocked"
                        /\ x.to = "retry_wait" => attempt[x.task] < Node[x.task].max_attempts
    /\ x.op = "workflow" => x.to \in WorkflowState \ {"succeeded"}
    /\ x.op = "each" => x.items \subseteq FreeScripts(Plain(RetrySteps))

LaunchStepOf(x) ==
    /\ SharedStep(x)
    /\ x.op \in {"move", "fail", "update", "release", "escalate", "kill", "block", "processed",
                 "archive", "each", "start", "worktree", "submit", "decide", "reserve", "launch",
                 "iterate", "drive", "add"}
    /\ x.op = "move" => /\ x.to # "retry_wait"
                        /\ x.to = "blocked" => state[x.task] # "retry_wait"
    /\ x.op \in {"start", "submit", "reserve", "launch"} => x.task \in Unlisted
    /\ x.op \in {"reserve", "launch", "iterate", "drive", "add"} => wf = "running"
    /\ x.op = "decide" => x.request \in Request /\ x.request.task \in Unlisted
    /\ x.op = "reserve" => x.by \in Unlisted
    /\ x.op \in {"iterate", "drive"} => x.root \in Unlisted /\ x.n \in Nat \ {0}
    /\ x.op = "add" => x.task \in Iteration /\ x.on = Before(x.task) /\ x.on \subseteq Present
    /\ x.op = "each" => x.items \subseteq FreeScripts(Plain(LaunchSteps))

LEMMA SharedHead ==
    ASSUME NEW x \in SharedSteps
    PROVE  SharedStep(x) /\ RetryStep(x) /\ LaunchStepOf(x)
<1>1. /\ SharedStep(x)
      /\ x.op \in {"move", "fail", "update", "release", "escalate", "kill", "block", "processed",
                   "archive"}
      /\ x.op = "move" => x.to \notin {"blocked", "retry_wait"}
  BY DEF SharedSteps, SharedStep, Over
<1>2. QED
  BY <1>1 DEF RetryStep, LaunchStepOf

LEMMA RetryHead ==
    ASSUME NEW x \in Looped(RetrySteps)
    PROVE  RetryStep(x)
<1>1. CASE x \in SharedSteps
  BY <1>1, SharedHead
<1>2. CASE x \in [op : {"move"}, task : {t \in Unlisted : attempt[t] < Node[t].max_attempts},
                  to : {"retry_wait"}]
  BY <1>2 DEF RetryStep, SharedStep
<1>3. CASE x \in [op : {"workflow"}, to : WorkflowState \ {"succeeded"}]
  BY <1>3 DEF RetryStep, SharedStep
<1>4. CASE x \in [op : {"each"}, items : SUBSET FreeScripts(Plain(RetrySteps))]
  BY <1>4 DEF RetryStep, SharedStep
<1>5. QED
  BY <1>1, <1>2, <1>3, <1>4 DEF Looped, RetrySteps

LEMMA LaunchHead ==
    ASSUME NEW x \in Looped(LaunchSteps)
    PROVE  LaunchStepOf(x)
<1> USE DEF LaunchStepOf, SharedStep, InRun, Over
<1>1. CASE x \in SharedSteps
  BY <1>1, SharedHead
<1>2. CASE x \in [op : {"move"}, task : {t \in Unlisted : state[t] # "retry_wait"},
                  to : {"blocked"}]
  BY <1>2
<1>3. CASE x \in [op : {"start", "worktree", "submit"}, task : Unlisted]
  BY <1>3
<1>4. CASE x \in [op : {"decide"}, request : {r \in Request : r.task \in Unlisted}]
  BY <1>4
<1>5. CASE x \in [op : {"reserve"}, task : InRun(Unlisted), by : Unlisted]
  BY <1>5
<1>6. CASE x \in [op : {"launch"}, task : InRun(Unlisted)]
  BY <1>6
<1>7. CASE x \in [op : {"iterate", "drive"}, root : InRun(Unlisted), n : Nat \ {0}]
  BY <1>7
<1>8. CASE x \in {[op |-> "add", task |-> i, on |-> Before(i)] :
                     i \in {j \in InRun(Iteration) : Before(j) \subseteq Present}}
  BY <1>8
<1>9. CASE x \in [op : {"each"}, items : SUBSET FreeScripts(Plain(LaunchSteps))]
  BY <1>9
<1>10. QED
  BY <1>1, <1>2, <1>3, <1>4, <1>5, <1>6, <1>7, <1>8, <1>9 DEF Looped, LaunchSteps

-----------------------------------------------------------------------------
(* What each append leaves of the facts about the tasks.                     *)
NewRetry(x) == x.op = "move" /\ x.to = "retry_wait"
RetriesOf(x) ==
    \A t \in Task : state'[t] = "retry_wait" => state[t] = "retry_wait" \/ NewRetry(x)

LEMMA TransitionKeeps ==
    ASSUME StoreTypeOK, TaskFacts, ready \subseteq Task, ready' = ready, NEW t \in Unlisted,
           NEW to \in TaskState \ {"running", "pending", "paused"}, TransitionTask(t, to)
    PROVE  /\ Onward /\ TaskFacts' /\ state'[t] = to /\ UNCHANGED <<wf, attempt>>
           /\ \A u \in Task :
                 state'[u] = "retry_wait" => state[u] = "retry_wait" \/ to = "retry_wait"
<1> USE DEF StoreTypeOK
<1>1. /\ t \in Task /\ t \notin ready
      /\ state' = [state EXCEPT ![t] = to] /\ deps' = deps /\ UNCHANGED <<wf, attempt>>
      /\ CanTransitionTask(state[t], to)
  BY DEF TransitionTask, Unlisted
<1>2. state'[t] = to /\ \A u \in Task : u # t => state'[u] = state[u]
  BY <1>1
<1>3. state[t] # "accepted" /\ state[t] # "absent" /\ to # "absent"
  BY <1>1 DEF CanTransitionTask, TaskState
<1>4. Onward
  BY <1>1, <1>2, <1>3 DEF Onward
<1>5. TaskFacts'
  <2>1. Static \subseteq Task /\ Iteration \subseteq Task /\ Iteration' = Iteration
    BY StoreAssumption DEF Iteration
  <2>2. \A u \in Task : state'[u] = "absent" <=> state[u] = "absent"
    BY <1>2, <1>3
  <2>3. \A i \in Iteration : state'[i] # "absent" => deps'[i] \subseteq Before(i)
    BY <1>1, <2>1, <2>2 DEF TaskFacts
  <2>4. \A u \in ready' : state'[u] = "ready"
    BY <1>1, <1>2 DEF TaskFacts
  <2>5. \A u \in Static : state'[u] # "absent" /\ StaticDeps[u] \subseteq deps'[u]
    BY <1>1, <2>1, <2>2 DEF TaskFacts
  <2>6. \A u \in Task : state'[u] # "paused"
    BY <1>2 DEF TaskFacts
  <2>7. QED
    BY <2>1, <2>3, <2>4, <2>5, <2>6 DEF TaskFacts, Before
<1>6. QED
  BY <1>1, <1>2, <1>4, <1>5

LEMMA RunningKeeps ==
    ASSUME StoreTypeOK, TaskFacts, ready \subseteq Task, ready' = ready, NEW t \in Unlisted,
           NEW n, TransitionToRunning(t, n)
    PROVE  /\ Onward /\ TaskFacts' /\ wf' = wf /\ state[t] = "ready" /\ state'[t] = "running"
           /\ \A u \in Task : u # t => state'[u] = state[u]
<1> USE DEF StoreTypeOK
<1>1. /\ t \in Task /\ t \notin ready
      /\ state' = [state EXCEPT ![t] = "running"] /\ deps' = deps /\ wf' = wf
      /\ state[t] = "ready"
  BY DEF TransitionToRunning, Unlisted, CanTransitionTask
<1>2. state'[t] = "running" /\ \A u \in Task : u # t => state'[u] = state[u]
  BY <1>1
<1>3. Onward
  BY <1>1, <1>2 DEF Onward
<1>4. TaskFacts'
  <2>1. Static \subseteq Task /\ Iteration \subseteq Task /\ Iteration' = Iteration
    BY StoreAssumption DEF Iteration
  <2>2. \A u \in Task : state'[u] = "absent" <=> state[u] = "absent"
    BY <1>1, <1>2
  <2>3. \A i \in Iteration : state'[i] # "absent" => deps'[i] \subseteq Before(i)
    BY <1>1, <2>1, <2>2 DEF TaskFacts
  <2>4. \A u \in ready' : state'[u] = "ready"
    BY <1>1, <1>2 DEF TaskFacts
  <2>5. \A u \in Static : state'[u] # "absent" /\ StaticDeps[u] \subseteq deps'[u]
    BY <1>1, <2>1, <2>2 DEF TaskFacts
  <2>6. \A u \in Task : state'[u] # "paused"
    BY <1>2 DEF TaskFacts
  <2>7. QED
    BY <2>1, <2>3, <2>4, <2>5, <2>6 DEF TaskFacts, Before
<1>5. QED
  BY <1>1, <1>2, <1>3, <1>4

LEMMA RestKeeps ==
    ASSUME TaskFacts, ready' \subseteq ready, UNCHANGED <<state, deps>>
    PROVE  Onward /\ TaskFacts'
<1>1. Onward
  BY DEF Onward
<1>2. TaskFacts'
  BY DEF TaskFacts, Iteration, Before
<1>3. QED
  BY <1>1, <1>2

(* a task is added with the dependencies of its kind *)
LEMMA AddKeeps ==
    ASSUME StoreTypeOK, TaskFacts, ready \subseteq Task, ready' = ready, NEW t \in Task,
           NEW ds \in SUBSET Task, AddTask(t, ds), t \in Iteration => ds \subseteq Before(t)
    PROVE  /\ TaskFacts' /\ UNCHANGED <<wf, attempt>>
           /\ ds \subseteq Before(t) => Onward
           /\ state[t] = "absent" /\ state'[t] = "pending"
           /\ \A u \in Task : u # t => state'[u] = state[u]
<1> USE DEF StoreTypeOK
<1>1. /\ state' = [state EXCEPT ![t] = "pending"] /\ deps' = [deps EXCEPT ![t] = ds]
      /\ state[t] = "absent" /\ UNCHANGED <<wf, attempt>>
  BY DEF AddTask
<1>2. /\ state'[t] = "pending" /\ \A u \in Task : u # t => state'[u] = state[u]
      /\ deps'[t] = ds /\ \A u \in Task : u # t => deps'[u] = deps[u]
  BY <1>1
<1>3. ds \subseteq Before(t) => Onward
  BY <1>1, <1>2 DEF Onward
<1>4. TaskFacts'
  <2>1. Static \subseteq Task /\ Iteration \subseteq Task /\ Iteration' = Iteration
    BY StoreAssumption DEF Iteration
  <2>2. \A i \in Iteration : state'[i] # "absent" => deps'[i] \subseteq Before(i)
    BY <1>2, <2>1 DEF TaskFacts
  <2>3. \A u \in ready' : state'[u] = "ready"
    BY <1>1, <1>2 DEF TaskFacts
  <2>4. \A u \in Static : state'[u] # "absent" /\ StaticDeps[u] \subseteq deps'[u]
    BY <1>1, <1>2, <2>1 DEF TaskFacts
  <2>5. \A u \in Task : state'[u] # "paused"
    BY <1>2 DEF TaskFacts
  <2>6. QED
    BY <2>1, <2>2, <2>3, <2>4, <2>5 DEF TaskFacts, Before
<1>5. QED
  BY <1>1, <1>2, <1>3, <1>4

LEMMA DependKeeps ==
    ASSUME StoreTypeOK, TaskFacts, ready' = ready, NEW t \in Static, NEW ds,
           \A i \in Iteration : i \notin Static, UpdateDeps(t, deps[t] \cup ds)
    PROVE  TaskFacts' /\ UNCHANGED <<wf, state, attempt>>
<1>1. deps' = [deps EXCEPT ![t] = deps[t] \cup ds] /\ UNCHANGED <<wf, state, attempt>>
  BY DEF UpdateDeps
<1>2. Static \subseteq Task /\ Iteration \subseteq Task /\ Iteration' = Iteration
  BY StoreAssumption DEF Iteration
<1>3. \A u \in Task : deps[u] \subseteq deps'[u] /\ (u # t => deps'[u] = deps[u])
  BY <1>1, <1>2 DEF StoreTypeOK
<1>4. \A u \in Static : StaticDeps[u] \subseteq deps'[u]
  BY <1>2, <1>3 DEF TaskFacts
<1>5. \A i \in Iteration : state'[i] # "absent" => deps'[i] \subseteq Before(i)
  BY <1>1, <1>2, <1>3 DEF TaskFacts
<1>6. QED
  BY <1>1, <1>2, <1>4, <1>5 DEF TaskFacts, Before

-----------------------------------------------------------------------------
(* Taking the head off todo. *)
StoreStep(x) ==
    \/ x.op \in {"move", "fail"} /\ TransitionTask(x.task, x.to)
    \/ x.op = "start" /\ TransitionToRunning(x.task, reserved[x.task])
    \/ /\ x.op = "reserve"
       /\ ReserveBudget(x.task, Node[x.task].reserve, ReserveKey(x.task, attempt[x.task] + 1))
    \/ x.op = "launch" /\ TransitionToRunning(x.task, Node[x.task].reserve)
    \/ /\ x.op = "release"
       /\ \/ UNCHANGED storeVars
          \/ /\ reserved[x.task] # 0
             /\ ReleaseBudget(x.task, reserved[x.task], ReleaseOf(x.task))
    \/ /\ x.op = "block"
       /\ \/ UNCHANGED storeVars
          \/ state[x.task] \in {"pending", "ready"} /\ TransitionTask(x.task, "blocked")
    \/ x.op = "workflow" /\ TransitionWorkflow(x.to)
    \/ /\ x.op \in {"escalate", "update", "worktree", "kill", "processed", "archive"}
       /\ UNCHANGED storeVars
    \/ /\ x.op = "add"
       /\ \/ UNCHANGED storeVars /\ state[x.task] # "absent"
          \/ AddTask(x.task, x.on)
    \/ x.op = "depend" /\ UpdateDeps(x.task, deps[x.task] \cup x.on)

LEMMA PopStore ==
    ASSUME Popping
    PROVE  todo # <<>> /\ todo' = Tail(todo) /\ ready' = ready /\ StoreStep(Head(todo))
<1> USE DEF At, Pop, StoreStep, loopVars
<1>1. CASE PerformMove \/ PerformFail
  BY <1>1 DEF PerformMove, PerformFail
<1>2. CASE PerformStart \/ PerformReserve \/ PerformLaunch
  BY <1>2 DEF PerformStart, PerformReserve, PerformLaunch
<1>3. CASE PerformRelease
  BY <1>3 DEF PerformRelease
<1>4. CASE PerformBlock \/ PerformWorkflow
  BY <1>4 DEF PerformBlock, PerformWorkflow
<1>5. CASE PerformEscalate \/ PerformUpdate \/ PerformWorktree \/ PerformKill
  BY <1>5 DEF PerformEscalate, PerformUpdate, PerformWorktree, PerformKill
<1>6. CASE PerformAdd \/ PerformDepend
  BY <1>6 DEF PerformAdd, PerformDepend
<1>7. CASE PerformProcessed \/ PerformArchive
  BY <1>7 DEF PerformProcessed, PerformArchive
<1>8. QED
  BY <1>1, <1>2, <1>3, <1>4, <1>5, <1>6, <1>7 DEF Popping

(* what the head of a script does, in either mode *)
Does(x) ==
    /\ [L!Next]_(L!storeVars)
    /\ Onward /\ TaskFacts'
    /\ x.op \in {"move", "fail"} => state'[x.task] = x.to
    /\ x.op \in {"release", "escalate"} => state' = state
    /\ x.op = "reserve" =>
          state' = state /\ ReserveKey(x.task, attempt'[x.task] + 1) \in keys'
    /\ x.op \notin {"start", "launch"} => attempt' = attempt
    /\ x.op # "workflow" => wf' = wf
    /\ RetriesOf(x)

LEMMA BudgetEffect ==
    ASSUME NEW t, NEW n, NEW k, ReserveBudget(t, n, k) \/ ReleaseBudget(t, n, k)
    PROVE  /\ UNCHANGED <<wf, state, deps, attempt>>
           /\ ReserveBudget(t, n, k) => k \in keys'
BY DEF ReserveBudget, ReleaseBudget, storeVars

LEMMA HeadDoes ==
    ASSUME StoreTypeOK, TaskFacts, ready \subseteq Task, ready' = ready, NEW x, Needs(x),
           StoreStep(x), RetryStep(x) \/ LaunchStepOf(x)
    PROVE  Does(x)
<1>0. SharedStep(x) /\ x.op # "depend"
  BY DEF RetryStep, LaunchStepOf
<1> USE DEF Does, RetriesOf, NewRetry
<1>1. CASE UNCHANGED storeVars /\ x.op \notin {"move", "fail", "reserve"}
  BY <1>1, RestKeeps, <1>0 DEF storeVars, L!storeVars
<1>2. CASE x.op \in {"move", "fail"} /\ TransitionTask(x.task, x.to)
  <2>1. x.task \in Unlisted /\ x.task \in Task
        /\ x.to \in Over \cup {"completed", "verifying", "ready", "retry_wait", "blocked"}
    BY <1>0, <1>2 DEF SharedStep, Unlisted
  <2>2. x.to \in TaskState \ {"running", "pending", "paused"}
    BY <2>1 DEF TaskState, Over
  <2>3. /\ Onward /\ TaskFacts' /\ state'[x.task] = x.to /\ UNCHANGED <<wf, attempt>>
        /\ \A u \in Task :
               state'[u] = "retry_wait" => state[u] = "retry_wait" \/ x.to = "retry_wait"
    BY <1>2, <2>1, <2>2, TransitionKeeps
  <2>4. x.to = "retry_wait" => x.op = "move"
    BY <1>0, <1>2 DEF SharedStep, Over
  <2>5. L!Next
    <3>1. CASE x.to \in Over \cup {"completed", "verifying"}
      BY <1>2, <2>1, <3>1, MoveEvent
    <3>2. CASE x.to = "ready"
      <4>1. x.op = "move" /\ Opens(x.task)
        BY <1>0, <1>2, <3>2 DEF SharedStep, Over
      <4>2. QED
        BY <1>2, <2>1, <3>2, <4>1, ReadyEvent
    <3>3. CASE x.to = "retry_wait"
      <4>1. attempt[x.task] < Node[x.task].max_attempts /\ state[x.task] \in Over
        BY <1>2, <2>4, <3>3 DEF RetryStep, LaunchStepOf, Needs
      <4>2. QED
        BY <1>2, <2>1, <3>3, <4>1, RetryEvent
    <3>4. CASE x.to = "blocked"
      <4>1. x.op = "move"
        BY <1>0, <1>2, <3>4 DEF SharedStep, Over
      <4>2. state[x.task] # "retry_wait"
        BY <3>4, <4>1 DEF RetryStep, LaunchStepOf
      <4>3. QED
        BY <1>2, <2>1, <3>4, <4>2, BlockEvent
    <3>5. QED
      BY <2>1, <3>1, <3>2, <3>3, <3>4
  <2>6. QED
    BY <1>2, <2>3, <2>4, <2>5
<1>3. CASE x.op \in {"start", "launch"}
  <2>1. x.task \in Unlisted /\ x.task \in Task /\ (x.op = "launch" => wf = "running")
    BY <1>3 DEF RetryStep, LaunchStepOf, Unlisted
  <2>2. PICK n : TransitionToRunning(x.task, n)
    BY <1>3 DEF StoreStep
  <2>3. /\ Onward /\ TaskFacts' /\ wf' = wf /\ state'[x.task] = "running"
        /\ \A u \in Task : u # x.task => state'[u] = state[u]
    BY <2>1, <2>2, RunningKeeps
  <2>4. L!Next
    <3>1. CASE x.op = "start"
      BY <2>1, <3>1, StartEvent DEF StoreStep
    <3>2. CASE x.op = "launch"
      BY <2>1, <3>2, LaunchEvent DEF StoreStep, Needs
    <3>3. QED
      BY <1>3, <3>1, <3>2
  <2>5. QED
    BY <1>3, <2>3, <2>4
<1>4. CASE x.op = "reserve" \/ (x.op = "release" /\ ~UNCHANGED storeVars)
  <2>1. x.task \in Task /\ (x.op = "reserve" => wf = "running")
    BY <1>0, <1>4 DEF SharedStep, RetryStep, LaunchStepOf, Unlisted
  <2>2. \/ /\ x.op = "reserve"
           /\ ReserveBudget(x.task, Node[x.task].reserve, ReserveKey(x.task, attempt[x.task] + 1))
        \/ /\ x.op = "release" /\ reserved[x.task] # 0
           /\ ReleaseBudget(x.task, reserved[x.task], ReleaseOf(x.task))
    BY <1>4 DEF StoreStep
  <2>3. /\ UNCHANGED <<wf, state, deps, attempt>>
        /\ x.op = "reserve" => ReserveKey(x.task, attempt[x.task] + 1) \in keys'
    BY <2>2, BudgetEffect
  <2>4. Onward /\ TaskFacts'
    BY <2>3, RestKeeps
  <2>5. L!Next
    BY <2>1, <2>2, ReserveEvent, ReleaseEvent DEF Needs
  <2>6. QED
    BY <1>4, <2>3, <2>4, <2>5
<1>5. CASE /\ x.op = "block" /\ TransitionTask(x.task, "blocked")
           /\ state[x.task] \in {"pending", "ready"}
  <2>1. /\ x.task \in Unlisted /\ x.task \in Task
        /\ "blocked" \in TaskState \ {"running", "pending", "paused"}
    BY <1>0, <1>5 DEF SharedStep, Unlisted, TaskState
  <2>2. /\ Onward /\ TaskFacts' /\ UNCHANGED <<wf, attempt>>
        /\ \A u \in Task : state'[u] = "retry_wait" => state[u] = "retry_wait"
    BY <1>5, <2>1, TransitionKeeps
  <2>3. L!Next
    BY <1>5, <2>1, BlockEvent
  <2>4. QED
    BY <1>5, <2>2, <2>3
<1>6. CASE x.op = "workflow"
  <2>1. TransitionWorkflow(x.to) /\ x.to \in WorkflowState \ {"succeeded"}
    BY <1>6 DEF StoreStep, RetryStep, LaunchStepOf
  <2>2. Onward /\ TaskFacts'
    BY <2>1, RestKeeps DEF TransitionWorkflow
  <2>3. L!Next
    BY <2>1, WorkflowEvent
  <2>4. QED
    BY <1>6, <2>1, <2>2, <2>3 DEF TransitionWorkflow
<1>7. CASE x.op = "add" /\ AddTask(x.task, x.on)
  <2>1. /\ x.task \in Iteration /\ x.task \in Task /\ x.on = Before(x.task)
        /\ x.on \subseteq Present /\ x.on \subseteq Task /\ wf = "running"
    BY <1>7 DEF RetryStep, LaunchStepOf, Iteration, Before
  <2>2. /\ Onward /\ TaskFacts' /\ UNCHANGED <<wf, attempt>> /\ state'[x.task] = "pending"
        /\ \A u \in Task : u # x.task => state'[u] = state[u]
    BY <1>7, <2>1, AddKeeps
  <2>3. L!Next
    BY <1>7, <2>1, AddEvent
  <2>4. QED
    BY <1>7, <2>2, <2>3
<1>8. QED
  BY <1>0, <1>1, <1>2, <1>3, <1>4, <1>5, <1>6, <1>7 DEF StoreStep

LEMMA StepsOfTail ==
    ASSUME NEW S, NEW s \in Seq(S), s # <<>>
    PROVE  StepsOf(s) = {Head(s)} \cup StepsOf(Tail(s))
<1>1. /\ DOMAIN s = 1..Len(s) /\ Len(s) \in Nat \ {0} /\ Head(s) = s[1]
      /\ DOMAIN Tail(s) = 1..(Len(s) - 1) /\ \A i \in 1..(Len(s) - 1) : Tail(s)[i] = s[i + 1]
  OBVIOUS
<1> DEFINE u == Tail(s)
<1> HIDE DEF u
<1>2. ASSUME NEW i \in DOMAIN s, i # 1 PROVE i - 1 \in DOMAIN u /\ s[i] = u[i - 1]
  BY <1>1, <1>2 DEF u
<1>3. ASSUME NEW i \in DOMAIN u PROVE i + 1 \in DOMAIN s /\ u[i] = s[i + 1]
  BY <1>1 DEF u
<1>4. StepsOf(s) \subseteq {Head(s)} \cup StepsOf(u)
  BY <1>1, <1>2 DEF StepsOf
<1>5. Head(s) \in StepsOf(s)
  BY <1>1 DEF StepsOf
<1>6. StepsOf(u) \subseteq StepsOf(s)
  BY <1>3 DEF StepsOf
<1>7. QED
  BY <1>4, <1>5, <1>6 DEF u

LEMMA IterationsAreTasks ==
    \A t \in Task : \A n \in DOMAIN Node[t].iterations :
        n \in Nat /\ Node[t].iterations[n] \in Task /\ Node[t].iterations[n] \in Iteration
<1>1. ASSUME NEW t \in Task PROVE Node[t].iterations \in Seq(Task)
  BY RuntimeAssumption DEF NodeType
<1>2. QED
  BY <1>1 DEF Iteration

LEMMA NeedsFed ==
    ASSUME NEW x, Needs(x), Does(x), NEW y, Link(x, y)
    PROVE  Needs(y)'
<1>1. CASE Free(y)
  BY <1>1 DEF Free, Needs
<1>2. CASE Feeds(x, y)
  <2>1. CASE y.op = "release"
    BY <1>2, <2>1 DEF Feeds, Needs, Does
  <2>2. CASE y.op = "escalate"
    BY <1>2, <2>2 DEF Feeds, Needs, Does
  <2>3. CASE y.op = "move"
    BY <1>2, <2>3 DEF Feeds, Needs, Does
  <2>4. CASE y.op = "reserve"
    BY <1>2, <2>4 DEF Feeds, Needs, Does
  <2>5. CASE y.op = "launch"
    BY <1>2, <2>5 DEF Feeds, Needs, Does
  <2>6. QED
    BY <1>2, <2>1, <2>2, <2>3, <2>4, <2>5 DEF Feeds
<1>3. QED
  BY <1>1, <1>2 DEF Link

LEMMA IteratesPopped ==
    ASSUME Iterates, NEW S, todo \in Seq(S), todo # <<>>, todo' = Tail(todo), Onward,
           Head(todo).op = "move" => state'[Head(todo).task] = Head(todo).to,
           \A x \in StepsOf(todo) : x.op = "iterate" => x.root \in Task
    PROVE  Iterates'
<1>1. StepsOf(todo) = {Head(todo)} \cup StepsOf(todo')
  BY StepsOfTail
<1>2. SUFFICES ASSUME NEW x \in StepsOf(todo'), x.op = "iterate"
               PROVE  Follows(x.root, x.n, todo)'
  BY DEF Iterates
<1>3. SUFFICES ASSUME x.n > 1
               PROVE  /\ x.n - 1 \in DOMAIN Node[x.root].iterations
                      /\ \/ state'[Node[x.root].iterations[x.n - 1]] = "accepted"
                         \/ Move(Node[x.root].iterations[x.n - 1], "accepted") \in StepsOf(todo')
  BY DEF Follows
<1> DEFINE p == Node[x.root].iterations[x.n - 1]
<1>4. /\ x.n - 1 \in DOMAIN Node[x.root].iterations
      /\ state[p] = "accepted" \/ Move(p, "accepted") \in StepsOf(todo)
  BY <1>1, <1>2, <1>3 DEF Iterates, Follows
<1>5. p \in Task
  BY <1>1, <1>2, <1>4, IterationsAreTasks
<1> HIDE DEF p
<1>6. state[p] = "accepted" => state'[p] = "accepted"
  BY <1>5 DEF Onward
<1>7. Move(p, "accepted") = Head(todo) => state'[p] = "accepted"
  BY DEF Move
<1>8. QED
  BY <1>1, <1>4, <1>6, <1>7 DEF p

LEMMA IterateRoots ==
    ASSUME NEW S, S = RetrySteps \/ S = LaunchSteps, todo \in Seq(Looped(S))
    PROVE  \A x \in StepsOf(todo) : x.op = "iterate" => x.root \in Task
<1>1. \A x \in StepsOf(todo) : x \in Looped(S)
  BY DEF StepsOf
<1>2. QED
  BY <1>1, RetryHead, LaunchHead DEF RetryStep, LaunchStepOf, Unlisted

Ordinary == todo \in Scripts(Looped(RetrySteps)) \/ todo \in Scripts(Looped(LaunchSteps))

LEMMA PopOrdinary ==
    ASSUME TypeOK, HeadNeeds, Iterates, TaskFacts, Ordinary, Popping
    PROVE  [L!Next]_(L!storeVars) /\ LedgerInv'
<1> DEFINE x == Head(todo)
<1>1. StoreTypeOK /\ ready \subseteq Task
  BY DEF TypeOK
<1>2. todo # <<>> /\ todo' = Tail(todo) /\ ready' = ready /\ StoreStep(x)
  BY PopStore
<1>3. Needs(x)
  BY <1>2 DEF HeadNeeds
<1>4. PICK S : /\ S = RetrySteps \/ S = LaunchSteps
               /\ todo \in Scripts(Looped(S))
  BY DEF Ordinary
<1>5. /\ x \in Looped(S) /\ todo' \in Scripts(Looped(S))
      /\ todo' # <<>> => Link(x, Head(todo'))
  BY <1>2, <1>4, TailScript
<1>6. /\ S = RetrySteps => RetryStep(x)
      /\ S = LaunchSteps => LaunchStepOf(x)
  BY <1>5, RetryHead, LaunchHead
<1>7. Does(x)
  <2> HIDE DEF x
  <2> QED
    BY <1>1, <1>2, <1>3, <1>4, <1>6, HeadDoes
<1>8. Scripted'
  <2>1. CASE S = RetrySteps
    <3>1. attempt' = attempt
      BY <1>6, <1>7, <2>1 DEF RetryStep, Does
    <3>2. RetrySteps \subseteq RetrySteps'
      BY <1>1, <1>7, <3>1, RetryGrow DEF Does
    <3>3. todo' \in Scripts(Looped(RetrySteps'))
      BY <1>5, <2>1, <3>2, ScriptsGrow
    <3>4. QED
      BY <3>3 DEF Scripted
  <2>2. CASE S = LaunchSteps
    <3>1. wf' = wf /\ \A t \in Task : state'[t] = "retry_wait" => state[t] = "retry_wait"
      BY <1>6, <1>7, <2>2 DEF LaunchStepOf, Does, RetriesOf, NewRetry
    <3>2. LaunchSteps \subseteq LaunchSteps'
      BY <1>1, <1>7, <3>1, LaunchGrow DEF Does
    <3>3. todo' \in Scripts(Looped(LaunchSteps'))
      BY <1>5, <2>2, <3>2, ScriptsGrow
    <3>4. QED
      BY <3>3 DEF Scripted
  <2>3. QED
    BY <1>4, <2>1, <2>2
<1>9. HeadNeeds'
  <2> HIDE DEF x
  <2> QED
    BY <1>3, <1>5, <1>7, NeedsFed DEF HeadNeeds
<1>10. Iterates'
  <2>1. todo \in Seq(Looped(S))
    BY <1>4 DEF Scripts
  <2>2. \A y \in StepsOf(todo) : y.op = "iterate" => y.root \in Task
    BY <1>4, <2>1, IterateRoots
  <2>3. QED
    BY <1>2, <1>7, <2>1, <2>2, IteratesPopped DEF Does
<1>11. QED
  BY <1>7, <1>8, <1>9, <1>10 DEF Does, LedgerInv

-----------------------------------------------------------------------------
(* The expansion of a map, step by step.                                     *)
MapSteps(t) ==
    {StartComputed(t), Move(t, "completed"), Move(t, "verifying"), Move(t, "accepted")}
        \cup {Adding(t, u) : u \in Node[t].children}
        \cup {Depending(t, r) : r \in Node[t].reduce}
        \cup [op : {"each"}, items : SUBSET ({<<Adding(t, u)>> : u \in Node[t].children}
                                              \cup {<<Depending(t, r)>> : r \in Node[t].reduce})]

LEMMA MapStepsFree ==
    ASSUME NEW t \in Task, NEW x \in MapSteps(t)
    PROVE  Free(x) /\ x.op # "iterate"
BY DEF MapSteps, Free, StartComputed, Move, Adding, Depending

LEMMA MapShapes ==
    ASSUME NEW t \in Task
    PROVE  /\ AcceptComputed(t) \in Seq(MapSteps(t)) /\ AcceptComputed(t) # <<>>
           /\ \A us \in SUBSET Node[t].children : AddAll(t, us) \in Seq(MapSteps(t))
           /\ \A rs \in SUBSET Node[t].reduce : DependAll(t, rs) \in Seq(MapSteps(t))
           /\ \A rs \in SUBSET Node[t].reduce : Linking(t, rs) \in Seq(MapSteps(t))
           /\ \A us \in SUBSET Node[t].children : Expansion(t, us) \in Seq(MapSteps(t))
<1>1. AcceptComputed(t) \in Seq(MapSteps(t)) /\ AcceptComputed(t) # <<>>
  <2> DEFINE M == MapSteps(t)
  <2>1. Move(t, "completed") \in M /\ Move(t, "verifying") \in M /\ Move(t, "accepted") \in M
    BY DEF MapSteps
  <2> HIDE DEF M
  <2>2. AcceptComputed(t) \in Seq(M) /\ AcceptComputed(t) # <<>>
    BY <2>1 DEF AcceptComputed
  <2>3. QED
    BY <2>2 DEF M
<1>2. ASSUME NEW items \in SUBSET ({<<Adding(t, u)>> : u \in Node[t].children}
                                    \cup {<<Depending(t, r)>> : r \in Node[t].reduce})
      PROVE  Each(items) \in Seq(MapSteps(t))
  <2> DEFINE e == [op |-> "each", items |-> items]
  <2>1. e \in MapSteps(t)
    BY DEF MapSteps
  <2> HIDE DEF e
  <2>2. <<e>> \in Seq(MapSteps(t)) /\ <<>> \in Seq(MapSteps(t))
    BY <2>1, OneIn, EmptyIn
  <2>3. QED
    BY <2>2 DEF Each, e
<1>3. \A us \in SUBSET Node[t].children : AddAll(t, us) \in Seq(MapSteps(t))
  BY <1>2 DEF AddAll
<1>4. \A rs \in SUBSET Node[t].reduce : DependAll(t, rs) \in Seq(MapSteps(t))
  BY <1>2 DEF DependAll
<1>5. \A rs \in SUBSET Node[t].reduce : Linking(t, rs) \in Seq(MapSteps(t))
  BY <1>1, <1>4, ConcatIn DEF Linking
<1>6. Node[t].reduce \in SUBSET Node[t].reduce
  OBVIOUS
<1>7. \A us \in SUBSET Node[t].children : Expansion(t, us) \in Seq(MapSteps(t))
  BY <1>3, <1>5, <1>6, ConcatIn DEF Expansion
<1>8. QED
  BY <1>1, <1>3, <1>4, <1>5, <1>7

LEMMA NothingLeft ==
    ASSUME NEW t \in Task
    PROVE  /\ Expansion(t, {}) = Linking(t, Node[t].reduce)
           /\ Linking(t, {}) = AcceptComputed(t)
<1>1. AddAll(t, {}) = <<>> /\ DependAll(t, {}) = <<>>
  BY DEF AddAll, DependAll, Each
<1>2. Linking(t, Node[t].reduce) \in Seq(MapSteps(t)) /\ AcceptComputed(t) \in Seq(MapSteps(t))
  BY MapShapes
<1>3. QED
  BY <1>1, <1>2, EmptyFront DEF Expansion, Linking

\* what is added and what waits for it
LEMMA MapGraph ==
    ASSUME NEW t \in Task, Node[t].kind = "map"
    PROVE  /\ Node[t].children \subseteq Task /\ Node[t].reduce \subseteq Static
           /\ \A r \in Node[t].reduce : t \in StaticDeps[r]
           /\ Node[t].children \cap Iteration = {} /\ Static \cap Iteration = {}
<1>1. Node[t].children \subseteq Task
  BY RuntimeAssumption DEF NodeType
<1>2. \A i \in Iteration : i \notin Static /\ i \notin Node[t].children
  BY GraphAssumption DEF Iteration
<1>3. QED
  BY <1>1, <1>2, GraphAssumption

LEMMA AcceptScript ==
    ASSUME NEW S, NEW t, Move(t, "completed") \in S, Move(t, "verifying") \in S,
           Move(t, "accepted") \in S
    PROVE  AcceptComputed(t) \in FreeScripts(S)
<1> DEFINE x == Move(t, "completed")
           y == Move(t, "verifying")
           z == Move(t, "accepted")
<1>1. x \in S /\ y \in S /\ z \in S /\ Free(x) /\ Free(y) /\ Free(z)
  BY DEF Move, Free
<1> HIDE DEF x, y, z
<1>2. <<x, y, z>> \in FreeScripts(S)
  BY <1>1, ThreeScript DEF Link
<1>3. QED
  BY <1>2 DEF AcceptComputed, x, y, z

\* the expansion after a step of it
Expands(t) == wf = "running" /\ t \in Unlisted /\ Node[t].kind = "map" /\ Expanding(t)

MapMoves(t) == {Move(t, "completed"), Move(t, "verifying"), Move(t, "accepted")}
LEMMA MovesIn ==
    ASSUME NEW t \in Unlisted
    PROVE  MapMoves(t) \subseteq SharedSteps
BY DEF MapMoves, SharedSteps, Move, Over

LEMMA MapTodoQuiet ==
    ASSUME NEW t \in Task, todo' \in Seq(MapSteps(t))
    PROVE  HeadNeeds' /\ Iterates'
<1>1. ASSUME NEW x \in MapSteps(t) PROVE Needs(x)'
  <2>1. Free(x)
    BY <1>1, MapStepsFree
  <2>2. QED
    BY <2>1 DEF Free, Needs
<1>2. todo' # <<>> => Head(todo') \in MapSteps(t)
  OBVIOUS
<1>3. \A x \in StepsOf(todo') : x \in MapSteps(t)
  BY DEF StepsOf
<1>4. QED
  BY <1>1, <1>2, <1>3, MapStepsFree DEF HeadNeeds, Iterates

LEMMA ExpandingOn ==
    ASSUME NEW t \in Task, (wf = "running")', t \in Unlisted', Node[t].kind = "map",
           (state[t] = "running")',
           \/ \E us \in SUBSET Node[t].children : Added(t, us)' /\ todo' = Expansion(t, us)
           \/ \E us \in SUBSET Node[t].children : \E u \in Node[t].children :
                 Added(t, us \cup {u})' /\ todo' = <<Adding(t, u)>> \o Expansion(t, us)
           \/ Added(t, {})' /\ \E rs \in SUBSET Node[t].reduce : todo' = Linking(t, rs)
           \/ /\ Added(t, {})'
              /\ \E rs \in SUBSET Node[t].reduce : \E r \in Node[t].reduce :
                    todo' = <<Depending(t, r)>> \o Linking(t, rs)
    PROVE  Scripted' /\ HeadNeeds' /\ Iterates'
<1>1. todo' \in Seq(MapSteps(t))
  <2>1. \A u \in Node[t].children : Adding(t, u) \in MapSteps(t)
    BY DEF MapSteps
  <2>2. \A r \in Node[t].reduce : Depending(t, r) \in MapSteps(t)
    BY DEF MapSteps
  <2>3. ASSUME NEW x \in MapSteps(t), NEW s \in Seq(MapSteps(t))
        PROVE  <<x>> \o s \in Seq(MapSteps(t))
    BY <2>3, OneFirst
  <2>4. QED
    BY <2>1, <2>2, <2>3, MapShapes
<1>2. ASSUME NEW rs \in SUBSET Node[t].reduce, todo' = Linking(t, rs), Added(t, {})'
      PROVE  Scripted'
  <2>1. CASE rs # {}
    <3>1. Expanding(t)'
      BY <1>2, <2>1 DEF Expanding
    <3>2. QED
      BY <3>1 DEF Scripted
  <2>2. CASE rs = {}
    <3>1. todo' = AcceptComputed(t)
      BY <1>2, <2>2, NothingLeft
    <3>2. MapMoves(t) \subseteq LaunchSteps'
      BY DEF MapMoves, LaunchSteps, SharedSteps, Move, Over
    <3>3. AcceptComputed(t) \in FreeScripts(LaunchSteps')
      BY <3>2, AcceptScript DEF MapMoves
    <3>4. AcceptComputed(t) \in Scripts(Looped(LaunchSteps'))
      BY <3>3, ScriptsGrow DEF FreeScripts
    <3>5. QED
      BY <3>1, <3>4 DEF Scripted
  <2>3. QED
    BY <2>1, <2>2
<1>3. ASSUME NEW us \in SUBSET Node[t].children, Added(t, us)', todo' = Expansion(t, us)
      PROVE  Scripted'
  <2>1. CASE us # {}
    <3>1. Expanding(t)'
      BY <1>3, <2>1 DEF Expanding
    <3>2. QED
      BY <3>1 DEF Scripted
  <2>2. CASE us = {}
    BY <1>2, <1>3, <2>2, NothingLeft
  <2>3. QED
    BY <2>1, <2>2
<1>4. ASSUME NEW us \in SUBSET Node[t].children, NEW u \in Node[t].children,
             Added(t, us \cup {u})', todo' = <<Adding(t, u)>> \o Expansion(t, us)
      PROVE  Scripted'
  <2>1. Expanding(t)'
    BY <1>4 DEF Expanding
  <2>2. QED
    BY <2>1 DEF Scripted
<1>5. ASSUME NEW rs \in SUBSET Node[t].reduce, NEW r \in Node[t].reduce, Added(t, {})',
             todo' = <<Depending(t, r)>> \o Linking(t, rs)
      PROVE  Scripted'
  <2>1. Expanding(t)'
    BY <1>5 DEF Expanding
  <2>2. QED
    BY <2>1 DEF Scripted
<1>6. QED
  BY <1>1, <1>2, <1>3, <1>4, <1>5, MapTodoQuiet

LEMMA GatedMeans ==
    ASSUME LP!Gated, NEW t \in Task
    PROVE  /\ state[t] = "absent" => attempt[t] = 0
           /\ attempt[t] > 0 \/ state[t] \notin {"absent", "pending", "blocked", "cancelled"}
                => \A d \in deps[t] : state[d] = "accepted"
BY DEF LP!Gated, LP!GatedByAcceptance, LP!DepsAccepted

LEMMA EachIsStep ==
    ASSUME NEW items, items # {}
    PROVE  Each(items) # <<>> /\ Head(Each(items)).op = "each" /\ Head(Each(items)).items = items
<1> DEFINE e == [op |-> "each", items |-> items]
<1>1. e.op = "each" /\ e.items = items
  OBVIOUS
<1> HIDE DEF e
<1>2. <<e>> # <<>> /\ Head(<<e>>) = e
  OBVIOUS
<1>3. Each(items) = <<e>>
  BY DEF Each, e
<1>4. QED
  BY <1>1, <1>2, <1>3

LEMMA PopExpanding ==
    ASSUME TypeOK, LP!Gated, TaskFacts, NEW t \in Task, Expands(t), Popping
    PROVE  [L!Next]_(L!storeVars) /\ LedgerInv'
<1> USE DEF Expands
<1>1. StoreTypeOK /\ ready \subseteq Task
  BY DEF TypeOK
<1>2. todo # <<>> /\ todo' = Tail(todo) /\ ready' = ready /\ StoreStep(Head(todo))
  BY PopStore
<1>3. t \in Unlisted'
  BY <1>2 DEF Unlisted
<1>4. CASE state[t] = "ready" /\ todo = <<StartComputed(t)>> \o Expansion(t, Node[t].children)
  <2>1. StartComputed(t) \in MapSteps(t) /\ Node[t].children \in SUBSET Node[t].children
    BY DEF MapSteps
  <2>2. Head(todo) = StartComputed(t) /\ todo' = Expansion(t, Node[t].children)
    BY <1>2, <1>4, <2>1, MapShapes, OneFirst
  <2>3. TransitionToRunning(t, reserved[t])
    BY <1>2, <2>2 DEF StoreStep, StartComputed
  <2>4. TaskFacts' /\ wf' = wf /\ state'[t] = "running"
    BY <1>1, <1>2, <2>3, RunningKeeps
  <2>5. Added(t, Node[t].children)'
    BY DEF Added
  <2>6. Scripted' /\ HeadNeeds' /\ Iterates'
    BY <1>3, <2>1, <2>2, <2>4, <2>5, ExpandingOn
  <2>7. QED
    BY <2>3, <2>4, <2>6, StartEvent DEF LedgerInv
<1>5. ASSUME state[t] = "running", NEW us \in SUBSET Node[t].children, NEW u \in Node[t].children,
             Added(t, us \cup {u}), todo = <<Adding(t, u)>> \o Expansion(t, us)
      PROVE  [L!Next]_(L!storeVars) /\ LedgerInv'
  <2>1. Adding(t, u) \in MapSteps(t)
    BY DEF MapSteps
  <2>2. Head(todo) = Adding(t, u) /\ todo' = Expansion(t, us)
    BY <1>2, <1>5, <2>1, MapShapes, OneFirst
  <2>3. u \in Task /\ u \notin Iteration
    BY MapGraph
  <2>4. (UNCHANGED storeVars /\ state[u] # "absent") \/ AddTask(u, {t})
    <3>1. Adding(t, u).op = "add" /\ Adding(t, u).task = u /\ Adding(t, u).on = {t}
      BY DEF Adding
    <3>2. StoreStep(Adding(t, u))
      BY <1>2, <2>2
    <3>3. QED
      BY <3>1, <3>2 DEF StoreStep
  <2>5. /\ [L!Next]_(L!storeVars) /\ TaskFacts' /\ wf' = wf /\ state'[t] = "running"
        /\ Present \subseteq Present' /\ u \in Present'
    <3>1. CASE UNCHANGED storeVars /\ state[u] # "absent"
      BY <1>2, <1>5, <2>3, <3>1, RestKeeps DEF storeVars, L!storeVars, Present
    <3>2. CASE AddTask(u, {t})
      <4>1. /\ TaskFacts' /\ UNCHANGED <<wf, attempt>> /\ state[u] = "absent"
            /\ state'[u] = "pending" /\ \A v \in Task : v # u => state'[v] = state[v]
        BY <1>1, <1>2, <2>3, <3>2, AddKeeps
      <4>2. L!Next
        BY <1>5, <2>3, <3>2, AddEvent DEF Present
      <4>3. QED
        BY <1>5, <2>3, <4>1, <4>2 DEF Present
    <3>3. QED
      BY <2>4, <3>1, <3>2
  <2>6. Added(t, us)'
    BY <1>5, <2>5 DEF Added
  <2>7. Scripted' /\ HeadNeeds' /\ Iterates'
    BY <1>3, <2>2, <2>5, <2>6, ExpandingOn
  <2>8. QED
    BY <2>5, <2>7 DEF LedgerInv
<1>6. ASSUME state[t] = "running", Added(t, {}), NEW rs \in SUBSET Node[t].reduce,
             NEW r \in Node[t].reduce, todo = <<Depending(t, r)>> \o Linking(t, rs)
      PROVE  [L!Next]_(L!storeVars) /\ LedgerInv'
  <2>1. Depending(t, r) \in MapSteps(t)
    BY DEF MapSteps
  <2>2. Head(todo) = Depending(t, r) /\ todo' = Linking(t, rs)
    BY <1>2, <1>6, <2>1, MapShapes, OneFirst
  <2>3. /\ r \in Static /\ r \in Task /\ t \in StaticDeps[r] /\ \A i \in Iteration : i \notin Static
        /\ Node[t].children \subseteq Present
    BY <1>6, MapGraph, StoreAssumption DEF Added
  <2>4. UpdateDeps(r, deps[r] \cup Node[t].children)
    <3>1. /\ Depending(t, r).op = "depend" /\ Depending(t, r).task = r
          /\ Depending(t, r).on = Node[t].children
      BY DEF Depending
    <3>2. StoreStep(Depending(t, r))
      BY <1>2, <2>2
    <3>3. QED
      BY <3>1, <3>2 DEF StoreStep
  <2>5. TaskFacts' /\ UNCHANGED <<wf, state, attempt>>
    BY <1>1, <1>2, <2>3, <2>4, DependKeeps
  <2>6. t \in deps[r] /\ state[r] \notin {"absent", "paused"}
    BY <2>3 DEF TaskFacts
  <2>7. attempt[r] = 0 /\ state[r] \in {"pending", "blocked", "cancelled"}
    BY <1>1, <1>6, <2>3, <2>6, GatedMeans DEF StoreTypeOK
  <2>8. L!Next
    BY <2>3, <2>4, <2>7, DependEvent
  <2>9. Added(t, {})'
    BY <1>6, <2>5 DEF Added, Present
  <2>10. Scripted' /\ HeadNeeds' /\ Iterates'
    BY <1>3, <1>6, <2>2, <2>5, <2>9, ExpandingOn
  <2>11. QED
    BY <2>5, <2>8, <2>10 DEF LedgerInv
<1>7. Head(todo).op # "each"
  BY <1>2 DEF StoreStep
<1>8. ASSUME NEW us \in SUBSET Node[t].children, us # {} PROVE todo # Expansion(t, us)
  <2>1. AddAll(t, us) # <<>> /\ Head(AddAll(t, us)).op = "each"
    BY <1>8, EachIsStep DEF AddAll
  <2>2. Head(Expansion(t, us)) = Head(AddAll(t, us))
    BY <2>1, MapShapes, FrontFirst DEF Expansion
  <2>3. QED
    BY <1>7, <2>1, <2>2
<1>9. ASSUME NEW rs \in SUBSET Node[t].reduce, rs # {} PROVE todo # Linking(t, rs)
  <2>1. DependAll(t, rs) # <<>> /\ Head(DependAll(t, rs)).op = "each"
    BY <1>9, EachIsStep DEF DependAll
  <2>2. Head(Linking(t, rs)) = Head(DependAll(t, rs))
    BY <2>1, MapShapes, FrontFirst DEF Linking
  <2>3. QED
    BY <1>7, <2>1, <2>2
<1>10. QED
  BY <1>4, <1>5, <1>6, <1>8, <1>9 DEF Expanding

-----------------------------------------------------------------------------
(* Writing a script: the tasks stay as they are.  An iteration of a repeat   *)
(* node has a lemma of its own.                                              *)
LEMMA NoIterate ==
    /\ \A x \in Looped(RetrySteps') : x.op # "iterate"
    /\ \A S : \A x \in Looped(Plain(S)) : x.op # "iterate"
<1>1. \A x \in SharedSteps' : x.op # "iterate"
  BY DEF SharedSteps
<1>2. \A x \in RetrySteps' : x.op # "iterate"
  BY <1>1 DEF RetrySteps
<1>3. QED
  BY <1>2 DEF Looped, Plain

LEMMA StepsAreIn == ASSUME NEW S, NEW s \in Seq(S) PROVE StepsOf(s) \subseteq S
BY DEF StepsOf

LEMMA StillNeeds ==
    ASSUME UNCHANGED storeVars, NEW y, Needs(y)
    PROVE  Needs(y)'
BY DEF storeVars, Needs, ReserveKey

LEMMA PlainIn ==
    /\ Scripts(Looped(Plain(LaunchSteps'))) \subseteq Scripts(Looped(LaunchSteps'))
    /\ FreeScripts(Looped(Plain(LaunchSteps'))) \subseteq FreeScripts(Looped(LaunchSteps'))
<1>1. Plain(LaunchSteps') \subseteq LaunchSteps'
  BY DEF Plain
<1>2. Looped(Plain(LaunchSteps')) \subseteq Looped(LaunchSteps')
  BY <1>1, ScriptsGrow
<1>3. QED
  BY <1>2, ScriptsGrow

LEMMA Written ==
    ASSUME TaskFacts, UNCHANGED storeVars, ready' \subseteq ready, NEW s, todo' = s,
           s \in Scripts(Looped(RetrySteps')) \/ s \in Scripts(Looped(Plain(LaunchSteps'))),
           s # <<>> => Needs(Head(s))
    PROVE  LedgerInv'
<1>1. Scripted'
  BY PlainIn DEF Scripted
<1>2. HeadNeeds'
  <2>1. s # <<>> => Needs(Head(s))'
    BY StillNeeds
  <2>2. QED
    BY <2>1 DEF HeadNeeds
<1>3. \A x \in StepsOf(todo') : x.op # "iterate"
  <2>1. s \in Seq(Looped(RetrySteps')) \/ s \in Seq(Looped(Plain(LaunchSteps')))
    BY DEF Scripts
  <2>2. QED
    BY <2>1, StepsAreIn, NoIterate
<1>4. TaskFacts'
  BY RestKeeps DEF storeVars
<1>5. QED
  BY <1>1, <1>2, <1>3, <1>4 DEF LedgerInv, Iterates

LEMMA FreeWritten ==
    ASSUME TaskFacts, UNCHANGED storeVars, ready' \subseteq ready, NEW s, todo' = s,
           \/ s \in FreeScripts(Looped(RetrySteps'))
           \/ s \in FreeScripts(Looped(Plain(LaunchSteps')))
    PROVE  LedgerInv'
<1>1. s \in Scripts(Looped(RetrySteps')) \/ s \in Scripts(Looped(Plain(LaunchSteps')))
  BY DEF FreeScripts
<1>2. s # <<>> => Needs(Head(s))
  BY DEF FreeScripts, Free, Needs
<1>3. QED
  BY <1>1, <1>2, Written

LEMMA NothingWritten ==
    ASSUME TaskFacts, UNCHANGED storeVars, ready' \subseteq ready, todo' = <<>>
    PROVE  LedgerInv'
BY NoScript, FreeWritten

LEMMA StepsOfJoin ==
    ASSUME NEW S, NEW s \in Seq(S), NEW u \in Seq(S)
    PROVE  StepsOf(s \o u) = StepsOf(s) \cup StepsOf(u)
<1> DEFINE v == s \o u
<1>1. /\ v \in Seq(S) /\ Len(v) = Len(s) + Len(u) /\ Len(s) \in Nat /\ Len(u) \in Nat
      /\ \A i \in 1..Len(s) : v[i] = s[i]
      /\ \A i \in 1..Len(u) : v[Len(s) + i] = u[i]
  BY JoinedAt
<1>2. DOMAIN v = 1..Len(v) /\ DOMAIN s = 1..Len(s) /\ DOMAIN u = 1..Len(u)
  BY <1>1
<1> HIDE DEF v
<1>3. ASSUME NEW i \in DOMAIN v PROVE v[i] \in StepsOf(s) \cup StepsOf(u)
  <2>1. CASE i \in 1..Len(s)
    BY <1>1, <1>2, <2>1 DEF StepsOf
  <2>2. CASE i \notin 1..Len(s)
    <3> DEFINE j == i - Len(s)
    <3>1. j \in 1..Len(u) /\ i = Len(s) + j
      BY <1>1, <1>2, <2>2
    <3> HIDE DEF j
    <3>2. QED
      BY <1>1, <1>2, <3>1 DEF StepsOf
  <2>3. QED
    BY <2>1, <2>2
<1>4. \A i \in DOMAIN s : i \in DOMAIN v /\ v[i] = s[i]
  BY <1>1, <1>2
<1>5. \A i \in DOMAIN u : Len(s) + i \in DOMAIN v /\ v[Len(s) + i] = u[i]
  BY <1>1, <1>2
<1>6. StepsOf(v) \subseteq StepsOf(s) \cup StepsOf(u)
  BY <1>3 DEF StepsOf
<1>7. StepsOf(s) \subseteq StepsOf(v)
  BY <1>4 DEF StepsOf
<1>8. StepsOf(u) \subseteq StepsOf(v)
  BY <1>5 DEF StepsOf
<1>9. QED
  BY <1>6, <1>7, <1>8 DEF v

(* A step that only rewrites the script puts others in front of the rest. *)
LEMMA Rewritten ==
    ASSUME TypeOK, TaskFacts, Iterates, UNCHANGED storeVars, ready' \subseteq ready,
           NEW S, S = RetrySteps \/ S = LaunchSteps,
           todo \in Scripts(Looped(S)), todo # <<>>,
           Head(todo).op \notin {"move", "fail", "release", "escalate", "reserve"},
           NEW s \in FreeScripts(Looped(S)), \A x \in StepsOf(s) : x.op # "iterate",
           todo' = s \o Tail(todo)
    PROVE  LedgerInv'
<1>1. Tail(todo) \in FreeScripts(Looped(S))
  BY TailScript
<1>2. todo' \in FreeScripts(Looped(S))
  BY <1>1, FreeJoin DEF FreeScripts
<1>3. StoreTypeOK /\ Onward /\ TaskFacts'
  BY RestKeeps DEF storeVars, TypeOK
<1>4. Scripted'
  <2>1. RetrySteps \subseteq RetrySteps' /\ LaunchSteps \subseteq LaunchSteps'
    BY <1>3, RetryGrow, LaunchGrow DEF storeVars
  <2>2. todo' \in Scripts(Looped(RetrySteps')) \/ todo' \in Scripts(Looped(LaunchSteps'))
    BY <1>2, <2>1, ScriptsGrow DEF FreeScripts
  <2>3. QED
    BY <2>2 DEF Scripted
<1>5. HeadNeeds'
  BY <1>2 DEF FreeScripts, Free, HeadNeeds, Needs
<1>6. Iterates'
  <2>1. s \in Seq(Looped(S)) /\ Tail(todo) \in Seq(Looped(S)) /\ todo \in Seq(Looped(S))
    BY <1>1 DEF FreeScripts, Scripts
  <2>2. /\ StepsOf(todo') = StepsOf(s) \cup StepsOf(Tail(todo))
        /\ StepsOf(todo) = {Head(todo)} \cup StepsOf(Tail(todo))
    <3> DEFINE tail == Tail(todo)
               All == Looped(S)
    <3> HIDE DEF tail, All
    <3>0. s \in Seq(All) /\ tail \in Seq(All)
      BY <2>1 DEF tail, All
    <3>1. StepsOf(s \o tail) = StepsOf(s) \cup StepsOf(tail)
      BY <3>0, StepsOfJoin
    <3>2. StepsOf(todo) = {Head(todo)} \cup StepsOf(Tail(todo))
      BY <2>1, StepsOfTail
    <3>3. QED
      BY <3>1, <3>2 DEF tail
  <2>3. \A t, to : Move(t, to) \in StepsOf(todo) => Move(t, to) \in StepsOf(todo')
    BY <2>2 DEF Move
  <2>4. \A t, n : Follows(t, n, todo) => Follows(t, n, todo)'
    BY <2>3 DEF Follows, storeVars
  <2>5. \A x \in StepsOf(todo') : x.op = "iterate" => Follows(x.root, x.n, todo)
    BY <2>2 DEF Iterates
  <2>6. QED
    BY <2>4, <2>5 DEF Iterates
<1>7. QED
  BY <1>3, <1>4, <1>5, <1>6 DEF LedgerInv

LEMMA ExpandingHead ==
    ASSUME NEW t \in Task, Expanding(t)
    PROVE  /\ todo # <<>> /\ Head(todo).op \in {"start", "each", "add", "depend"}
           /\ Head(todo).op = "each" =>
                 /\ state[t] = "running"
                 /\ \/ \E us \in SUBSET Node[t].children :
                          us # {} /\ Added(t, us) /\ todo = Expansion(t, us)
                    \/ /\ Added(t, {})
                       /\ \E rs \in SUBSET Node[t].reduce : rs # {} /\ todo = Linking(t, rs)
<1>1. CASE state[t] = "ready" /\ todo = <<StartComputed(t)>> \o Expansion(t, Node[t].children)
  <2>1. StartComputed(t) \in MapSteps(t) /\ Node[t].children \in SUBSET Node[t].children
    BY DEF MapSteps
  <2>2. todo # <<>> /\ Head(todo) = StartComputed(t)
    BY <1>1, <2>1, MapShapes, OneFirst
  <2>3. QED
    BY <2>2 DEF StartComputed
<1>2. ASSUME state[t] = "running", NEW us \in SUBSET Node[t].children, us # {}, Added(t, us),
             todo = Expansion(t, us)
      PROVE  todo # <<>> /\ Head(todo).op = "each"
  <2>1. AddAll(t, us) # <<>> /\ Head(AddAll(t, us)).op = "each"
    BY <1>2, EachIsStep DEF AddAll
  <2>2. QED
    BY <1>2, <2>1, MapShapes, FrontFirst DEF Expansion
<1>3. ASSUME NEW us \in SUBSET Node[t].children, NEW u \in Node[t].children,
             todo = <<Adding(t, u)>> \o Expansion(t, us)
      PROVE  todo # <<>> /\ Head(todo).op = "add"
  <2>1. Adding(t, u) \in MapSteps(t)
    BY DEF MapSteps
  <2>2. todo # <<>> /\ Head(todo) = Adding(t, u)
    BY <1>3, <2>1, MapShapes, OneFirst
  <2>3. QED
    BY <2>2 DEF Adding
<1>4. ASSUME NEW rs \in SUBSET Node[t].reduce, rs # {}, todo = Linking(t, rs)
      PROVE  todo # <<>> /\ Head(todo).op = "each"
  <2>1. DependAll(t, rs) # <<>> /\ Head(DependAll(t, rs)).op = "each"
    BY ZenonT(60), <1>4, EachIsStep DEF DependAll
  <2>2. QED
    BY <1>4, <2>1, MapShapes, FrontFirst DEF Linking
<1>5. ASSUME NEW rs \in SUBSET Node[t].reduce, NEW r \in Node[t].reduce,
             todo = <<Depending(t, r)>> \o Linking(t, rs)
      PROVE  todo # <<>> /\ Head(todo).op = "depend"
  <2>1. Depending(t, r) \in MapSteps(t)
    BY DEF MapSteps
  <2>2. todo # <<>> /\ Head(todo) = Depending(t, r)
    BY <1>5, <2>1, MapShapes, OneFirst
  <2>3. QED
    BY <2>2 DEF Depending
<1>6. CASE state[t] = "ready" /\ todo = <<StartComputed(t)>> \o Expansion(t, Node[t].children)
  <2>1. StartComputed(t) \in MapSteps(t) /\ Node[t].children \in SUBSET Node[t].children
    BY DEF MapSteps
  <2>2. Head(todo) = StartComputed(t)
    BY <1>6, <2>1, MapShapes, OneFirst
  <2>3. Head(todo).op = "start"
    BY <2>2 DEF StartComputed
  <2>4. QED
    BY <1>1, <1>6, <2>3
<1>7. QED
  BY <1>1, <1>2, <1>3, <1>4, <1>5, <1>6 DEF Expanding

LEMMA WorkflowHead ==
    ASSUME NEW to PROVE <<Workflow(to)>> # <<>> /\ Head(<<Workflow(to)>>).op = "workflow"
                        /\ Head(<<Workflow(to)>>).to = to /\ Tail(<<Workflow(to)>>) = <<>>
<1> DEFINE x == Workflow(to)
<1>1. x.op = "workflow" /\ x.to = to
  BY DEF Workflow
<1> HIDE DEF x
<1>2. <<x>> # <<>> /\ Head(<<x>>) = x /\ Tail(<<x>>) = <<>>
  OBVIOUS
<1>3. QED
  BY <1>1, <1>2 DEF x

LEMMA ByMode ==
    ASSUME Scripted, todo # <<>>,
           Head(todo).op \notin {"start", "each", "add", "depend", "workflow"}
    PROVE  Ordinary
<1>1. todo # <<Workflow("succeeded")>>
  BY WorkflowHead
<1>2. \A t \in Task : ~Expanding(t)
  BY ExpandingHead
<1>3. QED
  BY <1>1, <1>2 DEF Scripted, Ordinary, Unlisted

(* one pass of a loop *)
LEMMA EachOrdinary ==
    ASSUME TypeOK, TaskFacts, Iterates, Ordinary, PerformEach
    PROVE  LedgerInv'
<1> DEFINE e == Head(todo)
<1>1. /\ todo # <<>> /\ e.op = "each" /\ UNCHANGED storeVars /\ ready' = ready
  BY DEF PerformEach, At, loopVars
<1>2. PICK item \in e.items : todo' = item \o Each(e.items \ {item}) \o Tail(todo)
  BY DEF PerformEach
<1>3. PICK S : (S = RetrySteps \/ S = LaunchSteps) /\ todo \in Scripts(Looped(S))
  BY DEF Ordinary
<1>4. e \in Looped(S) /\ Tail(todo) \in FreeScripts(Looped(S))
  BY <1>1, <1>3, TailScript
<1>5. e.items \in SUBSET FreeScripts(Plain(S))
  BY <1>1, <1>3, <1>4, RetryHead, LaunchHead DEF RetryStep, LaunchStepOf
<1>6. item \in FreeScripts(Plain(S)) /\ item \in FreeScripts(Looped(S))
  <2>1. Plain(S) \subseteq S
    BY DEF Plain
  <2>2. QED
    BY <1>5, <2>1, ScriptsGrow
<1> DEFINE rest == Each(e.items \ {item})
<1>7. rest \in FreeScripts(Looped(S))
  BY <1>5, EachScript
<1>8. \A x \in StepsOf(item) : x.op # "iterate"
  BY <1>6, StepsAreIn DEF FreeScripts, Scripts, Plain
<1>9. \A x \in StepsOf(rest) : x.op # "iterate"
  <2>1. \A x : x \in StepsOf(rest) => x.op = "each"
    BY DEF Each, StepsOf
  <2>2. QED
    BY <2>1
<1> HIDE DEF e, rest
<1>10. item \o rest \in FreeScripts(Looped(S))
  BY <1>6, <1>7, FreeJoin DEF FreeScripts
<1>11. \A x \in StepsOf(item \o rest) : x.op # "iterate"
  BY <1>6, <1>7, <1>8, <1>9, StepsOfJoin DEF FreeScripts, Scripts
<1>12. todo' = (item \o rest) \o Tail(todo)
  BY <1>2 DEF rest
<1>13. QED
  BY <1>1, <1>3, <1>10, <1>11, <1>12, Rewritten DEF e

LEMMA EachExpanding ==
    ASSUME TaskFacts, NEW t \in Task, Expands(t), PerformEach
    PROVE  LedgerInv'
<1> DEFINE e == Head(todo)
<1>1. /\ todo # <<>> /\ e.op = "each" /\ UNCHANGED storeVars /\ ready' = ready
  BY DEF PerformEach, At, loopVars
<1>2. PICK item \in e.items : todo' = (item \o Each(e.items \ {item})) \o Tail(todo)
  BY DEF PerformEach
<1>3. /\ TaskFacts' /\ wf' = "running"
      /\ state'[t] = "running" /\ t \in Unlisted' /\ Node[t].kind = "map"
  BY <1>1, RestKeeps, ExpandingHead DEF storeVars, Expands, Unlisted
<1>4. ASSUME NEW us \in SUBSET Node[t].children, us # {}, Added(t, us), todo = Expansion(t, us)
      PROVE  Scripted' /\ HeadNeeds' /\ Iterates'
  <2> DEFINE items == {<<Adding(t, u)>> : u \in us}
  <2>1. AddAll(t, us) = <<e>> /\ e.items = items /\ Tail(todo) = Linking(t, Node[t].reduce)
    <3>1. AddAll(t, us) # <<>> /\ Head(AddAll(t, us)).items = items
      BY <1>4, EachIsStep DEF AddAll
    <3>2. Node[t].reduce \in SUBSET Node[t].reduce
      OBVIOUS
    <3>3. /\ Head(todo) = Head(AddAll(t, us))
          /\ Tail(todo) = Tail(AddAll(t, us)) \o Linking(t, Node[t].reduce)
      BY <1>4, <3>1, <3>2, MapShapes, FrontFirst DEF Expansion
    <3>4. \E y : AddAll(t, us) = <<y>>
      BY <1>4 DEF AddAll, Each
    <3>5. AddAll(t, us) = <<e>> /\ Tail(AddAll(t, us)) = <<>>
      BY <3>3, <3>4
    <3>6. <<>> \o Linking(t, Node[t].reduce) = Linking(t, Node[t].reduce)
      BY <3>2, MapShapes, EmptyFront
    <3>7. QED
      BY <3>1, <3>3, <3>5, <3>6
  <2>2. PICK u \in us : item = <<Adding(t, u)>>
    BY <1>2, <2>1
  <2>3. items \ {item} = {<<Adding(t, v)>> : v \in us \ {u}}
    <3>1. \A v : <<Adding(t, v)>> = <<Adding(t, u)>> => v = u
      <4>1. ASSUME NEW x, NEW y, <<x>> = <<y>> PROVE x = y
        <5>1. <<x>>[1] = x /\ <<y>>[1] = y
          OBVIOUS
        <5>2. QED
          BY <4>1, <5>1
      <4>2. \A v : Adding(t, v).task = v
        BY DEF Adding
      <4>3. QED
        BY <4>1, <4>2
    <3>2. QED
      BY <2>2, <3>1
  <2>4. Each(e.items \ {item}) = AddAll(t, us \ {u})
    BY <2>1, <2>3 DEF AddAll
  <2>5. todo' = <<Adding(t, u)>> \o Expansion(t, us \ {u})
    <3>1. Adding(t, u) \in MapSteps(t) /\ <<Adding(t, u)>> \in Seq(MapSteps(t))
      <4>1. Adding(t, u) \in MapSteps(t)
        BY <2>2 DEF MapSteps
      <4>2. QED
        BY <4>1, OneIn
    <3>2. /\ AddAll(t, us \ {u}) \in Seq(MapSteps(t))
          /\ Linking(t, Node[t].reduce) \in Seq(MapSteps(t))
      BY MapShapes
    <3>3. (<<Adding(t, u)>> \o AddAll(t, us \ {u})) \o Linking(t, Node[t].reduce)
            = <<Adding(t, u)>> \o Expansion(t, us \ {u})
      BY <3>1, <3>2, ConcatAssoc DEF Expansion
    <3>4. QED
      BY <1>2, <2>1, <2>2, <2>4, <3>3
  <2>6. Added(t, (us \ {u}) \cup {u})'
    BY <1>1, <1>4, <2>2 DEF Added, Present, storeVars
  <2>7. u \in Node[t].children /\ us \ {u} \in SUBSET Node[t].children
    BY <2>2
  <2>8. QED
    BY <1>3, <2>5, <2>6, <2>7, ExpandingOn
<1>5. ASSUME NEW rs \in SUBSET Node[t].reduce, rs # {}, Added(t, {}), todo = Linking(t, rs)
      PROVE  Scripted' /\ HeadNeeds' /\ Iterates'
  <2> DEFINE items == {<<Depending(t, r)>> : r \in rs}
  <2>1. e.items = items /\ Tail(todo) = AcceptComputed(t)
    <3>1. DependAll(t, rs) # <<>> /\ Head(DependAll(t, rs)).items = items
      BY <1>5, EachIsStep DEF DependAll
    <3>2. /\ Head(todo) = Head(DependAll(t, rs))
          /\ Tail(todo) = Tail(DependAll(t, rs)) \o AcceptComputed(t)
      BY <1>5, <3>1, MapShapes, FrontFirst DEF Linking
    <3>3. \E y : DependAll(t, rs) = <<y>>
      BY <1>5 DEF DependAll, Each
    <3>4. Tail(DependAll(t, rs)) = <<>>
      BY <3>3
    <3>5. <<>> \o AcceptComputed(t) = AcceptComputed(t)
      BY MapShapes, EmptyFront
    <3>6. QED
      BY <3>1, <3>2, <3>4, <3>5
  <2>2. PICK r \in rs : item = <<Depending(t, r)>>
    BY <1>2, <2>1
  <2>3. items \ {item} = {<<Depending(t, v)>> : v \in rs \ {r}}
    <3>1. \A v : <<Depending(t, v)>> = <<Depending(t, r)>> => v = r
      <4>1. ASSUME NEW x, NEW y, <<x>> = <<y>> PROVE x = y
        <5>1. <<x>>[1] = x /\ <<y>>[1] = y
          OBVIOUS
        <5>2. QED
          BY <4>1, <5>1
      <4>2. \A v : Depending(t, v).task = v
        BY DEF Depending
      <4>3. QED
        BY <4>1, <4>2
    <3>2. QED
      BY <2>2, <3>1
  <2>4. Each(e.items \ {item}) = DependAll(t, rs \ {r})
    BY <2>1, <2>3 DEF DependAll
  <2>5. todo' = <<Depending(t, r)>> \o Linking(t, rs \ {r})
    <3>1. Depending(t, r) \in MapSteps(t) /\ <<Depending(t, r)>> \in Seq(MapSteps(t))
      <4>1. Depending(t, r) \in MapSteps(t)
        BY <2>2 DEF MapSteps
      <4>2. QED
        BY <4>1, OneIn
    <3>2. DependAll(t, rs \ {r}) \in Seq(MapSteps(t)) /\ AcceptComputed(t) \in Seq(MapSteps(t))
      BY MapShapes
    <3>3. (<<Depending(t, r)>> \o DependAll(t, rs \ {r})) \o AcceptComputed(t)
            = <<Depending(t, r)>> \o Linking(t, rs \ {r})
      BY <3>1, <3>2, ConcatAssoc DEF Linking
    <3>4. QED
      BY <1>2, <2>1, <2>2, <2>4, <3>3
  <2>6. Added(t, {})'
    BY <1>1, <1>5 DEF Added, Present, storeVars
  <2>7. r \in Node[t].reduce /\ rs \ {r} \in SUBSET Node[t].reduce
    BY <2>2
  <2>8. QED
    BY <1>3, <2>5, <2>6, <2>7, ExpandingOn
<1>6. Scripted' /\ HeadNeeds' /\ Iterates'
  BY <1>1, <1>4, <1>5, ExpandingHead DEF Expands
<1>7. QED
  BY <1>3, <1>6 DEF LedgerInv

-----------------------------------------------------------------------------
(* The steps of the scripts, once they are written.                          *)
LEMMA SharedIn ==
    ASSUME NEW t \in Unlisted'
    PROVE  /\ \A to \in Over \cup {"completed", "verifying"} : Move(t, to) \in SharedSteps'
           /\ Opens(t)' => Move(t, "ready") \in SharedSteps'
           /\ \A to \in Over, f \in Fingerprint : Fail(t, to, f) \in SharedSteps'
           /\ \A f \in Fingerprint \cup {NoFingerprint} : Update(t, f) \in SharedSteps'
           /\ Release(t) \in SharedSteps' /\ Block(t) \in SharedSteps'
           /\ [op |-> "escalate", task |-> t] \in SharedSteps'
           /\ [op |-> "kill", task |-> t] \in SharedSteps'
<1>1. t \in Task
  BY DEF Unlisted
<1> USE DEF SharedSteps
<1>2. \A to \in Over \cup {"completed", "verifying"} : Move(t, to) \in SharedSteps'
  BY DEF Move
<1>3. Opens(t)' => Move(t, "ready") \in SharedSteps'
  BY DEF Move
<1>4. \A to \in Over, f \in Fingerprint : Fail(t, to, f) \in SharedSteps'
  BY DEF Fail
<1>5. \A f \in Fingerprint \cup {NoFingerprint} : Update(t, f) \in SharedSteps'
  BY <1>1 DEF Update
<1>6. /\ Release(t) \in SharedSteps' /\ [op |-> "escalate", task |-> t] \in SharedSteps'
      /\ [op |-> "kill", task |-> t] \in SharedSteps'
  BY <1>1 DEF Release
<1>7. Block(t) \in SharedSteps'
  BY DEF Block
<1>8. QED
  BY <1>2, <1>3, <1>4, <1>5, <1>6, <1>7

LEMMA RequestIn ==
    ASSUME NEW r \in Request
    PROVE  /\ [op |-> "processed", request |-> r] \in SharedSteps'
           /\ [op |-> "archive", request |-> r] \in SharedSteps'
BY DEF SharedSteps

LEMMA SharedBoth ==
    SharedSteps' \subseteq RetrySteps' /\ SharedSteps' \subseteq Plain(LaunchSteps')
<1>1. \A x \in SharedSteps' : x.op # "iterate"
  BY DEF SharedSteps
<1>2. QED
  BY <1>1 DEF RetrySteps, LaunchSteps, Plain

LEMMA RetryIn ==
    ASSUME NEW t \in Unlisted', (attempt[t] < Node[t].max_attempts)'
    PROVE  Move(t, "retry_wait") \in RetrySteps'
BY DEF RetrySteps, Move

LEMMA WorkflowIn ==
    ASSUME NEW to \in WorkflowState \ {"succeeded"}
    PROVE  Workflow(to) \in RetrySteps'
BY DEF RetrySteps, Workflow

LEMMA LaunchIn ==
    ASSUME NEW t \in Unlisted'
    PROVE  /\ StartComputed(t) \in Plain(LaunchSteps')
           /\ Preparing(t) \in Plain(LaunchSteps') /\ Submitting(t) \in Plain(LaunchSteps')
           /\ (state[t] # "retry_wait")' => Move(t, "blocked") \in Plain(LaunchSteps')
           /\ (wf = "running")' =>
                 /\ Launching(t) \in Plain(LaunchSteps')
                 /\ \A by \in Unlisted' :
                       [op |-> "reserve", task |-> t, by |-> by] \in Plain(LaunchSteps')
                 /\ \A n \in Nat \ {0} : /\ Driving(t, n) \in Plain(LaunchSteps')
                                         /\ Iterating(t, n) \in LaunchSteps'
<1> USE DEF Plain
<1>1. StartComputed(t) \in Plain(LaunchSteps')
  BY DEF StartComputed, LaunchSteps
<1>2. Preparing(t) \in Plain(LaunchSteps') /\ Submitting(t) \in Plain(LaunchSteps')
  BY DEF Preparing, Submitting, LaunchSteps
<1>3. (state[t] # "retry_wait")' => Move(t, "blocked") \in Plain(LaunchSteps')
  BY DEF Move, LaunchSteps
<1>4. ASSUME (wf = "running")'
      PROVE  /\ Launching(t) \in Plain(LaunchSteps')
             /\ \A by \in Unlisted' :
                   [op |-> "reserve", task |-> t, by |-> by] \in Plain(LaunchSteps')
             /\ \A n \in Nat \ {0} : /\ Driving(t, n) \in Plain(LaunchSteps')
                                     /\ Iterating(t, n) \in LaunchSteps'
  <2>1. t \in InRun(Unlisted)'
    BY <1>4 DEF InRun
  <2>2. Launching(t) \in Plain(LaunchSteps')
    BY <2>1 DEF Launching, LaunchSteps
  <2>3. \A by \in Unlisted' : [op |-> "reserve", task |-> t, by |-> by] \in Plain(LaunchSteps')
    BY <2>1 DEF LaunchSteps
  <2>4. \A n \in Nat \ {0} : Driving(t, n) \in Plain(LaunchSteps')
    BY <2>1 DEF Driving, LaunchSteps
  <2>5. \A n \in Nat \ {0} : Iterating(t, n) \in LaunchSteps'
    BY <2>1 DEF Iterating, LaunchSteps
  <2>6. QED
    BY <2>2, <2>3, <2>4, <2>5
<1>5. QED
  BY <1>1, <1>2, <1>3, <1>4

LEMMA AddIn ==
    ASSUME NEW i \in Iteration, (wf = "running")', (Before(i) \subseteq Present)'
    PROVE  [op |-> "add", task |-> i, on |-> Before(i)] \in Plain(LaunchSteps')
<1>1. i \in {j \in InRun(Iteration) : Before(j) \subseteq Present}'
  BY DEF InRun, Iteration
<1>2. Before(i)' = Before(i)
  BY DEF Before
<1>3. QED
  BY <1>1, <1>2 DEF LaunchSteps, Plain

\* the pieces scripts are made of
LEMMA VerdictScript ==
    ASSUME NEW S, NEW t, NEW to \in Over, Move(t, to) \in S, Release(t) \in S
    PROVE  <<Move(t, to), Release(t)>> \in FreeScripts(S)
<1> DEFINE x == Move(t, to)
           y == Release(t)
<1>1. x \in S /\ y \in S /\ Free(x) /\ Feeds(x, y)
  BY DEF Move, Release, Free, Feeds, Over
<1> HIDE DEF x, y
<1>2. <<x, y>> \in FreeScripts(S)
  BY <1>1, TwoScript DEF Link
<1>3. QED
  BY <1>2 DEF x, y

LEMMA FailScript ==
    ASSUME NEW S, NEW t, Move(t, "failed") \in S, Release(t) \in S
    PROVE  FailSteps(t) \in FreeScripts(S)
BY VerdictScript DEF FailSteps, Over

LEMMA CompleteScripts ==
    ASSUME NEW S, NEW t, NEW f, Update(t, f) \in S, Move(t, "completed") \in S,
           Move(t, "verifying") \in S
    PROVE  /\ <<Update(t, f)>> \in FreeScripts(S)
           /\ <<Update(t, f), Move(t, "completed"), Move(t, "verifying")>> \in FreeScripts(S)
<1> DEFINE x == Update(t, f)
           y == Move(t, "completed")
           z == Move(t, "verifying")
<1>1. x \in S /\ y \in S /\ z \in S /\ Free(x) /\ Free(y) /\ Free(z)
  BY DEF Update, Move, Free
<1> HIDE DEF x, y, z
<1>2. <<x, y, z>> \in FreeScripts(S) /\ <<x>> \in FreeScripts(S)
  BY <1>1, ThreeScript, OneScript DEF Link
<1>3. QED
  BY <1>2 DEF x, y, z

\* what is computed by the main thread starts without a reservation
LEMMA ComputedScript ==
    ASSUME NEW S, NEW t, StartComputed(t) \in S, NEW s \in FreeScripts(S)
    PROVE  <<StartComputed(t)>> \o s \in FreeScripts(S)
<1> DEFINE x == StartComputed(t)
<1>1. x \in S /\ Free(x)
  BY DEF StartComputed, Free
<1> HIDE DEF x
<1>2. <<x>> \in FreeScripts(S)
  BY <1>1, OneScript
<1>3. <<x>> \o s \in FreeScripts(S)
  BY <1>2, FreeJoin DEF FreeScripts
<1>4. QED
  BY <1>3 DEF x

LEMMA SingleScript ==
    ASSUME NEW S, NEW x \in S, Free(x)
    PROVE  <<x>> \in FreeScripts(S)
BY OneScript

LEMMA LoopedHas ==
    ASSUME NEW S
    PROVE  S \subseteq Looped(S) /\ FreeScripts(S) \subseteq FreeScripts(Looped(S))
BY ScriptsGrow DEF Looped

-----------------------------------------------------------------------------
(* The steps that rewrite a script, where no map is expanded.                *)
LEMMA DecideKeeps ==
    ASSUME TypeOK, LedgerInv, PerformDecide
    PROVE  LedgerInv'
<1> DEFINE r == Head(todo).request
           t == r.task
<1>1. todo # <<>> /\ Head(todo).op = "decide" /\ UNCHANGED storeVars /\ ready' = ready
  BY DEF PerformDecide, At, loopVars
<1>2. Ordinary
  BY <1>1, ByMode DEF LedgerInv
<1>3. todo \in Scripts(Looped(LaunchSteps))
  <2>1. todo \in Scripts(Looped(RetrySteps)) => RetryStep(Head(todo))
    BY <1>1, TailScript, RetryHead
  <2>2. QED
    BY <1>1, <1>2, <2>1 DEF RetryStep, Ordinary
<1>4. r \in Request /\ t \in Unlisted
  BY <1>1, <1>3, TailScript, LaunchHead DEF LaunchStepOf
<1> HIDE DEF r, t
<1>5. StartComputed(t) \in Plain(LaunchSteps) /\ Block(t) \in Plain(LaunchSteps)
  BY <1>4 DEF StartComputed, Block, LaunchSteps, SharedSteps, Plain
<1>6. MapMoves(t) \subseteq Plain(LaunchSteps)
  <2>1. MapMoves(t) \subseteq LaunchSteps
    BY <1>4, MovesIn DEF LaunchSteps
  <2>2. \A x \in MapMoves(t) : x.op # "iterate"
    BY DEF MapMoves, Move
  <2>3. QED
    BY <2>1, <2>2 DEF Plain
<1>7. <<StartComputed(t)>> \o AcceptComputed(t) \in FreeScripts(Plain(LaunchSteps))
  BY <1>5, <1>6, AcceptScript, ComputedScript DEF MapMoves
<1>8. <<Block(t)>> \in FreeScripts(Plain(LaunchSteps))
  BY <1>5, SingleScript DEF Block, Free
<1>9. PICK s \in FreeScripts(Plain(LaunchSteps)) : todo' = s \o Tail(todo)
  BY Zenon, <1>7, <1>8, NoScript DEF PerformDecide, r, t
<1>10. s \in FreeScripts(Looped(LaunchSteps))
  <2>1. Plain(LaunchSteps) \subseteq LaunchSteps
    BY DEF Plain
  <2>2. QED
    BY <2>1, ScriptsGrow
<1>11. \A x \in StepsOf(s) : x.op # "iterate"
  BY <1>9, StepsAreIn DEF FreeScripts, Scripts, Plain
<1>12. QED
  BY <1>1, <1>3, <1>9, <1>10, <1>11, Rewritten DEF LedgerInv

LEMMA SubmitKeeps ==
    ASSUME TypeOK, LedgerInv, PerformSubmit
    PROVE  UNCHANGED storeVars /\ LedgerInv'
<1>1. /\ todo # <<>> /\ Head(todo).op = "submit" /\ UNCHANGED storeVars /\ ready' = ready
      /\ todo' = Tail(todo)
  BY DEF PerformSubmit, At, Pop, loopVars
<1>2. Ordinary
  BY <1>1, ByMode DEF LedgerInv
<1>3. PICK S : (S = RetrySteps \/ S = LaunchSteps) /\ todo \in Scripts(Looped(S))
  BY <1>2 DEF Ordinary
<1>4. Tail(todo) \in Seq(Looped(S))
  BY <1>1, <1>3, TailScript DEF Scripts
<1>5. todo' = <<>> \o Tail(todo)
  BY <1>1, <1>4, EmptyFront
<1>6. <<>> \in FreeScripts(Looped(S)) /\ \A x \in StepsOf(<<>>) : x.op # "iterate"
  BY NoScript DEF StepsOf
<1>7. QED
  BY <1>1, <1>3, <1>5, <1>6, Rewritten DEF LedgerInv

LEMMA RefusedKeeps ==
    ASSUME TypeOK, LedgerInv, PerformReserveRefused \/ PerformReserveRefusedRepeat
    PROVE  LedgerInv'
<1>1. CASE PerformReserveRefused
  BY <1>1, NothingWritten DEF PerformReserveRefused, LedgerInv
<1>2. CASE PerformReserveRefusedRepeat
  <2> DEFINE t == Head(todo).by
  <2>1. /\ todo # <<>> /\ Head(todo).op = "reserve" /\ UNCHANGED storeVars /\ ready' = ready
        /\ todo' = FailSteps(t)
    BY <1>2 DEF PerformReserveRefusedRepeat, ReserveRefused, At, loopVars
  <2>2. Ordinary
    BY <2>1, ByMode DEF LedgerInv
  <2>3. t \in Unlisted
    <3>1. Head(todo) \in Looped(RetrySteps) \/ Head(todo) \in Looped(LaunchSteps)
      BY <2>1, <2>2, TailScript DEF Ordinary
    <3>2. RetryStep(Head(todo)) \/ LaunchStepOf(Head(todo))
      BY <3>1, RetryHead, LaunchHead
    <3>3. QED
      BY <2>1, <3>2 DEF RetryStep, LaunchStepOf
  <2>4. t \in Unlisted'
    BY <2>1, <2>3 DEF Unlisted
  <2> HIDE DEF t
  <2>5. Move(t, "failed") \in RetrySteps' /\ Release(t) \in RetrySteps'
    BY <2>4, SharedIn, SharedBoth DEF Over
  <2>6. FailSteps(t) \in FreeScripts(Looped(RetrySteps'))
    BY <2>5, FailScript, LoopedHas
  <2>7. QED
    BY <2>1, <2>6, FreeWritten DEF LedgerInv
<1>3. QED
  BY <1>1, <1>2

LEMMA StartScript ==
    ASSUME NEW S, NEW c, NEW by, [op |-> "reserve", task |-> c, by |-> by] \in S, Launching(c) \in S
    PROVE  StartSteps(c, by) \in Scripts(S)
<1> DEFINE x == [op |-> "reserve", task |-> c, by |-> by]
           y == Launching(c)
<1>1. x \in S /\ y \in S /\ Feeds(x, y)
  BY DEF Launching, Feeds
<1> HIDE DEF x, y
<1>2. <<x, y>> \in Scripts(S)
  BY <1>1, TwoScript DEF Link
<1>3. QED
  BY <1>2 DEF x, y, StartSteps, Launching

\* an iteration of a repeat node: its child is made ready and started
LEMMA IterationScript ==
    ASSUME NEW S, NEW c, NEW by, Move(c, "ready") \in S,
           [op |-> "reserve", task |-> c, by |-> by] \in S, Launching(c) \in S,
           NEW add \in FreeScripts(S), NEW out \in FreeScripts(S)
    PROVE  ((add \o <<Move(c, "ready")>>) \o StartSteps(c, by)) \o out \in FreeScripts(S)
<1> DEFINE m == Move(c, "ready")
           st == StartSteps(c, by)
           r == [op |-> "reserve", task |-> c, by |-> by]
<1>1. m \in S /\ Free(m) /\ Feeds(m, r)
  BY DEF Move, Free, Feeds
<1>2. st \in Scripts(S) /\ st \in Seq(S)
  BY StartScript DEF Scripts
<1>3. st[1] = r /\ st # <<>>
  BY DEF StartSteps
<1> HIDE DEF m, st, r
<1>4. <<m>> \in FreeScripts(S) /\ <<m>> \in Seq(S)
  BY <1>1, OneScript DEF FreeScripts, Scripts
<1> DEFINE f == add \o <<m>>
<1>5. f \in FreeScripts(S) /\ f \in Scripts(S) /\ f \in Seq(S)
  <2>1. f \in FreeScripts(S)
    BY <1>4, FreeJoin DEF FreeScripts
  <2>2. QED
    BY <2>1 DEF FreeScripts, Scripts
<1>6. Len(f) = Len(add) + 1 /\ f[Len(add) + 1] = m /\ f # <<>>
  <2>1. add \in Seq(S)
    BY DEF FreeScripts, Scripts
  <2>2. Len(<<m>>) = 1 /\ <<m>>[1] = m /\ 1 \in 1..Len(<<m>>)
    OBVIOUS
  <2>3. Len(f) = Len(add) + Len(<<m>>) /\ f[Len(add) + 1] = <<m>>[1]
    BY <1>4, <2>1, <2>2, JoinedAt
  <2>4. QED
    BY <2>1, <2>2, <2>3
<1> HIDE DEF f
<1>7. f \o st \in Scripts(S)
  BY <1>1, <1>2, <1>3, <1>5, <1>6, ScriptJoin DEF Link
<1>8. f \o st \in FreeScripts(S)
  <2>1. Head(f \o st) = Head(f)
    BY <1>2, <1>5, <1>6, FrontFirst
  <2>2. Free(Head(f))
    BY <1>5, <1>6 DEF FreeScripts
  <2>3. QED
    BY <1>7, <2>1, <2>2 DEF FreeScripts
<1>9. (f \o st) \o out \in FreeScripts(S)
  BY <1>7, <1>8, FreeJoin
<1>10. QED
  BY <1>9 DEF f, m, st

\* the iteration before: by GraphAssumption a task is one iteration of one node
LEMMA BeforeIs ==
    ASSUME NEW t \in Task, NEW n \in DOMAIN Node[t].iterations
    PROVE  Before(Node[t].iterations[n])
             = IF n = 1 THEN {} ELSE {Node[t].iterations[n - 1]}
<1> DEFINE c == Node[t].iterations[n]
<1>1. Node[t].iterations \in Seq(Task)
  BY RuntimeAssumption DEF NodeType
<1>2. n \in 1..Len(Node[t].iterations)
  BY <1>1
<1>3. \A u \in Task : \A m \in DOMAIN Node[u].iterations :
         c = Node[u].iterations[m] => u = t /\ m = n
  BY GraphAssumption
<1>4. n # 1 => n > 1 /\ Node[t].iterations[n - 1] \in Task
  BY <1>1, <1>2
<1> HIDE DEF c
<1>5. \A v \in Before(c) : n # 1 /\ v = Node[t].iterations[n - 1]
  BY <1>3, <1>2 DEF Before
<1>6. n # 1 => Node[t].iterations[n - 1] \in Before(c)
  BY <1>4 DEF Before, c
<1>7. QED
  BY <1>5, <1>6 DEF c

LEMMA IterateKeeps ==
    ASSUME TypeOK, TodoInv, WorkerInv, LedgerInv, PerformIterate
    PROVE  LedgerInv'
<1>1. todo # <<>> /\ Head(todo).op = "iterate"
  BY Zenon DEF PerformIterate, At
<1>2. wf = "running" /\ Ending(todo, Calm)
  BY <1>1, HeadFacts DEF HeadFact, TypeOK
<1>3. PICK t \in Calm, n \in Nat \ {0} : todo = <<Iterating(t, n)>>
  BY <1>1, <1>2, EndingShape DEF Launching, Driving
<1>4. t \in Task /\ t \in Unlisted /\ Head(todo).root = t /\ Head(todo).n = n /\ Tail(todo) = <<>>
  BY <1>3, CalmIsTask DEF Iterating, Unlisted
<1> DEFINE more == n <= Len(Node[t].iterations)
           child == Node[t].iterations[n]
           before == IF n = 1 THEN {} ELSE {Node[t].iterations[n - 1]}
           add == IF state[child] = "absent"
                  THEN <<[op |-> "add", task |-> child, on |-> before]>> ELSE <<>>
           out == <<Submitting(child), Driving(t, n)>>
           go == ((add \o <<Move(child, "ready")>>) \o StartSteps(child, t)) \o out
           P == Plain(LaunchSteps')
<1>5. UNCHANGED storeVars /\ ready' = ready /\ t \in Unlisted'
  BY Zenon, <1>4 DEF PerformIterate, loopVars, Unlisted
<1>6. FailSteps(t) \in FreeScripts(P)
  <2>1. Move(t, "failed") \in P /\ Release(t) \in P
    BY <1>5, SharedIn, SharedBoth DEF Over
  <2>2. QED
    BY <2>1, FailScript
<1>7. ASSUME more, state[child] \in {"absent", "pending"} PROVE go \in FreeScripts(P)
  <2>1. n \in DOMAIN Node[t].iterations
    <3>1. Node[t].iterations \in Seq(Task)
      BY <1>4, RuntimeAssumption DEF NodeType
    <3>2. QED
      BY <1>7, <3>1
  <2>2. child \in Task /\ child \in Iteration
    BY <1>4, <2>1, IterationsAreTasks
  <2>3. child \in Unlisted'
    BY <1>5, <1>7, <2>2 DEF LedgerInv, TaskFacts, Unlisted
  <2>4. Before(child) = before
    BY <1>4, <2>1, BeforeIs
  <2>5. Accepted(Before(child))
    <3>1. CASE n = 1
      BY <2>4, <3>1 DEF Accepted
    <3>2. CASE n # 1
      <4>1. Iterating(t, n) \in StepsOf(todo) /\ StepsOf(todo) \subseteq {Iterating(t, n)}
        <5> DEFINE x == Iterating(t, n)
        <5> HIDE DEF x
        <5>1. todo = <<x>>
          BY <1>3 DEF x
        <5>2. x \in StepsOf(todo) /\ StepsOf(todo) \subseteq {x}
          BY <5>1 DEF StepsOf
        <5>3. QED
          BY <5>2 DEF x
      <4>2. Follows(t, n, todo)
        <5>1. Iterating(t, n).op = "iterate" /\ Iterating(t, n).root = t /\ Iterating(t, n).n = n
          BY DEF Iterating
        <5>2. QED
          BY <4>1, <5>1 DEF LedgerInv, Iterates
      <4>3. Move(Node[t].iterations[n - 1], "accepted") \notin StepsOf(todo)
        BY <4>1 DEF Move, Iterating
      <4>4. n > 1
        BY <3>2
      <4>5. state[Node[t].iterations[n - 1]] = "accepted"
        BY <4>2, <4>3, <4>4 DEF Follows
      <4>6. QED
        BY <2>4, <3>2, <4>5 DEF Accepted
    <3>3. QED
      BY <3>1, <3>2
  <2>6. Opens(child)
    <3>1. state[child] = "pending" => deps[child] \subseteq Before(child)
      BY <2>2 DEF LedgerInv, TaskFacts
    <3>2. QED
      BY <2>5, <3>1 DEF Opens, Accepted
  <2>7. Opens(child)' /\ (Before(child) \subseteq Present)'
    <3>1. Before(child) \subseteq Task /\ Before(child)' = Before(child)
      BY DEF Before
    <3>2. Before(child) \subseteq Present
      BY <2>5, <3>1 DEF Accepted, Present
    <3>3. QED
      BY <1>5, <2>6, <3>1, <3>2 DEF Opens, Accepted, Present, storeVars
  <2>8. wf' = "running"
    BY <1>2, <1>5 DEF storeVars
  <2>9. /\ Move(child, "ready") \in P /\ Launching(child) \in P
        /\ [op |-> "reserve", task |-> child, by |-> t] \in P
        /\ Submitting(child) \in P /\ Driving(t, n) \in P
    <3>1. Move(child, "ready") \in P
      BY <2>3, <2>7, SharedIn, SharedBoth
    <3>2. /\ Launching(child) \in P /\ [op |-> "reserve", task |-> child, by |-> t] \in P
          /\ Submitting(child) \in P
      BY <1>5, <2>3, <2>8, LaunchIn
    <3>3. Driving(t, n) \in P
      BY <1>5, <2>8, LaunchIn
    <3>4. QED
      BY <3>1, <3>2, <3>3
  <2>10. add \in FreeScripts(P)
    <3> DEFINE x == [op |-> "add", task |-> child, on |-> before]
    <3>1. x \in P
      <4>1. [op |-> "add", task |-> child, on |-> Before(child)] \in P
        BY <2>2, <2>7, <2>8, AddIn
      <4>2. QED
        BY <2>4, <4>1
    <3>2. Free(x)
      BY DEF Free
    <3> HIDE DEF x
    <3>3. <<x>> \in FreeScripts(P)
      BY <3>1, <3>2, SingleScript
    <3>4. QED
      BY <3>3, NoScript DEF x
  <2>11. out \in FreeScripts(P)
    <3> DEFINE x == Submitting(child)
               y == Driving(t, n)
    <3>1. Free(x) /\ Free(y) /\ x \in P /\ y \in P
      BY <2>9 DEF Free, Submitting, Driving
    <3> HIDE DEF x, y
    <3>2. <<x, y>> \in FreeScripts(P)
      BY <3>1, TwoScript DEF Link
    <3>3. QED
      BY <3>2 DEF x, y
  <2> HIDE DEF P, child, add, out
  <2>12. QED
    BY <2>9, <2>10, <2>11, IterationScript
<1>8. PICK s \in FreeScripts(P) : todo' = s
  <2>1. todo' = (IF more /\ state[child] \in {"absent", "pending"}
                 THEN go ELSE FailSteps(t)) \o <<>>
    BY Zenon, <1>4 DEF PerformIterate, Submitting, Driving
  <2>2. \A s \in FreeScripts(P) : s \o <<>> = s
    BY EmptyFront DEF FreeScripts, Scripts
  <2>3. QED
    BY Zenon, <1>6, <1>7, <2>1, <2>2
<1>9. s \in FreeScripts(Looped(P))
  BY LoopedHas
<1>10. QED
  BY <1>5, <1>8, <1>9, FreeWritten DEF LedgerInv

LEMMA DrivesKeep ==
    ASSUME TypeOK, TodoInv, WorkerInv, LedgerInv, Drives
    PROVE  UNCHANGED storeVars /\ LedgerInv'
<1>1. At("drive") /\ Ended(Child) /\ UNCHANGED storeVars /\ ready' = ready
  BY Zenon DEF Drives, DriveAccepted, DriveRejected, DriveExhausted, DriveRaised, DriveUnfinished, Drive,
         unchangedByMain, loopVars
<1>2. PICK t \in Calm, n \in Nat \ {0} :
         /\ todo = <<Driving(t, n)>> /\ IsIteration(t, n)
         /\ Head(todo).root = t /\ Head(todo).n = n /\ Tail(todo) = <<>>
         /\ wf = "running" /\ t \in Task /\ Child \in Task \ {t}
  BY <1>1, DriveHead
<1> DEFINE c == Child
           P == Plain(LaunchSteps')
<1>3. t \in Unlisted' /\ c \in Unlisted' /\ c \in Task /\ c = Node[t].iterations[n]
  <2>1. t \notin ready
    BY CalmIsTask
  <2>2. state[c] \in {"running", "cancelled"}
    BY <1>1, <1>2 DEF WorkerInv, WorkerOf, Ended
  <2>3. c \notin ready
    BY <1>2, <2>2 DEF LedgerInv, TaskFacts
  <2>4. QED
    BY <1>1, <1>2, <2>1, <2>3 DEF Unlisted, Child
<1>4. ClearPid(c) \in SharedSteps'
  <2>1. fingerprint[c] \in Fingerprint \cup {NoFingerprint}
    BY <1>3 DEF TypeOK
  <2>2. QED
    BY <1>3, <2>1, SharedIn DEF ClearPid
<1>5. ASSUME NEW u \in {c, t}
      PROVE  /\ \A to \in Over \cup {"completed", "verifying"} : Move(u, to) \in P
             /\ Release(u) \in P
  BY <1>3, SharedIn, SharedBoth
<1>6. CompleteSteps(c) \in FreeScripts(P) /\ <<ClearPid(c)>> \in FreeScripts(P)
  <2>1. /\ Update(c, fingerprint[c]) \in P /\ Move(c, "completed") \in P
        /\ Move(c, "verifying") \in P
    BY <1>4, <1>5, SharedBoth DEF ClearPid
  <2> HIDE DEF P
  <2>2. QED
    BY <2>1, CompleteScripts DEF CompleteSteps, ClearPid
<1>7. \A to \in Over : <<Move(c, to), Release(c)>> \in FreeScripts(P)
  <2> HIDE DEF P
  <2> QED
    BY <1>5, VerdictScript
<1>8. FailSteps(t) \in FreeScripts(P) /\ AcceptComputed(t) \in FreeScripts(P)
  <2> HIDE DEF P
  <2> QED
    BY <1>5, FailScript, AcceptScript DEF Over
<1>9. \A r, s \in FreeScripts(P) : r \o s \in FreeScripts(P)
  BY FreeJoin DEF FreeScripts
<1>10. \A s \in FreeScripts(P) : s \o <<>> = s
  BY EmptyFront DEF FreeScripts, Scripts
<1>11. ASSUME NEW s \in FreeScripts(P), todo' = s \o <<>> PROVE LedgerInv'
  <2>1. todo' = s
    BY <1>10, <1>11
  <2>2. s \in FreeScripts(Looped(P))
    BY LoopedHas
  <2>3. QED
    BY <1>1, <2>1, <2>2, FreeWritten DEF LedgerInv
<1>12. CompleteSteps(c) \o <<Move(c, "accepted"), Release(c)>> \in FreeScripts(P)
  BY <1>6, <1>7, <1>9 DEF Over
<1>13. ASSUME todo' = ((CompleteSteps(c) \o <<Move(c, "accepted"), Release(c)>>)
                          \o Iterate(t, n + 1)) \o <<>>
       PROVE  LedgerInv'
  <2> DEFINE Q == Looped(LaunchSteps')
             s == CompleteSteps(c) \o <<Move(c, "accepted"), Release(c)>>
             x == Iterating(t, n + 1)
             u == s \o <<x>>
  <2>1. s \in FreeScripts(Q)
    BY <1>12, LoopedHas, PlainIn
  <2>2. x \in Q /\ Free(x) /\ x.op = "iterate" /\ x.root = t /\ x.n = n + 1
    <3>1. n + 1 \in Nat \ {0} /\ wf' = "running"
      BY <1>1, <1>2 DEF storeVars
    <3>2. Iterating(t, n + 1) \in LaunchSteps'
      BY <1>3, <3>1, LaunchIn
    <3>3. QED
      BY <3>2, LoopedHas DEF Iterating, Free
  <2>3. \A y \in StepsOf(s) : y.op # "iterate"
    BY <1>12, StepsAreIn DEF FreeScripts, Scripts, Plain
  <2>4. Move(c, "accepted") \in StepsOf(s)
    <3> DEFINE a == CompleteSteps(c)
               b == <<Move(c, "accepted"), Release(c)>>
    <3>1. a \in Seq(P) /\ b \in Seq(P)
      BY <1>6, <1>7 DEF FreeScripts, Scripts, Over
    <3>2. Move(c, "accepted") \in StepsOf(b)
      <4>1. 1 \in DOMAIN b /\ b[1] = Move(c, "accepted")
        OBVIOUS
      <4>2. QED
        BY <4>1 DEF StepsOf
    <3> HIDE DEF a, b
    <3>3. StepsOf(a \o b) = StepsOf(a) \cup StepsOf(b)
      BY <3>1, StepsOfJoin
    <3>4. QED
      BY <3>2, <3>3 DEF a, b
  <2>5. todo' = u /\ <<x>> = Iterate(t, n + 1)
    <3>1. <<x>> = Iterate(t, n + 1)
      BY DEF Iterate, Iterating
    <3> HIDE DEF x
    <3>2. u \in Seq(Q)
      BY <2>1, <2>2, OneIn, ConcatIn DEF FreeScripts, Scripts
    <3>3. u \o <<>> = u
      BY <3>2, EmptyFront
    <3>4. QED
      BY <1>13, <3>1, <3>3
  <2> HIDE DEF s, x, Q
  <2>6. u \in FreeScripts(Q)
    BY <2>1, <2>2, OneScript, FreeJoin DEF FreeScripts
  <2>7. StepsOf(u) = StepsOf(s) \cup {x}
    <3>1. s \in Seq(Q) /\ <<x>> \in Seq(Q)
      BY <2>1, <2>2, OneIn DEF FreeScripts, Scripts
    <3>2. StepsOf(<<x>>) = {x}
      BY DEF StepsOf
    <3>3. StepsOf(s \o <<x>>) = StepsOf(s) \cup StepsOf(<<x>>)
      BY ZenonT(60), <3>1, StepsOfJoin
    <3>4. QED
      BY <3>2, <3>3
  <2> HIDE DEF u
  <2>8. Scripted'
    BY <2>5, <2>6 DEF Scripted, FreeScripts, Q
  <2>9. HeadNeeds'
    BY <2>5, <2>6 DEF HeadNeeds, FreeScripts, Free, Needs
  <2>10. Iterates'
    <3>1. n + 1 > 1 /\ (n + 1) - 1 = n /\ n \in DOMAIN Node[t].iterations
      <4>1. Node[t].iterations \in Seq(Task)
        BY <1>2, RuntimeAssumption DEF NodeType
      <4>2. QED
        BY <1>2, <4>1 DEF IsIteration
    <3>2. Follows(t, n + 1, todo)'
      BY <1>3, <2>4, <2>5, <2>7, <3>1 DEF Follows
    <3>3. \A y \in StepsOf(todo') : y.op = "iterate" => y = x
      BY <2>3, <2>5, <2>7
    <3>4. QED
      BY <2>2, <3>2, <3>3 DEF Iterates
  <2>11. TaskFacts'
    BY <1>1, RestKeeps DEF storeVars, LedgerInv
  <2>12. QED
    BY <2>8, <2>9, <2>10, <2>11 DEF LedgerInv
<1>14. SUFFICES LedgerInv'
  BY <1>1
<1>15. CASE DriveAccepted
  <2>1. PICK next \in {AcceptComputed(t), Iterate(t, n + 1), FailSteps(t)} :
           todo' = ((CompleteSteps(c) \o <<Move(c, "accepted"), Release(c)>>) \o next) \o <<>>
    BY <1>2, <1>15 DEF DriveAccepted, Drive
  <2> HIDE DEF c, P
  <2>2. QED
    BY <1>8, <1>9, <1>11, <1>12, <1>13, <2>1
<1>16. CASE DriveRejected
  <2>1. todo' = ((CompleteSteps(c) \o <<Move(c, "rejected"), Release(c)>>) \o FailSteps(t)) \o <<>>
    BY <1>2, <1>16 DEF DriveRejected, Drive
  <2> HIDE DEF c, P
  <2>2. CompleteSteps(c) \o <<Move(c, "rejected"), Release(c)>> \in FreeScripts(P)
    BY <1>6, <1>7, <1>9 DEF Over
  <2>3. QED
    BY <1>8, <1>9, <1>11, <2>1, <2>2
<1>17. CASE DriveExhausted
  <2>1. todo' = (<<ClearPid(c), Move(c, "budget_exhausted"), Release(c)>> \o FailSteps(t)) \o <<>>
    BY <1>2, <1>17 DEF DriveExhausted, Drive
  <2>2. <<ClearPid(c), Move(c, "budget_exhausted"), Release(c)>> \in FreeScripts(P)
    <3> DEFINE x == ClearPid(c)
               y == Move(c, "budget_exhausted")
               z == Release(c)
    <3>1. x \in P /\ y \in P /\ z \in P
      BY <1>4, <1>5, SharedBoth DEF Over
    <3>2. Free(x) /\ Free(y) /\ Feeds(y, z)
      BY DEF ClearPid, Update, Move, Release, Free, Feeds, Over
    <3> HIDE DEF x, y, z, P
    <3>3. <<x, y, z>> \in FreeScripts(P)
      BY <3>1, <3>2, ThreeScript DEF Link
    <3>4. QED
      BY <3>3 DEF x, y, z
  <2> HIDE DEF c, P
  <2>3. QED
    BY <1>8, <1>9, <1>11, <2>1, <2>2
<1>18. CASE DriveRaised
  <2>1. todo' = FailSteps(t) \o <<>>
    BY <1>2, <1>18 DEF DriveRaised, Drive
  <2>2. QED
    BY <1>8, <1>11, <2>1
<1>19. CASE DriveUnfinished
  <2>1. todo' = (CompleteSteps(c) \o FailSteps(t)) \o <<>>
    BY <1>2, <1>19 DEF DriveUnfinished, Drive
  <2> HIDE DEF c, P
  <2>2. QED
    BY <1>6, <1>8, <1>9, <1>11, <2>1
<1>20. QED
  BY <1>15, <1>16, <1>17, <1>18, <1>19 DEF Drives

-----------------------------------------------------------------------------
(* The handlers that write a script when there is none.                      *)
LEMMA PlainAgain ==
    /\ Plain(RetrySteps') = RetrySteps'
    /\ Plain(Plain(LaunchSteps')) = Plain(LaunchSteps')
<1>1. \A x \in RetrySteps' : x \in Looped(RetrySteps')
  BY LoopedHas
<1>2. QED
  BY <1>1, NoIterate DEF Plain

LEMMA LoopScripts ==
    /\ \A items \in SUBSET FreeScripts(RetrySteps') :
          Each(items) \in FreeScripts(Looped(RetrySteps'))
    /\ \A items \in SUBSET FreeScripts(Plain(LaunchSteps')) :
          Each(items) \in FreeScripts(Looped(Plain(LaunchSteps')))
<1>1. ASSUME NEW items \in SUBSET FreeScripts(RetrySteps')
      PROVE  Each(items) \in FreeScripts(Looped(RetrySteps'))
  BY PlainAgain, EachScript
<1>2. ASSUME NEW items \in SUBSET FreeScripts(Plain(LaunchSteps'))
      PROVE  Each(items) \in FreeScripts(Looped(Plain(LaunchSteps')))
  BY PlainAgain, EachScript
<1>3. QED
  BY <1>1, <1>2

LEMMA WorkflowScript ==
    ASSUME NEW to \in WorkflowState \ {"succeeded"}
    PROVE  <<Workflow(to)>> \in FreeScripts(Looped(RetrySteps'))
<1> DEFINE x == Workflow(to)
<1>1. x \in RetrySteps' /\ Free(x)
  BY WorkflowIn DEF Workflow, Free
<1> HIDE DEF x
<1>2. <<x>> \in FreeScripts(Looped(RetrySteps'))
  BY <1>1, SingleScript, LoopedHas
<1>3. QED
  BY <1>2 DEF x

LEMMA BootKeeps ==
    ASSUME TypeOK, WorkerInv, LedgerInv, Boot
    PROVE  UNCHANGED storeVars /\ LedgerInv'
<1> DEFINE missing == {t \in Task : state[t] = "running" /\ ~Alive(t)}
           items == {<<Move(t, "interrupted"), Release(t)>> : t \in missing}
           last == IF missing = {} THEN <<>> ELSE <<Workflow("interrupted")>>
<1>1. /\ UNCHANGED storeVars /\ ready' = ready
      /\ todo' = Each(items) \o last \/ todo' = <<>>
  BY DEF Boot, Reconcile, unchangedByMain
<1>2. \A t \in missing : t \in Unlisted'
  BY <1>1 DEF LedgerInv, TaskFacts, Unlisted
<1>3. items \in SUBSET FreeScripts(RetrySteps')
  <2>1. ASSUME NEW t \in missing
        PROVE  <<Move(t, "interrupted"), Release(t)>> \in FreeScripts(RetrySteps')
    <3>1. Move(t, "interrupted") \in RetrySteps' /\ Release(t) \in RetrySteps'
      BY <1>2, SharedIn, SharedBoth DEF Over
    <3>2. QED
      BY <3>1, VerdictScript DEF Over
  <2>2. QED
    BY <2>1
<1>4. Each(items) \in FreeScripts(Looped(RetrySteps'))
  BY <1>3, LoopScripts
<1>5. last \in FreeScripts(Looped(RetrySteps'))
  BY WorkflowScript, NoScript DEF WorkflowState
<1> HIDE DEF items, last
<1>6. Each(items) \o last \in FreeScripts(Looped(RetrySteps'))
  BY <1>4, <1>5, FreeJoin DEF FreeScripts
<1>7. QED
  BY <1>1, <1>6, FreeWritten, NothingWritten DEF LedgerInv

LEMMA ResumeKeeps ==
    ASSUME TypeOK, LedgerInv, Resume
    PROVE  LedgerInv'
<1>1. UNCHANGED storeVars /\ ready' = ready /\ todo' \in {<<>>, <<Workflow("running")>>}
  BY DEF Resume, unchangedByMain
<1>2. <<Workflow("running")>> \in FreeScripts(Looped(RetrySteps'))
  BY WorkflowScript DEF WorkflowState
<1>3. QED
  BY <1>1, <1>2, FreeWritten, NothingWritten DEF LedgerInv

LEMMA RefreshReadyScript ==
    ASSUME TypeOK, TaskFacts, UNCHANGED storeVars, ready' \subseteq ready
    PROVE  RefreshReady \in FreeScripts(Looped(Plain(LaunchSteps')))
<1> DEFINE P == Plain(LaunchSteps')
           pending == {t \in Task : state[t] = "pending"}
           satisfied == {t \in pending : \A d \in deps[t] : state[d] = "accepted"}
           partial == {t \in pending \ satisfied : Node[t].allow_partial}
           dead == {t \in pending \ (satisfied \cup partial) :
                       \E d \in deps[t] : state[d] \in DeadState}
           now == satisfied \cup {u \in partial : PartialReady(u)}
           items == {<<Move(t, "ready")>> : t \in now} \cup {<<Move(t, "blocked")>> : t \in dead}
<1>1. \A t \in pending : t \in Unlisted'
  BY DEF TaskFacts, Unlisted
<1>2. \A t \in Task : Node[t].allow_partial => ~PartialReady(t)
  <2>1. ASSUME NEW t \in Task, Node[t].allow_partial, PartialReady(t) PROVE FALSE
    <3>1. Node[t].source \in deps[t]
      BY <2>1, GraphAssumption DEF TaskFacts
    <3>2. state[Node[t].source] \in DeadState /\ state[Node[t].source] = "accepted"
      BY <2>1, <3>1 DEF PartialReady
    <3>3. QED
      BY <3>2 DEF DeadState
  <2>2. QED
    BY <2>1
<1>3. ASSUME NEW t \in now PROVE <<Move(t, "ready")>> \in FreeScripts(P)
  <2>1. t \in Unlisted' /\ Opens(t)'
    BY <1>1, <1>2 DEF Opens, Accepted, storeVars
  <2> DEFINE x == Move(t, "ready")
  <2>2. x \in P /\ Free(x)
    BY <2>1, SharedIn, SharedBoth DEF Move, Free
  <2> HIDE DEF x
  <2>3. <<x>> \in FreeScripts(P)
    BY <2>2, SingleScript
  <2>4. QED
    BY <2>3 DEF x
<1>4. ASSUME NEW t \in dead PROVE <<Move(t, "blocked")>> \in FreeScripts(P)
  <2>1. t \in Unlisted' /\ (state[t] # "retry_wait")'
    BY <1>1 DEF storeVars
  <2> DEFINE x == Move(t, "blocked")
  <2>2. x \in P /\ Free(x)
    BY <2>1, LaunchIn DEF Move, Free
  <2> HIDE DEF x
  <2>3. <<x>> \in FreeScripts(P)
    BY <2>2, SingleScript
  <2>4. QED
    BY <2>3 DEF x
<1>5. items \in SUBSET FreeScripts(P)
  BY <1>3, <1>4
<1>6. Each(items) \in FreeScripts(Looped(P))
  BY <1>5, LoopScripts
<1>7. QED
  BY <1>6 DEF RefreshReady

LEMMA RefreshKeeps ==
    ASSUME TypeOK, LedgerInv, RefreshBefore \/ RefreshAfter
    PROVE  LedgerInv'
<1>1. UNCHANGED storeVars /\ ready' = ready /\ todo' \in {<<>>, RefreshReady}
  BY DEF RefreshBefore, RefreshAfter, Refresh, unchangedByMain
<1>2. RefreshReady \in FreeScripts(Looped(Plain(LaunchSteps')))
  BY <1>1, RefreshReadyScript DEF LedgerInv
<1>3. QED
  BY <1>1, <1>2, FreeWritten, NothingWritten DEF LedgerInv

LEMMA PassKeeps ==
    ASSUME LedgerInv, TypeOK,
           Recovered \/ TakeInbox \/ InboxDone \/ EndLaunch \/ WaitTimeout \/ Close \/ ListReady
    PROVE  LedgerInv'
<1>1. UNCHANGED storeVars /\ todo = <<>> /\ todo' = <<>>
  BY DEF Recovered, TakeInbox, InboxDone, EndLaunch, WaitTimeout, Close, ListReady, Idle,
         unchangedByMain
<1>2. CASE ready' \subseteq ready
  BY <1>1, <1>2, NothingWritten DEF LedgerInv
<1>3. CASE ListReady
  <2>1. ready' = {t \in Task : state[t] = "ready"} \/ ready' = {}
    BY <1>3 DEF ListReady
  <2>2. TaskFacts'
    BY <1>1, <2>1 DEF LedgerInv, TaskFacts, storeVars, Iteration, Before
  <2>3. Scripted'
    BY <1>1, NoScript DEF Scripted, FreeScripts
  <2>4. HeadNeeds' /\ Iterates'
    BY <1>1 DEF HeadNeeds, Iterates, StepsOf
  <2>5. QED
    BY <2>2, <2>3, <2>4 DEF LedgerInv
<1>4. ListReady \/ ready' \subseteq ready
  BY DEF Recovered, TakeInbox, InboxDone, EndLaunch, WaitTimeout, Close, unchangedByMain
<1>5. QED
  BY <1>2, <1>3, <1>4

LEMMA SettleKeeps ==
    ASSUME TypeOK, LedgerInv, SettleIteration
    PROVE  LedgerInv'
<1>1. UNCHANGED storeVars /\ ready' = ready
  BY DEF SettleIteration, SettleWait, SettleAgain, SettleCancelled, SettleSucceeded,
         SettleExhausted, SettleFailed, SettleStalled, SettleRefused, Conclude, Settle,
         unchangedByMain
<1>2. CASE SettleSucceeded
  <2>1. todo' = <<Workflow("succeeded")>> /\ Settled
    BY <1>2 DEF SettleSucceeded, Conclude, Settle
  <2>2. MayConclude
    BY <2>1 DEF Settled, States, Present, MayConclude
  <2>3. MayConclude'
    BY <1>1, <2>2 DEF MayConclude, storeVars
  <2>4. Head(todo').op = "workflow"
    BY <2>1, WorkflowHead
  <2>5. HeadNeeds'
    BY <2>4 DEF HeadNeeds, Needs
  <2>6. Iterates'
    <3> DEFINE x == Workflow("succeeded")
    <3>1. x.op # "iterate"
      BY DEF Workflow
    <3> HIDE DEF x
    <3>2. StepsOf(<<x>>) = {x}
      BY DEF StepsOf
    <3>3. \A y \in StepsOf(todo') : y.op # "iterate"
      BY <2>1, <3>1, <3>2 DEF x
    <3>4. QED
      BY <3>3 DEF Iterates
  <2>7. TaskFacts'
    BY <1>1, RestKeeps DEF LedgerInv, storeVars
  <2>8. QED
    BY <2>1, <2>3, <2>5, <2>6, <2>7 DEF Scripted, LedgerInv
<1>3. CASE ~SettleSucceeded
  <2>1. todo' \in {<<>>, <<Workflow("budget_exhausted")>>, <<Workflow("failed")>>}
    BY <1>3 DEF SettleIteration, SettleWait, SettleAgain, SettleCancelled,
         SettleExhausted, SettleFailed, SettleStalled, SettleRefused, Conclude, Settle
  <2>2. \A to \in {"budget_exhausted", "failed"} :
           <<Workflow(to)>> \in FreeScripts(Looped(RetrySteps'))
    BY WorkflowScript DEF WorkflowState
  <2>3. QED
    BY <1>1, <2>1, <2>2, FreeWritten, NothingWritten DEF LedgerInv
<1>4. QED
  BY <1>2, <1>3

(* Operator requests. *)
LEMMA AfterRequest ==
    ASSUME NEW r \in Request, NEW S, SharedSteps' \subseteq S
    PROVE  <<[op |-> "processed", request |-> r], [op |-> "archive", request |-> r]>>
             \in FreeScripts(Looped(S))
<1> DEFINE x == [op |-> "processed", request |-> r]
           y == [op |-> "archive", request |-> r]
<1>1. x \in S /\ y \in S /\ Free(x) /\ Free(y)
  BY RequestIn DEF Free
<1> HIDE DEF x, y
<1>2. <<x, y>> \in FreeScripts(S)
  BY <1>1, TwoScript DEF Link
<1>3. <<x, y>> \in FreeScripts(Looped(S))
  BY <1>2, LoopedHas
<1>4. QED
  BY <1>3 DEF x, y

LEMMA RequestWritten ==
    ASSUME TypeOK, LedgerInv, NEW r \in Request, NEW steps, Handle(r, steps),
           \/ steps \in Scripts(Looped(RetrySteps'))
           \/ steps \in Scripts(Looped(Plain(LaunchSteps'))),
           steps # <<>> => Needs(Head(steps))
    PROVE  LedgerInv'
<1> DEFINE after == <<[op |-> "processed", request |-> r], [op |-> "archive", request |-> r]>>
<1>1. UNCHANGED storeVars /\ ready' = ready /\ todo' = steps \o after
  BY DEF Handle, unchangedByMain
<1>2. /\ after \in FreeScripts(Looped(RetrySteps'))
      /\ after \in FreeScripts(Looped(Plain(LaunchSteps')))
  BY AfterRequest, SharedBoth
<1>3. after # <<>> /\ Needs(Head(after))
  BY DEF Needs
<1> HIDE DEF after
<1>4. \/ steps \o after \in Scripts(Looped(RetrySteps'))
      \/ steps \o after \in Scripts(Looped(Plain(LaunchSteps')))
  BY <1>2, FreeJoin
<1>5. \E S : steps \in Seq(S) /\ after \in Seq(S)
  BY <1>2 DEF Scripts, FreeScripts
<1>6. Needs(Head(steps \o after))
  <2>1. CASE steps = <<>>
    BY <1>3, <1>5, <2>1, EmptyFront
  <2>2. CASE steps # <<>>
    BY <1>5, <2>2, FrontFirst
  <2>3. QED
    BY <2>1, <2>2
<1>7. QED
  BY <1>1, <1>4, <1>6, Written DEF LedgerInv

LEMMA NoSteps ==
    ASSUME TypeOK, LedgerInv, NEW r \in Request, Handle(r, <<>>)
    PROVE  LedgerInv'
<1>1. <<>> \in Scripts(Looped(RetrySteps'))
  BY NoScript DEF FreeScripts
<1>2. QED
  BY <1>1, RequestWritten

LEMMA FreeRequest ==
    ASSUME TypeOK, LedgerInv, NEW r \in Request, NEW steps, Handle(r, steps),
           \/ steps \in FreeScripts(Looped(RetrySteps'))
           \/ steps \in FreeScripts(Looped(Plain(LaunchSteps')))
    PROVE  LedgerInv'
<1>1. steps # <<>> => Needs(Head(steps))
  BY DEF FreeScripts, Free, Needs
<1>2. steps \in Scripts(Looped(RetrySteps')) \/ steps \in Scripts(Looped(Plain(LaunchSteps')))
  BY DEF FreeScripts
<1>3. QED
  BY <1>1, <1>2, RequestWritten

LEMMA HandleUnchanged ==
    ASSUME WorkerInv, NEW r, NEW steps, Handle(r, steps)
    PROVE  UNCHANGED storeVars /\ ready' = ready /\ ready = {} /\ Unlisted' = Task
BY DEF Handle, Idle, WorkerInv, LoopInv, unchangedByMain, Unlisted

LEMMA CancelKeeps ==
    ASSUME TypeOK, WorkerInv, LedgerInv, NEW r \in Request, HandleCancel(r)
    PROVE  LedgerInv'
<1> DEFINE active == {t \in Task : state[t] \in {"pending", "ready", "retry_wait", "running"}}
           items == {CancelSteps(t, r.stop_active) : t \in active}
           steps == Each(items) \o <<Workflow("cancelled")>>
           R == RetrySteps'
<1>1. Handle(r, steps) \/ Handle(r, <<>>)
  BY DEF HandleCancel
<1>2. Unlisted' = Task
  BY <1>1, HandleUnchanged
<1>3. ASSUME NEW t \in active PROVE CancelSteps(t, r.stop_active) \in FreeScripts(R)
  <2>1. /\ Move(t, "cancelled") \in R /\ Release(t) \in R
        /\ [op |-> "kill", task |-> t] \in R
    BY <1>2, SharedIn, SharedBoth DEF Over
  <2> DEFINE x == [op |-> "kill", task |-> t]
  <2>2. Free(x)
    BY DEF Free
  <2> HIDE DEF x, R
  <2>3. <<x>> \in FreeScripts(R)
    BY <2>1, <2>2, SingleScript DEF x
  <2>4. <<Move(t, "cancelled"), Release(t)>> \in FreeScripts(R)
    BY <2>1, VerdictScript DEF Over
  <2>5. \A s \in FreeScripts(R) : s \o <<Move(t, "cancelled"), Release(t)>> \in FreeScripts(R)
    BY <2>4, FreeJoin DEF FreeScripts
  <2>6. QED
    BY <2>3, <2>5, NoScript DEF CancelSteps, x
<1>4. items \in SUBSET FreeScripts(R)
  BY <1>3
<1> HIDE DEF items
<1>5. Each(items) \in FreeScripts(Looped(R))
  BY <1>4, LoopScripts
<1>6. <<Workflow("cancelled")>> \in FreeScripts(Looped(R))
  BY WorkflowScript DEF WorkflowState
<1>7. steps \in FreeScripts(Looped(R))
  BY <1>5, <1>6, FreeJoin DEF FreeScripts
<1> HIDE DEF steps
<1>8. QED
  BY <1>1, <1>7, FreeRequest, NoSteps

LEMMA RetryRequestKeeps ==
    ASSUME TypeOK, WorkerInv, LedgerInv, NEW r \in Request, HandleRetry(r)
    PROVE  LedgerInv'
<1> DEFINE t == r.task
           x == Move(t, "retry_wait")
           y == Move(t, "ready")
<1>1. CASE ~Retryable(t)
  BY <1>1, NoSteps DEF HandleRetry
<1>2. CASE Retryable(t)
  <2>1. Handle(r, <<x, y>>)
    BY <1>2 DEF HandleRetry
  <2>2. UNCHANGED storeVars /\ Unlisted' = Task
    BY <2>1, HandleUnchanged
  <2>3. t \in Task
    BY RuntimeAssumption
  <2>4. Opens(t)' /\ (attempt[t] < Node[t].max_attempts)'
    BY <1>2, <2>2 DEF Opens, Retryable, storeVars
  <2>5. x \in RetrySteps'
    BY <2>2, <2>3, <2>4, RetryIn
  <2>6. y \in RetrySteps'
    BY <2>2, <2>3, <2>4, SharedIn, SharedBoth
  <2>7. Free(y)
    BY DEF Move, Free
  <2>8. Needs(x)
    BY <1>2 DEF Move, Needs, Retryable, Over
  <2> HIDE DEF x, y
  <2>9. <<x, y>> \in Scripts(RetrySteps')
    BY <2>5, <2>6, <2>7, TwoScript DEF Link
  <2>10. <<x, y>> \in Scripts(Looped(RetrySteps'))
    BY <2>9, ScriptsGrow
  <2>11. Head(<<x, y>>) = x
    OBVIOUS
  <2>12. QED
    BY <2>1, <2>8, <2>10, <2>11, RequestWritten
<1>3. QED
  BY <1>1, <1>2

LEMMA DecisionKeeps ==
    ASSUME TypeOK, WorkerInv, LedgerInv, NEW r \in Request, HandleDecision(r)
    PROVE  LedgerInv'
<1> DEFINE x == [op |-> "decide", request |-> r]
           P == Plain(LaunchSteps')
<1>1. Handle(r, RefreshReady \o <<x>>) \/ Handle(r, <<>>)
  BY DEF HandleDecision
<1>2. UNCHANGED storeVars /\ ready' = ready /\ Unlisted' = Task
  BY <1>1, HandleUnchanged
<1>3. r.task \in Task
  BY RuntimeAssumption
<1>4. x \in P /\ Free(x)
  BY <1>2, <1>3 DEF LaunchSteps, Plain, Free
<1> HIDE DEF x
<1>5. <<x>> \in FreeScripts(Looped(P))
  BY <1>4, SingleScript, LoopedHas
<1>6. RefreshReady \in FreeScripts(Looped(P))
  BY <1>2, RefreshReadyScript DEF LedgerInv
<1>7. RefreshReady \o <<x>> \in FreeScripts(Looped(P))
  BY <1>5, <1>6, FreeJoin DEF FreeScripts
<1>8. QED
  BY <1>1, <1>7, FreeRequest, NoSteps

LEMMA HandlesKeep ==
    ASSUME TypeOK, WorkerInv, LedgerInv, HandleRequest
    PROVE  LedgerInv'
<1>1. PICK r \in batch : HandlePause(r) \/ HandleResume(r) \/ HandleCancel(r) \/ HandleRetry(r)
                           \/ HandleDecision(r)
  BY DEF HandleRequest
<1>2. r \in Request
  BY <1>1 DEF TypeOK
<1>3. CASE HandlePause(r) \/ HandleResume(r)
  <2>1. \A to \in {"paused", "running"} : <<Workflow(to)>> \in FreeScripts(Looped(RetrySteps'))
    BY WorkflowScript DEF WorkflowState
  <2>2. \/ Handle(r, <<Workflow("paused")>>) \/ Handle(r, <<Workflow("running")>>)
        \/ Handle(r, <<>>)
    BY <1>3 DEF HandlePause, HandleResume
  <2>3. QED
    BY <1>2, <2>1, <2>2, FreeRequest, NoSteps
<1>4. QED
  BY <1>1, <1>2, <1>3, CancelKeeps, RetryRequestKeeps, DecisionKeeps

-----------------------------------------------------------------------------
(* A worker's outcome. *)
LEMMA RetryAfter ==
    ASSUME NEW S, NEW t, NEW g \in FreeScripts(S), g # <<>>, g[Len(g)] = Release(t),
           [op |-> "escalate", task |-> t] \in S,
           NEW e \in {<<>>, <<[op |-> "escalate", task |-> t]>>},
           NEW m \in {<<>>, <<Move(t, "retry_wait"), Move(t, "ready")>>},
           m # <<>> => Move(t, "retry_wait") \in S /\ Move(t, "ready") \in S
    PROVE  (g \o e) \o m \in FreeScripts(S)
<1> DEFINE x == [op |-> "escalate", task |-> t]
           y == Move(t, "retry_wait")
           z == Move(t, "ready")
           l == Release(t)
<1>1. Feeds(l, x) /\ Feeds(l, y) /\ Feeds(x, y) /\ Free(z)
  BY DEF Feeds, Release, Move, Free
<1>2. x \in S /\ g[Len(g)] = l /\ e \in {<<>>, <<x>>} /\ m \in {<<>>, <<y, z>>}
      /\ (m # <<>> => y \in S /\ z \in S)
  OBVIOUS
<1> HIDE DEF x, y, z, l
<1>3. g \in Scripts(S) /\ g \in Seq(S) /\ Len(g) \in Nat \ {0}
  BY DEF FreeScripts, Scripts
<1>4. e \in Scripts(S) /\ e \in Seq(S)
  <2>1. <<x>> \in Scripts(S)
    BY <1>2, OneScript
  <2>2. QED
    BY <1>2, <2>1, NoScript DEF FreeScripts, Scripts
<1> DEFINE h == g \o e
<1>5. h \in Scripts(S) /\ h # <<>> /\ Head(h) = Head(g) /\ (h[Len(h)] = l \/ h[Len(h)] = x)
  <2>1. CASE e = <<>>
    <3>1. h = g
      BY <1>3, <2>1, EmptyFront
    <3>2. QED
      BY <1>2, <1>3, <3>1
  <2>2. CASE e = <<x>>
    <3>1. Len(<<x>>) = 1 /\ <<x>>[1] = x /\ 1 \in 1..Len(<<x>>) /\ <<x>> \in Seq(S) /\ <<x>> # <<>>
      BY <1>2
    <3>2. Len(g \o <<x>>) = Len(g) + 1 /\ (g \o <<x>>)[Len(g) + 1] = x
      BY <1>3, <3>1, JoinedAt
    <3>3. g \o <<x>> \in Scripts(S)
      BY <1>1, <1>2, <1>3, <1>4, <2>2, <3>1, ScriptJoin DEF Link
    <3>4. Head(g \o <<x>>) = Head(g) /\ g \o <<x>> # <<>>
      BY <1>3, <3>1, FrontFirst
    <3>5. QED
      BY <2>2, <3>2, <3>3, <3>4
  <2>3. QED
    BY <1>2, <2>1, <2>2
<1> HIDE DEF h
<1>6. h \in FreeScripts(S) /\ h \in Seq(S)
  BY <1>3, <1>5 DEF FreeScripts, Scripts
<1>7. CASE m = <<>>
  <2>1. h \o m = h
    BY <1>6, <1>7, EmptyFront
  <2>2. QED
    BY <1>6, <2>1 DEF h
<1>8. CASE m = <<y, z>>
  <2> DEFINE k == <<y, z>>
  <2>1. k \in Scripts(S) /\ k \in Seq(S) /\ k[1] = y /\ k # <<>>
    <3>1. y \in S /\ z \in S
      BY <1>2, <1>8
    <3>2. k \in Scripts(S)
      BY <1>1, <3>1, TwoScript DEF Link
    <3>3. QED
      BY <3>2 DEF Scripts
  <2> HIDE DEF k
  <2>2. h \o k \in Scripts(S)
    BY <1>1, <1>5, <2>1, ScriptJoin DEF Link
  <2>3. Head(h \o k) = Head(h)
    BY <1>5, <1>6, <2>1, FrontFirst
  <2>4. h \o k \in FreeScripts(S)
    BY <1>5, <1>6, <2>2, <2>3 DEF FreeScripts
  <2>5. QED
    BY <1>8, <2>4 DEF k, h
<1>9. QED
  BY <1>2, <1>7, <1>8

LEMMA FailureScript ==
    ASSUME NEW S, NEW t, NEW to \in Over, NEW f, Fail(t, to, f) \in S, Release(t) \in S
    PROVE  <<Fail(t, to, f), Release(t)>> \in FreeScripts(S)
<1> DEFINE x == Fail(t, to, f)
           y == Release(t)
<1>1. x \in S /\ y \in S /\ Free(x) /\ Feeds(x, y)
  BY DEF Fail, Release, Free, Feeds, Over
<1> HIDE DEF x, y
<1>2. <<x, y>> \in FreeScripts(S)
  BY <1>1, TwoScript DEF Link
<1>3. QED
  BY <1>2 DEF x, y

LEMMA EndsWith ==
    ASSUME NEW S, NEW s \in Seq(S), NEW x \in S, NEW y \in S
    PROVE  /\ <<x, y>>[Len(<<x, y>>)] = y /\ <<x, y>> # <<>>
           /\ (s \o <<x, y>>)[Len(s \o <<x, y>>)] = y /\ s \o <<x, y>> # <<>>
<1> DEFINE k == <<x, y>>
<1>1. k \in Seq(S) /\ Len(k) = 2 /\ k[2] = y /\ 2 \in 1..Len(k)
  OBVIOUS
<1> HIDE DEF k
<1>2. Len(s \o k) = Len(s) + 2 /\ (s \o k)[Len(s) + 2] = y /\ Len(s) \in Nat /\ s \o k \in Seq(S)
  <2>1. s \in Seq(S) /\ k \in Seq(S)
    BY <1>1
  <2>2. /\ s \o k \in Seq(S) /\ Len(s \o k) = Len(s) + Len(k)
        /\ \A i \in 1..Len(s) : (s \o k)[i] = s[i]
        /\ \A i \in 1..Len(k) : (s \o k)[Len(s) + i] = k[i]
    BY <2>1, JoinedAt
  <2>3. QED
    BY <1>1, <2>1, <2>2
<1>3. s \o k # <<>>
  BY <1>2
<1>4. QED
  BY <1>1, <1>2, <1>3 DEF k

LEMMA CollectsKeep ==
    ASSUME TypeOK, WorkerInv, LedgerInv, CollectFuture
    PROVE  UNCHANGED storeVars /\ LedgerInv'
<1> DEFINE R == RetrySteps'
<1>1. PICK t \in Task :
         \/ CollectCancelled(t) \/ CollectAccepted(t) \/ CollectDenied(t)
         \/ CollectRejected(t) \/ CollectExhausted(t) \/ CollectFailed(t)
         \/ CollectUnfinished(t)
  BY DEF CollectFuture
<1>2. /\ UNCHANGED storeVars /\ ready' = ready /\ ready = {} /\ Unlisted' = Task /\ Ended(t)
  <2>1. \E s : Collect(t, s)
    BY <1>1 DEF CollectCancelled, CollectAccepted, CollectDenied, CollectRejected,
                CollectExhausted, CollectFailed, CollectUnfinished
  <2>2. QED
    BY <2>1 DEF Collect, Idle, WorkerInv, LoopInv, unchangedByMain, Unlisted
<1>3. SUFFICES \E s \in FreeScripts(R) : todo' = s
  <2>1. \A s \in FreeScripts(R) : s \in FreeScripts(Looped(R))
    BY LoopedHas
  <2>2. QED
    BY <1>2, <1>3, <2>1, FreeWritten DEF LedgerInv
<1>4. /\ \A to \in Over \cup {"completed", "verifying"} : Move(t, to) \in R
      /\ \A to \in Over, f \in Fingerprint : Fail(t, to, f) \in R
      /\ \A f \in Fingerprint \cup {NoFingerprint} : Update(t, f) \in R
      /\ Release(t) \in R /\ [op |-> "escalate", task |-> t] \in R
  BY <1>2, SharedIn, SharedBoth
<1>5. fingerprint[t] \in Fingerprint \cup {NoFingerprint}
  BY DEF TypeOK
<1>6. Update(t, fingerprint[t]) \in R /\ ClearPid(t) \in R
  BY <1>4, <1>5 DEF ClearPid
<1>7. CompleteSteps(t) \in FreeScripts(R) /\ <<ClearPid(t)>> \in FreeScripts(R)
  <2> HIDE DEF R
  <2> QED
    BY <1>4, <1>6, CompleteScripts DEF CompleteSteps, ClearPid
<1>8. \A f \in Fingerprint : <<Update(t, f)>> \in FreeScripts(R)
  <2> HIDE DEF R
  <2> QED
    BY <1>4, CompleteScripts
<1>9. \A to \in Over : <<Move(t, to), Release(t)>> \in FreeScripts(R)
  <2> HIDE DEF R
  <2> QED
    BY <1>4, VerdictScript
<1>10. \A to \in Over, f \in Fingerprint : <<Fail(t, to, f), Release(t)>> \in FreeScripts(R)
  <2> HIDE DEF R
  <2> QED
    BY <1>4, FailureScript
<1>11. \A r, s \in FreeScripts(R) : r \o s \in FreeScripts(R)
  BY FreeJoin DEF FreeScripts
\* the retry of a task that was running
<1>12. ASSUME state[t] = "running", NEW f \in Fingerprint, NEW g \in FreeScripts(R), g # <<>>,
              g[Len(g)] = Release(t)
       PROVE  (g \o Escalate(t, f)) \o MaybeRetry(t, f) \in FreeScripts(R)
  <2>1. Opens(t)'
    BY <1>2, <1>12 DEF Opens, storeVars
  <2>2. Move(t, "ready") \in R
    BY <1>2, <2>1, SharedIn, SharedBoth
  <2>3. attempt[t] < Node[t].max_attempts => Move(t, "retry_wait") \in R
    <3>1. ASSUME attempt[t] < Node[t].max_attempts
          PROVE  (attempt[t] < Node[t].max_attempts)'
      BY <1>2, <3>1 DEF storeVars
    <3>2. QED
      BY <1>2, <3>1, RetryIn
  <2>4. Escalate(t, f) \in {<<>>, <<[op |-> "escalate", task |-> t]>>}
    BY DEF Escalate
  <2>5. /\ MaybeRetry(t, f) \in {<<>>, <<Move(t, "retry_wait"), Move(t, "ready")>>}
        /\ MaybeRetry(t, f) # <<>> => attempt[t] < Node[t].max_attempts
    BY DEF MaybeRetry
  <2> HIDE DEF R
  <2>6. QED
    BY <1>4, <1>12, <2>2, <2>3, <2>4, <2>5, RetryAfter
<1>13. Decides(t) => state[t] = "running"
  BY <1>2 DEF Decides, WorkerInv, WorkerOf
<1>14. CASE CollectCancelled(t)
  BY <1>7, <1>14 DEF CollectCancelled, Collect
<1>15. CASE CollectAccepted(t) \/ CollectDenied(t)
  BY <1>7, <1>9, <1>11, <1>15 DEF CollectAccepted, CollectDenied, Collect, Over
<1>16. CASE CollectRejected(t)
  <2>1. PICK f \in Fingerprint :
           todo' = ((CompleteSteps(t) \o <<Fail(t, "rejected", f), Release(t)>>)
                        \o Escalate(t, f)) \o MaybeRetry(t, f)
    BY <1>16 DEF CollectRejected, Collect
  <2> DEFINE c == CompleteSteps(t)
             g == c \o <<Fail(t, "rejected", f), Release(t)>>
  <2>2. g \in FreeScripts(R)
    BY <1>7, <1>10, <1>11 DEF Over
  <2>3. g # <<>> /\ g[Len(g)] = Release(t)
    <3>1. c \in Seq(R) /\ Fail(t, "rejected", f) \in R
      BY <1>4, <1>7 DEF FreeScripts, Scripts, Over
    <3> HIDE DEF c, R
    <3>2. QED
      BY <1>4, <3>1, EndsWith
  <2> HIDE DEF g
  <2>4. state[t] = "running"
    BY <1>13, <1>16 DEF CollectRejected
  <2>5. (g \o Escalate(t, f)) \o MaybeRetry(t, f) \in FreeScripts(R)
    BY <1>12, <2>2, <2>3, <2>4
  <2>6. QED
    BY <2>1, <2>5 DEF g
<1>17. CASE CollectExhausted(t)
  <2> DEFINE x == ClearPid(t)
             y == Move(t, "budget_exhausted")
             z == Release(t)
  <2>1. x \in R /\ y \in R /\ z \in R
    BY <1>4, <1>6 DEF Over
  <2>2. Free(x) /\ Free(y) /\ Feeds(y, z)
    BY DEF ClearPid, Update, Move, Release, Free, Feeds, Over
  <2>3. todo' = <<x, y, z>>
    BY <1>17 DEF CollectExhausted, Collect
  <2> HIDE DEF x, y, z, R
  <2>4. <<x, y, z>> \in FreeScripts(R)
    BY <2>1, <2>2, ThreeScript DEF Link
  <2>5. QED
    BY <2>3, <2>4
<1>18. CASE CollectFailed(t)
  <2>1. PICK f \in Fingerprint :
           todo' = <<Update(t, f)>> \o
             (IF state[t] # "running" THEN <<>>
              ELSE (<<Fail(t, "failed", f), Release(t)>> \o Escalate(t, f)) \o MaybeRetry(t, f))
    BY <1>18 DEF CollectFailed, Collect
  <2> DEFINE g == <<Fail(t, "failed", f), Release(t)>>
  <2>2. g \in FreeScripts(R)
    BY <1>10 DEF Over
  <2>3. g # <<>> /\ g[Len(g)] = Release(t)
    OBVIOUS
  <2> HIDE DEF g
  <2>4. state[t] = "running" => (g \o Escalate(t, f)) \o MaybeRetry(t, f) \in FreeScripts(R)
    BY <1>12, <2>2, <2>3
  <2>5. <<>> \in FreeScripts(R)
    BY NoScript
  <2>6. QED
    BY <1>8, <1>11, <2>1, <2>4, <2>5 DEF g
<1>19. CASE CollectUnfinished(t)
  BY <1>7, <1>8, <1>11, <1>19 DEF CollectUnfinished, Collect
<1>20. QED
  BY <1>1, <1>14, <1>15, <1>16, <1>17, <1>18, <1>19

-----------------------------------------------------------------------------
(* A task of the ready list. *)
LEMMA FiveScript ==
    ASSUME NEW S, NEW x \in S, NEW y \in S, NEW z \in S, NEW v \in S, NEW w \in S,
           Free(x), Free(y), Free(z), Free(v), Feeds(v, w)
    PROVE  <<x, y, z, v, w>> \in FreeScripts(S)
<1> DEFINE a == <<x, y, z>>
           b == <<v, w>>
<1>1. a \in FreeScripts(S) /\ b \in FreeScripts(S)
  BY ThreeScript, TwoScript DEF Link
<1>2. a \o b \in FreeScripts(S) /\ a \in Seq(S) /\ b \in Seq(S)
  BY <1>1, FreeJoin DEF FreeScripts, Scripts
<1>3. <<x, y, z, v, w>> = a \o b
  <2>1. Len(a \o b) = 5 /\ Len(<<x, y, z, v, w>>) = 5
    OBVIOUS
  <2>2. \A i \in 1..5 : (a \o b)[i] = <<x, y, z, v, w>>[i]
    OBVIOUS
  <2>3. <<x, y, z, v, w>> \in Seq(S) /\ a \o b \in Seq(S)
    BY <1>2
  <2> HIDE DEF a, b
  <2>4. QED
    BY <2>1, <2>2, <2>3, SeqEqual
<1>4. QED
  BY <1>2, <1>3

LEMMA CheckScript ==
    ASSUME NEW S, NEW t, NEW to \in Over, StartComputed(t) \in S, MapMoves(t) \subseteq S,
           Move(t, to) \in S, Release(t) \in S
    PROVE  <<StartComputed(t), Move(t, "completed"), Move(t, "verifying"), Move(t, to),
             Release(t)>> \in FreeScripts(S)
<1> DEFINE x == StartComputed(t)
           y == Move(t, "completed")
           z == Move(t, "verifying")
           v == Move(t, to)
           w == Release(t)
<1>1. x \in S /\ y \in S /\ z \in S /\ v \in S /\ w \in S
  BY DEF MapMoves
<1>2. Free(x) /\ Free(y) /\ Free(z) /\ Free(v) /\ Feeds(v, w)
  BY DEF StartComputed, Move, Release, Free, Feeds, Over
<1> HIDE DEF x, y, z, v, w
<1>3. <<x, y, z, v, w>> \in FreeScripts(S)
  BY <1>1, <1>2, FiveScript
<1>4. QED
  BY <1>3 DEF x, y, z, v, w

\* the branch not taken is blocked; it is not in the list, as it waits for the condition
LEMMA BranchUnlisted ==
    ASSUME LP!Gated, TypeOK, TaskFacts, NEW t \in ready, Node[t].kind = "condition",
           NEW b \in Node[t].on_true \cup Node[t].on_false
    PROVE  b \in Task /\ b \notin ready
<1>1. t \in Task /\ state[t] = "ready"
  BY DEF TypeOK, TaskFacts
<1>2. b \in Static /\ b \in Task /\ t \in StaticDeps[b]
  BY <1>1, GraphAssumption, StoreAssumption
<1>3. t \in deps[b]
  BY <1>2 DEF TaskFacts
<1>4. state[b] = "ready" => state[t] = "accepted"
  BY <1>2, <1>3, GatedMeans
<1>5. QED
  BY <1>1, <1>2, <1>4 DEF TaskFacts

LEMMA AgentKeeps ==
    ASSUME TypeOK, LedgerInv, NEW t \in Task, t \in Unlisted', wf' = "running",
           state[t] = "ready", UNCHANGED storeVars, ready' \subseteq ready,
           LaunchAgent(t) \/ LaunchUnprepared(t)
    PROVE  LedgerInv'
<1> DEFINE P == Plain(LaunchSteps')
           st == StartSteps(t, t)
           prepare == IF NeedsWorktree(t) THEN <<[op |-> "worktree", task |-> t]>> ELSE <<>>
<1>1. st \in Scripts(P) /\ st # <<>> /\ Needs(Head(st)) /\ st \in Seq(P)
  <2>1. Launching(t) \in P /\ [op |-> "reserve", task |-> t, by |-> t] \in P
    BY LaunchIn
  <2>2. st # <<>> /\ Needs(Head(st))
    BY DEF StartSteps, Needs
  <2> HIDE DEF P
  <2>3. QED
    BY <2>1, <2>2, StartScript DEF Scripts
<1>2. prepare \in FreeScripts(P) /\ <<[op |-> "submit", task |-> t]>> \in FreeScripts(P)
  <2> DEFINE x == Preparing(t)
             y == Submitting(t)
  <2>1. x \in P /\ y \in P
    BY LaunchIn
  <2>2. Free(x) /\ Free(y)
    BY DEF Preparing, Submitting, Free
  <2> HIDE DEF x, y, P
  <2>3. <<x>> \in FreeScripts(P) /\ <<y>> \in FreeScripts(P) /\ <<>> \in FreeScripts(P)
    BY <2>1, <2>2, SingleScript, NoScript
  <2>4. QED
    BY <2>3 DEF x, y, Preparing, Submitting
<1>3. FailSteps(t) \in FreeScripts(P)
  <2>1. Move(t, "failed") \in P /\ Release(t) \in P
    BY SharedIn, SharedBoth DEF Over
  <2> HIDE DEF P
  <2>2. QED
    BY <2>1, FailScript
<1>4. \/ todo' = (st \o prepare) \o <<[op |-> "submit", task |-> t]>>
      \/ todo' = st \o FailSteps(t)
  BY DEF LaunchAgent, LaunchUnprepared, Launch
<1>5. \A s \in Scripts(P), u \in FreeScripts(P) :
         s # <<>> => s \o u \in Scripts(P) /\ s \o u # <<>> /\ Head(s \o u) = Head(s)
  <2> HIDE DEF P
  <2>1. ASSUME NEW s \in Scripts(P), NEW u \in FreeScripts(P), s # <<>>
        PROVE  s \o u \in Scripts(P) /\ s \o u # <<>> /\ Head(s \o u) = Head(s)
    <3>1. s \in Seq(P) /\ u \in Seq(P)
      BY DEF FreeScripts, Scripts
    <3>2. s \o u \in Scripts(P)
      BY FreeJoin
    <3>3. QED
      BY <2>1, <3>1, <3>2, FrontFirst
  <2>2. QED
    BY <2>1
<1> DEFINE submit == <<[op |-> "submit", task |-> t]>>
           fails == FailSteps(t)
<1>6. PICK s \in Scripts(P) : todo' = s /\ s # <<>> /\ Head(s) = Head(st)
  <2>0. submit \in FreeScripts(P) /\ prepare \in FreeScripts(P) /\ fails \in FreeScripts(P)
    BY <1>2, <1>3
  <2>00. todo' = (st \o prepare) \o submit \/ todo' = st \o fails
    BY <1>4
  <2> DEFINE both == st \o prepare
  <2> HIDE DEF P, st, prepare, submit, fails
  <2>1. both \in Scripts(P) /\ both # <<>> /\ Head(both) = Head(st)
    BY <1>1, <2>0, <1>5
  <2> HIDE DEF both
  <2>2. both \o submit \in Scripts(P) /\ both \o submit # <<>> /\ Head(both \o submit) = Head(st)
    BY <2>0, <2>1, <1>5
  <2>3. st \o fails \in Scripts(P) /\ st \o fails # <<>> /\ Head(st \o fails) = Head(st)
    BY <1>1, <2>0, <1>5
  <2>4. QED
    BY <2>00, <2>2, <2>3 DEF both
<1> HIDE DEF P, st, prepare
<1>7. s \in Scripts(Looped(P))
  BY ScriptsGrow
<1>8. QED
  BY <1>1, <1>6, <1>7, Written DEF LedgerInv, P

LEMMA MapKeeps ==
    ASSUME TypeOK, LedgerInv, NEW t \in Task, t \in Unlisted', wf' = "running",
           state[t] = "ready", UNCHANGED storeVars, ready' \subseteq ready, LaunchMap(t)
    PROVE  LedgerInv'
<1>1. /\ Node[t].kind = "map"
      /\ todo' = ((<<StartComputed(t)>> \o AddAll(t, Node[t].children))
                     \o DependAll(t, Node[t].reduce)) \o AcceptComputed(t)
  BY DEF LaunchMap, Launch, AddAll, DependAll, Adding, Depending
<1> DEFINE M == MapSteps(t)
           a == <<StartComputed(t)>>
           b == AddAll(t, Node[t].children)
           c == DependAll(t, Node[t].reduce)
           d == AcceptComputed(t)
<1>2. a \in Seq(M) /\ b \in Seq(M) /\ c \in Seq(M) /\ d \in Seq(M)
  <2>1. StartComputed(t) \in M
    BY DEF MapSteps
  <2>2. a \in Seq(M)
    BY <2>1, OneIn
  <2>3. QED
    BY <2>2, MapShapes
<1> HIDE DEF M, a, b, c, d
<1>3. ((a \o b) \o c) \o d = a \o (b \o (c \o d))
  <2> DEFINE bc == b \o c
  <2>1. bc \in Seq(M)
    BY <1>2
  <2>2. (a \o b) \o c = a \o bc
    BY <1>2
  <2>3. (a \o bc) \o d = a \o (bc \o d)
    <3> HIDE DEF bc
    <3>1. QED
      BY <1>2, <2>1
  <2>4. bc \o d = b \o (c \o d)
    BY <1>2
  <2>5. QED
    BY <2>2, <2>3, <2>4
<1>4. todo' = <<StartComputed(t)>> \o Expansion(t, Node[t].children)
  BY <1>1, <1>3 DEF a, b, c, d, Expansion, Linking
<1>5. todo' \in Seq(MapSteps(t))
  <2>1. b \o (c \o d) \in Seq(M)
    BY <1>2, ConcatIn
  <2>2. QED
    BY <1>1, <1>2, <1>3, <2>1, ConcatIn DEF a, b, c, d, M
<1>6. Expanding(t)'
  BY <1>4 DEF Expanding, storeVars
<1>7. Scripted'
  BY <1>1, <1>6 DEF Scripted
<1>8. TaskFacts'
  BY RestKeeps DEF LedgerInv, storeVars
<1>9. QED
  BY <1>5, <1>7, <1>8, MapTodoQuiet DEF LedgerInv

LEMMA RepeatKeeps ==
    ASSUME TypeOK, LedgerInv, NEW t \in Task, t \in Unlisted', wf' = "running",
           UNCHANGED storeVars, ready' \subseteq ready,
           todo' = <<StartComputed(t)>> \o Iterate(t, 1)
    PROVE  LedgerInv'
<1> DEFINE x == StartComputed(t)
           y == Iterating(t, 1)
           Q == LaunchSteps'
<1>1. x \in Q /\ y \in Q /\ Free(x) /\ Free(y) /\ x.op # "iterate" /\ y.n = 1
  <2>1. x \in Q
    BY LaunchIn DEF Plain
  <2>2. y \in Q
    BY LaunchIn
  <2>3. QED
    BY <2>1, <2>2 DEF StartComputed, Iterating, Free
<1>2. todo' = <<x>> \o <<y>>
  BY DEF Iterate, Iterating
<1> HIDE DEF x, y, Q
<1>3. todo' = <<x, y>>
  BY <1>1, <1>2, Pair
<1>4. <<x, y>> \in FreeScripts(Q)
  BY <1>1, TwoScript DEF Link
<1>5. todo' \in FreeScripts(Looped(Q))
  BY <1>3, <1>4, LoopedHas
<1>6. \A z \in StepsOf(<<x, y>>) : z = x \/ z = y
  BY DEF StepsOf
<1>7. Iterates'
  <2>1. ASSUME NEW z \in StepsOf(todo'), z.op = "iterate" PROVE Follows(z.root, z.n, todo)'
    <3>1. z = x \/ z = y
      BY <1>3, <1>6
    <3>2. z.n = 1
      BY <1>1, <2>1, <3>1
    <3>3. ~(z.n > 1)
      BY <3>2
    <3>4. QED
      BY <3>3 DEF Follows
  <2>2. QED
    BY <2>1 DEF Iterates
<1>8. HeadNeeds'
  BY <1>5 DEF FreeScripts, Free, HeadNeeds, Needs
<1>9. Scripted'
  BY <1>5 DEF FreeScripts, Scripted, Q
<1>10. TaskFacts'
  BY RestKeeps DEF LedgerInv, storeVars
<1>11. QED
  BY <1>7, <1>8, <1>9, <1>10 DEF LedgerInv

LEMMA LaunchesKeep ==
    ASSUME TypeOK, WorkerInv, LP!Gated, LedgerInv, LaunchTask
    PROVE  LedgerInv'
<1> DEFINE P == Plain(LaunchSteps')
<1>1. PICK t \in ready :
         \/ LaunchDenied(t) \/ LaunchCondition(t) \/ LaunchCheck(t)
         \/ LaunchUnusable(t) \/ LaunchMap(t) \/ LaunchReduce(t) \/ LaunchRepeat(t)
         \/ LaunchApproval(t)
         \/ LaunchNoSlot(t) \/ LaunchCached(t) \/ LaunchAgent(t) \/ LaunchUnprepared(t)
  BY DEF LaunchTask
<1>2. /\ UNCHANGED storeVars /\ ready' = ready \ {t} /\ t \in Unlisted' /\ t \in Task
      /\ wf' = "running" /\ state[t] = "ready" /\ ready' \subseteq ready
  <2>1. \E computed, s : Launch(t, computed, s)
    BY <1>1 DEF LaunchDenied, LaunchCondition, LaunchCheck, LaunchUnusable, LaunchMap, LaunchReduce,
                LaunchRepeat, LaunchApproval, LaunchNoSlot, LaunchCached, LaunchAgent,
                LaunchUnprepared
  <2>2. UNCHANGED storeVars /\ ready' = ready \ {t}
    BY <2>1 DEF Launch, unchangedByMain
  <2>3. t \in Task /\ state[t] = "ready"
    BY DEF TypeOK, LedgerInv, TaskFacts
  <2>4. wf' = "running"
    BY <2>2 DEF WorkerInv, LoopInv, storeVars
  <2>5. QED
    BY <2>2, <2>3, <2>4 DEF Unlisted
<1>3. /\ StartComputed(t) \in P /\ MapMoves(t) \subseteq P /\ Block(t) \in P /\ Release(t) \in P
      /\ \A to \in Over : Move(t, to) \in P
  <2>1. StartComputed(t) \in P
    BY <1>2, LaunchIn
  <2>2. /\ \A to \in Over \cup {"completed", "verifying"} : Move(t, to) \in P
        /\ Block(t) \in P /\ Release(t) \in P
    BY <1>2, SharedIn, SharedBoth
  <2>3. QED
    BY <2>1, <2>2 DEF MapMoves, Over
<1>4. /\ <<StartComputed(t)>> \o AcceptComputed(t) \in FreeScripts(P)
      /\ <<StartComputed(t)>> \o FailSteps(t) \in FreeScripts(P)
      /\ <<Block(t)>> \in FreeScripts(P)
  <2> HIDE DEF P
  <2>1. AcceptComputed(t) \in FreeScripts(P) /\ FailSteps(t) \in FreeScripts(P)
    BY <1>3, AcceptScript, FailScript DEF MapMoves, Over
  <2>2. Free(Block(t))
    BY DEF Block, Free
  <2>3. QED
    BY <1>3, <2>1, <2>2, ComputedScript, SingleScript
<1>5. ASSUME NEW s \in FreeScripts(P), todo' = s PROVE LedgerInv'
  <2>1. s \in FreeScripts(Looped(P))
    BY LoopedHas
  <2>2. QED
    BY <1>2, <1>5, <2>1, FreeWritten DEF LedgerInv
<1>6. CASE LaunchDenied(t) \/ LaunchNoSlot(t)
  BY <1>4, <1>5, <1>6 DEF LaunchDenied, LaunchNoSlot, Launch
<1>7. CASE LaunchCondition(t)
  <2> DEFINE skipped == IF branch[t] = "on_true" THEN Node[t].on_false ELSE Node[t].on_true
             items == {<<Block(b)>> : b \in skipped}
  <2>1. \/ todo' = <<StartComputed(t)>> \o FailSteps(t)
        \/ todo' = (<<StartComputed(t)>> \o AcceptComputed(t)) \o Each(items)
    BY <1>7 DEF LaunchCondition, Launch
  <2>2. ASSUME NEW b \in skipped PROVE <<Block(b)>> \in FreeScripts(P)
    <3>1. b \in Task /\ b \notin ready
      BY <1>7, BranchUnlisted DEF LaunchCondition, LedgerInv
    <3>2. b \in Unlisted'
      BY <1>2, <3>1 DEF Unlisted
    <3>3. Block(b) \in P /\ Free(Block(b))
      BY <3>2, SharedIn, SharedBoth DEF Block, Free
    <3>4. QED
      BY <3>3, SingleScript
  <2>3. items \in SUBSET FreeScripts(P)
    BY <2>2
  <2>4. Each(items) \in FreeScripts(Looped(P))
    BY <2>3, LoopScripts
  <2>5. <<StartComputed(t)>> \o AcceptComputed(t) \in FreeScripts(Looped(P))
    BY <1>4, LoopedHas
  <2> HIDE DEF items, P
  <2>6. (<<StartComputed(t)>> \o AcceptComputed(t)) \o Each(items) \in FreeScripts(Looped(P))
    BY <2>4, <2>5, FreeJoin DEF FreeScripts
  <2>7. QED
    BY <1>2, <1>4, <1>5, <2>1, <2>6, FreeWritten DEF P, LedgerInv
<1>8. CASE LaunchCheck(t)
  <2>1. PICK to \in {"accepted", "rejected"} :
           todo' = <<StartComputed(t), Move(t, "completed"), Move(t, "verifying"),
                     Move(t, to), Release(t)>>
    BY <1>8 DEF LaunchCheck, Launch
  <2>2. to \in Over
    BY DEF Over
  <2> HIDE DEF P
  <2>3. QED
    BY <1>3, <1>5, <2>1, <2>2, CheckScript
<1>9. CASE LaunchUnusable(t) \/ LaunchReduce(t) \/ LaunchCached(t)
  <2>1. \/ todo' = <<StartComputed(t)>> \o FailSteps(t)
        \/ todo' = <<StartComputed(t)>> \o AcceptComputed(t)
    BY <1>9 DEF LaunchUnusable, LaunchReduce, LaunchCached, Launch
  <2>2. QED
    BY <1>4, <1>5, <2>1
<1>10. CASE LaunchMap(t)
  BY <1>2, <1>10, MapKeeps
<1>11. CASE LaunchRepeat(t) \/ LaunchApproval(t)
  <2>1. \/ todo' = <<>> \/ todo' = <<StartComputed(t)>> \o FailSteps(t)
        \/ todo' = <<StartComputed(t)>> \o Iterate(t, 1)
    BY <1>11 DEF LaunchRepeat, LaunchApproval, Launch
  <2>2. <<>> \in FreeScripts(P)
    BY NoScript
  <2>3. QED
    BY <1>2, <1>4, <1>5, <2>1, <2>2, RepeatKeeps
<1>12. CASE LaunchAgent(t) \/ LaunchUnprepared(t)
  BY <1>2, <1>12, AgentKeeps
<1>13. QED
  BY <1>1, <1>6, <1>7, <1>8, <1>9, <1>10, <1>11, <1>12

-----------------------------------------------------------------------------
(* A step of a script, whatever the script is.                               *)
LEMMA PopConclude ==
    ASSUME TypeOK, TaskFacts, MayConclude, todo = <<Workflow("succeeded")>>, Popping
    PROVE  [L!Next]_(L!storeVars) /\ LedgerInv'
<1>1. todo # <<>> /\ todo' = Tail(todo) /\ ready' = ready /\ StoreStep(Head(todo))
  BY PopStore
<1>2. Head(todo).op = "workflow" /\ Head(todo).to = "succeeded" /\ todo' = <<>>
  BY <1>1, WorkflowHead
<1>3. TransitionWorkflow("succeeded")
  BY <1>1, <1>2 DEF StoreStep
<1>4. L!Next
  BY <1>3, WorkflowEvent DEF WorkflowState
<1>5. TaskFacts'
  BY <1>1, <1>3, RestKeeps DEF TransitionWorkflow
<1>6. Scripted' /\ HeadNeeds' /\ Iterates'
  BY <1>2, NoScript DEF Scripted, FreeScripts, HeadNeeds, Iterates, StepsOf
<1>7. QED
  BY <1>4, <1>5, <1>6 DEF LedgerInv

LEMMA PerformKeeps ==
    ASSUME TypeOK, LP!Gated, LedgerInv, Popping
    PROVE  [L!Next]_(L!storeVars) /\ LedgerInv'
<1>1. HeadNeeds /\ Iterates /\ TaskFacts
  BY DEF LedgerInv
<1>2. CASE Ordinary
  BY <1>1, <1>2, PopOrdinary
<1>3. CASE MayConclude /\ todo = <<Workflow("succeeded")>>
  BY <1>1, <1>3, PopConclude
<1>4. ASSUME NEW t \in Task, Expands(t) PROVE [L!Next]_(L!storeVars) /\ LedgerInv'
  BY <1>1, <1>4, PopExpanding
<1>5. QED
  BY <1>2, <1>3, <1>4 DEF LedgerInv, Scripted, Ordinary, Expands, Unlisted

LEMMA EachKeeps ==
    ASSUME TypeOK, LedgerInv, PerformEach
    PROVE  LedgerInv'
<1>1. Iterates /\ TaskFacts
  BY DEF LedgerInv
<1>2. CASE Ordinary
  BY <1>1, <1>2, EachOrdinary
<1>3. todo # <<Workflow("succeeded")>>
  BY WorkflowHead DEF PerformEach, At
<1>4. ASSUME NEW t \in Task, Expands(t) PROVE LedgerInv'
  BY <1>1, <1>4, EachExpanding
<1>5. QED
  BY <1>2, <1>3, <1>4 DEF LedgerInv, Scripted, Ordinary, Expands, Unlisted

(* a step beside the main loop leaves its script as it is *)
LEMMA ScriptStays ==
    ASSUME StoreTypeOK, LedgerInv, todo' = todo, ready' = ready,
           UNCHANGED <<wf, state, deps, attempt, keys>>
    PROVE  LedgerInv'
<1>1. Onward /\ TaskFacts'
  BY RestKeeps DEF LedgerInv
<1>2. RetrySteps \subseteq RetrySteps' /\ LaunchSteps \subseteq LaunchSteps'
  BY <1>1, RetryGrow, LaunchGrow
<1>3. /\ Scripts(Looped(RetrySteps)) \subseteq Scripts(Looped(RetrySteps'))
      /\ Scripts(Looped(LaunchSteps)) \subseteq Scripts(Looped(LaunchSteps'))
  BY <1>2, ScriptsGrow
<1>4. MayConclude => MayConclude'
  BY DEF MayConclude
<1>5. ASSUME NEW t \in Unlisted, Expanding(t) PROVE t \in Unlisted' /\ Expanding(t)'
  BY <1>5 DEF Unlisted, Expanding, Added, Present
<1>6. Scripted'
  BY <1>3, <1>4, <1>5 DEF LedgerInv, Scripted
<1>7. HeadNeeds'
  BY DEF LedgerInv, HeadNeeds, Needs, ReserveKey
<1>8. Iterates'
  BY DEF LedgerInv, Iterates, Follows
<1>9. QED
  BY <1>1, <1>6, <1>7, <1>8 DEF LedgerInv

LEMMA WorkersKeep ==
    ASSUME StoreTypeOK, LedgerInv,
           \/ \E t \in Task : Worker(t)
           \/ \E r \in Request : Submit(r)
           \/ OrphanExits \/ UNCHANGED vars
    PROVE  UNCHANGED storeVars /\ LedgerInv'
<1>1. UNCHANGED storeVars /\ todo' = todo /\ ready' = ready
  BY DEF Worker, Spawn, SpawnFails, Register, RecordPid, Finish, unchangedByWorker, Submit,
         OrphanExits, loopVars, vars
<1>2. QED
  BY <1>1, ScriptStays DEF storeVars

LEMMA UsageKeeps ==
    ASSUME StoreTypeOK, LedgerInv, NEW t \in Task, ReportUsage(t)
    PROVE  L!Next /\ LedgerInv'
<1>1. PICK n \in UsageDeltas : used + n <= UsageBound /\ RecordUsage(n)
  BY DEF ReportUsage
<1>2. L!ReportUsage
  BY <1>1, SameStore DEF L!ReportUsage
<1>3. todo' = todo /\ ready' = ready
  BY DEF ReportUsage, unchangedByWorker, loopVars
<1>4. LedgerInv'
  BY <1>1, <1>3, ScriptStays DEF RecordUsage
<1>5. QED
  BY <1>2, <1>4 DEF L!Next

-----------------------------------------------------------------------------
(* Every step of the runtime is an event of the journal, or none.            *)
LEMMA NothingAppended == UNCHANGED storeVars => [L!Next]_(L!storeVars)
BY DEF storeVars, L!storeVars

LEMMA LedgerInvKept ==
    ASSUME RuntimeInv, LP!Gated, LedgerInv, [Next]_vars
    PROVE  [L!Next]_(L!storeVars) /\ LedgerInv'
<1>1. TypeOK /\ StoreTypeOK /\ TodoInv /\ WorkerInv /\ LoopInv /\ TaskFacts
  BY DEF RuntimeInv, TypeOK, WorkerInv, LedgerInv
<1>2. CASE Popping
  BY <1>1, <1>2, PerformKeeps
<1>3. CASE PerformSubmit
  BY <1>1, <1>3, SubmitKeeps, NothingAppended
<1>4. CASE Rescripting
  <2>1. UNCHANGED storeVars
    BY <1>4 DEF Rescripting, PerformReserveRefused, PerformReserveRefusedRepeat, PerformEach,
                PerformDecide, PerformIterate
  <2>2. LedgerInv'
    BY <1>1, <1>4, RefusedKeeps, EachKeeps, DecideKeeps, IterateKeeps DEF Rescripting
  <2>3. QED
    BY <2>1, <2>2, NothingAppended
<1>5. CASE Scripting
  <2>1. UNCHANGED storeVars
    BY <1>1, <1>5, ScriptingShape
  <2>2. ASSUME Boot \/ Resume \/ RefreshBefore \/ RefreshAfter PROVE LedgerInv'
    BY <1>1, <2>2, BootKeeps, ResumeKeeps, RefreshKeeps
  <2>3. ASSUME Recovered \/ TakeInbox \/ InboxDone \/ EndLaunch \/ WaitTimeout \/ ListReady
        PROVE  LedgerInv'
    BY <1>1, <2>3, PassKeeps
  <2>4. ASSUME HandleRequest \/ LaunchTask \/ SettleIteration PROVE LedgerInv'
    BY <1>1, <2>4, HandlesKeep, LaunchesKeep, SettleKeeps
  <2>5. QED
    BY <1>5, <2>1, <2>2, <2>3, <2>4, NothingAppended DEF Scripting
<1>6. CASE CollectFuture
  BY <1>1, <1>6, CollectsKeep, NothingAppended
<1>7. CASE Drives
  BY <1>1, <1>7, DrivesKeep, NothingAppended
<1>8. CASE Close \/ Crash
  <2>1. UNCHANGED storeVars /\ todo' = <<>> /\ ready' \subseteq ready
    BY <1>8 DEF Close, Crash, Idle, unchangedByMain
  <2>2. QED
    BY <1>1, <2>1, NothingWritten, NothingAppended
<1>9. CASE \/ \E t \in Task : Worker(t)
           \/ \E r \in Request : Submit(r)
           \/ OrphanExits \/ UNCHANGED vars
  BY <1>1, <1>9, WorkersKeep, NothingAppended
<1>10. CASE \E t \in Task : ReportUsage(t)
  BY <1>1, <1>10, UsageKeeps
<1>11. Perform => Popping \/ PerformSubmit \/ Rescripting
  BY DEF Perform, Popping, Rescripting
<1>12. QED
  BY <1>2, <1>3, <1>4, <1>5, <1>6, <1>7, <1>8, <1>9, <1>10, <1>11
     DEF Next, Main, Scripting, Repeat, Drives, Rescripting

LEMMA LedgerInvStarts ==
    ASSUME Init
    PROVE  L!StoreInit /\ LP!Gated /\ LedgerInv
<1> USE DEF Init, StoreInit
<1>1. L!StoreInit
  BY DEF L!StoreInit
<1>2. LP!Gated
  BY StoreAssumption DEF LP!Gated, LP!GatedByAcceptance, LP!DepsAccepted
<1>3. Scripted /\ HeadNeeds /\ Iterates
  BY NoScript DEF Scripted, FreeScripts, HeadNeeds, Iterates, StepsOf
<1>4. \A i \in Iteration : i \in Task /\ i \notin Static
  BY GraphAssumption DEF Iteration
<1>5. TaskFacts
  BY <1>4, StoreAssumption DEF TaskFacts
<1>6. QED
  BY <1>1, <1>2, <1>3, <1>5 DEF LedgerInv

(* Every append of the main loop, its workers and its recovery is one the    *)
(* journal's contract allows, wherever a crash cuts a handler short          *)
(* (workflow.py, scheduler.py and recovery.py against module Ledger), in     *)
(* every workflow that normalize_workflow lets through.                      *)
THEOREM RuntimeImplementsLedger == Spec => ImplementsLedger
<1>1. Init => L!StoreInit /\ LP!Gated /\ LedgerInv
  BY LedgerInvStarts
<1>2. RuntimeInv /\ LP!Gated /\ LedgerInv /\ [Next]_vars => [L!Next]_(L!storeVars)
  BY LedgerInvKept
<1>3. RuntimeInv /\ LP!Gated /\ LedgerInv /\ [Next]_vars => (LP!Gated /\ LedgerInv)'
  BY LedgerInvKept, GatedKept DEF RuntimeInv, TypeOK
<1>4. QED
  BY <1>1, <1>2, <1>3, RuntimeInvAlways, PTL DEF Spec, ImplementsLedger, L!Spec

(* the contract as it is proved about is the contract that is implemented *)
LEMMA SameContract == L!Spec => LP!Spec
<1>1. L!StoreInit => LP!StoreInit
  BY DEF L!StoreInit, LP!StoreInit
<1>2. [L!Next]_(L!storeVars) => [LP!Next]_(LP!storeVars)
  BY SameEvents
<1>3. QED
  BY <1>1, <1>2, PTL DEF L!Spec, LP!Spec

(* So what the contract promises holds of every run of every workflow: only  *)
(* accepted dependencies let a task be attempted, no sequence of retries,    *)
(* requests and crashes starts more attempts than max_attempts, reservations *)
(* stay within the limit and cover what the tasks hold, a success leaves     *)
(* nothing open, and what is settled stays so (run, refresh_ready,           *)
(* maybe_retry, manual_retry, reserve_budget, release_budget).               *)
THEOREM RuntimeKeepsTheContract ==
    Spec => /\ [](/\ LP!GatedByAcceptance /\ LP!AttemptsBounded
                  /\ LP!ReservationsWithinLimit /\ LP!SucceededIsSettled
                  /\ LP!BudgetCoversTasks)
            /\ LP!SettledForGood
<1>1. L!Spec => LP!Spec
  BY SameContract
<1>2. LP!Spec => []LP!GatedByAcceptance
  BY LedgerConstants, LP!AcceptanceGates
<1>3. LP!Spec => []LP!AttemptsBounded
  BY LedgerConstants, LP!AttemptsAreBounded
<1>4. LP!Spec => []LP!ReservationsWithinLimit
  BY LedgerConstants, LP!ReservationsFit
<1>5. LP!Spec => []LP!SucceededIsSettled
  BY LedgerConstants, LP!SuccessIsSettled
<1>6. LP!Spec => LP!SettledForGood
  BY LedgerConstants, LP!SettledTasksRest
<1>7. LP!Spec => []LP!BudgetCoversTasks
  BY LedgerConstants, LP!BudgetCovers
<1>8. QED
  BY <1>1, <1>2, <1>3, <1>4, <1>5, <1>6, <1>7, RuntimeImplementsLedger,
     PTL DEF ImplementsLedger

(* Down to what every delegated task is for: a run comes to tries and        *)
(* verdicts over accepted needs, and takes no verdict back (module           *)
(* Acceptance against run, scheduler.py and recovery.py).                    *)
THEOREM RuntimeImplementsAcceptance == Spec => LP!ImplementsAcceptance
<1>1. L!Spec => LP!Spec
  BY SameContract
<1>2. LP!Spec => LP!ImplementsAcceptance
  BY LedgerConstants, LP!JournalImplementsAcceptance
<1>3. QED
  BY <1>1, <1>2, RuntimeImplementsLedger, PTL DEF ImplementsLedger

-----------------------------------------------------------------------------
(* Scripts that run through.  A script of todo is followed from the states   *)
(* it is written for; P is a set of scripts, each with the states it meets,   *)
(* that no step leaves.                                                      *)
Hard(x) == x.op \in {"move", "fail", "start", "launch"}
Goal(x) == IF x.op \in {"start", "launch"} THEN "running" ELSE x.to
After(x, u) ==
    IF Hard(x) THEN [u EXCEPT ![x.task] = Goal(x)]
    ELSE IF x.op = "block" /\ u[x.task] \in {"pending", "ready"}
         THEN [u EXCEPT ![x.task] = "blocked"]
    ELSE IF x.op = "add" /\ u[x.task] = "absent" THEN [u EXCEPT ![x.task] = "pending"]
    ELSE u
AfterWf(x, w) == IF x.op = "workflow" THEN x.to ELSE w

\* how the handler of a request ends
Closings == [op : {"processed", "archive"}, request : Request]

\* step y takes task t out of running, or gives it the worker that will; a script
\* cares for t if it has such a step, itself or in a loop
Tends(y, t) ==
    \/ y.op \in {"move", "fail", "submit"} /\ y.task = t
    \/ y.op \in {"iterate", "drive"} /\ y.root = t
Among(t, y) ==
    Tends(y, t) \/ (y.op = "each" /\ \E i \in y.items : \E z \in StepsOf(i) : Tends(z, t))
Cares(t, s) == \E y \in StepsOf(s) : Among(t, y)

\* the store takes x in the states u and w, and x finds what it was written for
Fits(x, rest, u, w) ==
    /\ Hard(x) => CanTransitionTask(u[x.task], Goal(x))
    /\ x.op = "workflow" => CanTransitionWorkflow(w, x.to)
    /\ x.op \in {"start", "launch"} => Cares(x.task, rest)
    /\ x.op = "reserve" /\ x.by # x.task =>
          /\ u[x.by] = "running" /\ u[x.task] = "ready"
          /\ \A t \in Task : Cares(t, rest) => t \in {x.task, x.by}
    /\ x.op = "iterate" => u[x.root] = "running"
    /\ x.op = "drive" => u[x.root] = "running" /\ u[Node[x.root].iterations[x.n]] = "running"
    /\ x.op = "decide" => rest \in Seq(Closings)

\* how scripts are put together, under names of their own
Lead(x, s) == <<x>> \o s
Then(s, r) == s \o r
Script(s) == \E S : s \in Seq(S)
Point(s, u, w) == [todo |-> s, state |-> u, wf |-> w]
Nexts(p) ==
    LET x == Head(p.todo)
    IN IF x.op = "each"
       THEN {Point(Then(Then(i, Each(x.items \ {i})), Tail(p.todo)), p.state, p.wf) : i \in x.items}
       ELSE {Point(Tail(p.todo), After(x, p.state), AfterWf(x, p.wf))}
Lasting(P) ==
    \A p \in P : p.todo # <<>> =>
        Fits(Head(p.todo), Tail(p.todo), p.state, p.wf) /\ Nexts(p) \subseteq P
Runs(s, u, w) == Script(s) /\ \E P : Lasting(P) /\ Point(s, u, w) \in P

LEMMA ScriptTail == \A s : Script(s) /\ s # <<>> => Script(Tail(s))
BY DEF Script

LEMMA EmptyScript == \A s : s = <<>> => Script(s)
<1> SUFFICES ASSUME NEW s, s = <<>> PROVE Script(s)
  OBVIOUS
<1>1. s \in Seq({})
  OBVIOUS
<1>2. QED
  BY <1>1 DEF Script

LEMMA LeadScript ==
    \A x, s : Script(s) => /\ Script(Lead(x, s)) /\ Lead(x, s) # <<>>
                           /\ Head(Lead(x, s)) = x /\ Tail(Lead(x, s)) = s
<1> SUFFICES ASSUME NEW x, NEW s, Script(s)
             PROVE  /\ Script(Lead(x, s)) /\ Lead(x, s) # <<>>
                    /\ Head(Lead(x, s)) = x /\ Tail(Lead(x, s)) = s
  OBVIOUS
<1>1. PICK S : s \in Seq(S)
  BY DEF Script
<1> DEFINE A == S \cup {x}
<1>2. s \in Seq(A) /\ x \in A
  BY <1>1, SeqGrows
<1> HIDE DEF A
<1>3. QED
  BY <1>2, OneFirst DEF Script, Lead

LEMMA LeadSplit == \A s : Script(s) /\ s # <<>> => s = Lead(Head(s), Tail(s))
<1> SUFFICES ASSUME NEW s, Script(s), s # <<>> PROVE s = Lead(Head(s), Tail(s))
  OBVIOUS
<1>1. PICK S : s \in Seq(S)
  BY DEF Script
<1> DEFINE r == <<Head(s)>> \o Tail(s)
<1>2. r \in Seq(S) /\ Len(r) = Len(s)
  BY <1>1
<1>3. \A i \in 1..Len(s) : r[i] = s[i]
  BY <1>1
<1> HIDE DEF r
<1>4. r = s
  BY <1>1, <1>2, <1>3, SeqEqual
<1>5. QED
  BY <1>4 DEF r, Lead

LEMMA ThenScript ==
    \A s, r : Script(s) /\ Script(r) =>
        Script(Then(s, r)) /\ Then(s, <<>>) = s /\ Then(<<>>, s) = s
<1> SUFFICES ASSUME NEW s, NEW r, Script(s), Script(r)
             PROVE  Script(Then(s, r)) /\ Then(s, <<>>) = s /\ Then(<<>>, s) = s
  OBVIOUS
<1>1. PICK S : s \in Seq(S)
  BY DEF Script
<1>2. PICK R : r \in Seq(R)
  BY DEF Script
<1>3. s \in Seq(S \cup R) /\ r \in Seq(S \cup R)
  BY <1>1, <1>2, SeqGrows
<1>4. s \o r \in Seq(S \cup R)
  BY <1>3, ConcatIn
<1>5. s \o <<>> = s /\ <<>> \o s = s
  BY <1>1, EmptyFront
<1>6. QED
  BY <1>4, <1>5 DEF Script, Then

LEMMA ThenAssoc ==
    \A s, r, q : Script(s) /\ Script(r) /\ Script(q) =>
        Then(Then(s, r), q) = Then(s, Then(r, q))
<1> SUFFICES ASSUME NEW s, NEW r, NEW q, Script(s), Script(r), Script(q)
             PROVE  Then(Then(s, r), q) = Then(s, Then(r, q))
  OBVIOUS
<1>1. PICK S : s \in Seq(S)
  BY DEF Script
<1>2. PICK R : r \in Seq(R)
  BY DEF Script
<1>3. PICK Q : q \in Seq(Q)
  BY DEF Script
<1> DEFINE A == S \cup R \cup Q
<1>4. s \in Seq(A) /\ r \in Seq(A) /\ q \in Seq(A)
  BY <1>1, <1>2, <1>3, SeqGrows
<1> HIDE DEF A
<1>5. QED
  BY <1>4, ConcatAssoc DEF Then

LEMMA LeadThen ==
    \A x, s, r : Script(s) /\ Script(r) => Then(Lead(x, s), r) = Lead(x, Then(s, r))
<1> SUFFICES ASSUME NEW x, NEW s, NEW r, Script(s), Script(r)
             PROVE  Then(Lead(x, s), r) = Lead(x, Then(s, r))
  OBVIOUS
<1> DEFINE one == <<x>>
<1>1. x \in {x}
  OBVIOUS
<1>2. Script(one)
  BY <1>1, OneIn DEF Script
<1> HIDE DEF one
<1>3. Then(Then(one, s), r) = Then(one, Then(s, r))
  BY <1>2, ThenAssoc
<1>4. QED
  BY <1>3 DEF Then, Lead, one

(* tuples *)
LEMMA LeadTuple ==
    ASSUME NEW x, NEW y, NEW z
    PROVE  /\ <<x>> = Lead(x, <<>>) /\ <<x, y>> = Lead(x, Lead(y, <<>>))
           /\ <<x, y, z>> = Lead(x, Lead(y, Lead(z, <<>>)))
<1> DEFINE A == {x, y, z}
           one == <<x>>
           last == <<z>>
           two == <<y, z>>
<1>1. x \in A /\ y \in A /\ z \in A
  OBVIOUS
<1> HIDE DEF A
<1>2. <<x>> \in Seq(A) /\ <<y>> \in Seq(A) /\ <<z>> \in Seq(A) /\ <<y, z>> \in Seq(A)
      /\ <<x, y, z>> \in Seq(A)
  BY <1>1, OneIn, TwoIn, ThreeIn
<1>3. \A e \in A : <<e>> = Lead(e, <<>>)
  <2>1. ASSUME NEW e \in A PROVE <<e>> = Lead(e, <<>>)
    <3> DEFINE s == <<e>>
    <3>1. s \in Seq(A)
      BY <2>1, OneIn
    <3> HIDE DEF s
    <3>2. s \o <<>> = s
      BY <3>1, EmptyFront
    <3>3. QED
      BY <3>2 DEF s, Lead
  <2>2. QED
    BY <2>1
<1>4. \A d, e \in A : <<d, e>> = Lead(d, Lead(e, <<>>))
  <2>1. ASSUME NEW d \in A, NEW e \in A PROVE <<d, e>> = Lead(d, Lead(e, <<>>))
    <3>1. <<d, e>> = <<d>> \o <<e>>
      BY Pair
    <3>2. QED
      BY <1>3, <3>1 DEF Lead
  <2>2. QED
    BY <2>1
<1>5. <<x, y, z>> = one \o two
  <2>1. one \o two \in Seq(A)
    <3> HIDE DEF one, two
    <3>1. QED
      BY <1>2, ConcatIn DEF one, two
  <2>2. Len(<<x, y, z>>) = 3 /\ Len(one \o two) = 3
    OBVIOUS
  <2>3. \A i \in 1..3 : <<x, y, z>>[i] = (one \o two)[i]
    OBVIOUS
  <2>4. QED
    BY <1>2, <2>1, <2>2, <2>3, SeqEqual
<1>6. two = Lead(y, Lead(z, <<>>))
  BY <1>1, <1>4
<1> HIDE DEF two
<1>7. <<x, y, z>> = Lead(x, two)
  BY <1>5 DEF Lead
<1>8. <<x>> = Lead(x, <<>>) /\ <<x, y>> = Lead(x, Lead(y, <<>>))
  BY <1>1, <1>3, <1>4
<1>9. QED
  BY <1>6, <1>7, <1>8

LEMMA CaresLead ==
    \A x, s, t : Script(s) => (Cares(t, Lead(x, s)) <=> Among(t, x) \/ Cares(t, s))
<1> SUFFICES ASSUME NEW x, NEW s, NEW t, Script(s)
             PROVE  Cares(t, Lead(x, s)) <=> Among(t, x) \/ Cares(t, s)
  OBVIOUS
<1>1. PICK S : s \in Seq(S)
  BY DEF Script
<1> DEFINE A == S \cup {x}
           one == <<x>>
<1>2. s \in Seq(A) /\ one \in Seq(A)
  BY <1>1, SeqGrows, OneIn
<1>3. StepsOf(one) = {x}
  BY OneStep
<1> HIDE DEF A, one
<1>4. StepsOf(one \o s) = {x} \cup StepsOf(s)
  BY <1>2, <1>3, StepsOfJoin
<1>5. QED
  BY <1>4 DEF Cares, Lead, one

LEMMA CaresThen ==
    \A p, s, t : Script(p) /\ Script(s) => (Cares(t, Then(p, s)) <=> Cares(t, p) \/ Cares(t, s))
<1> SUFFICES ASSUME NEW p, NEW s, NEW t, Script(p), Script(s)
             PROVE  Cares(t, Then(p, s)) <=> Cares(t, p) \/ Cares(t, s)
  OBVIOUS
<1>1. PICK P : p \in Seq(P)
  BY DEF Script
<1>2. PICK S : s \in Seq(S)
  BY DEF Script
<1>3. p \in Seq(P \cup S) /\ s \in Seq(P \cup S)
  BY <1>1, <1>2, SeqGrows
<1>4. StepsOf(p \o s) = StepsOf(p) \cup StepsOf(s)
  BY <1>3, StepsOfJoin
<1>5. QED
  BY <1>4 DEF Cares, Then

LEMMA CaresNothing == \A s, t : s = <<>> => ~Cares(t, s)
BY DEF Cares, StepsOf

\* what the first steps of a script do for a task
LEMMA CaresSoon ==
    ASSUME NEW s, Script(s), NEW t
    PROVE  /\ \A to : Cares(t, Lead(Move(t, to), s))
           /\ \A x : x.op \in {"iterate", "drive"} /\ x.root = t => Cares(t, Lead(x, s))
           /\ \A x : x.op = "submit" /\ x.task = t => Cares(t, Lead(x, s))
<1>1. \A to : Move(t, to).op = "move" /\ Move(t, to).task = t
  BY DEF Move
<1>2. QED
  BY <1>1, CaresLead DEF Among, Tends

-----------------------------------------------------------------------------
LEMMA RunsNothing == \A s, u, w : s = <<>> => Runs(s, u, w)
<1> SUFFICES ASSUME NEW s, NEW u, NEW w, s = <<>> PROVE Runs(s, u, w)
  OBVIOUS
<1> DEFINE P == {Point(s, u, w)}
<1>1. Lasting(P)
  BY DEF Lasting, Point
<1>2. Script(s) /\ Point(s, u, w) \in P
  BY EmptyScript
<1> HIDE DEF P
<1>3. QED
  BY <1>1, <1>2 DEF Runs

LEMMA RunsFront ==
    ASSUME NEW x, NEW s, NEW u, NEW w, x.op # "each", Fits(x, s, u, w),
           Runs(s, After(x, u), AfterWf(x, w))
    PROVE  Runs(Lead(x, s), u, w)
<1>1. PICK P : Lasting(P) /\ Point(s, After(x, u), AfterWf(x, w)) \in P
  BY DEF Runs
<1> DEFINE r == Lead(x, s)
           p == Point(r, u, w)
           Q == P \cup {p}
<1>2. Script(r) /\ r # <<>> /\ Head(r) = x /\ Tail(r) = s
  BY LeadScript DEF Runs
<1> HIDE DEF r
<1>3. p.todo = r /\ p.state = u /\ p.wf = w
  BY DEF Point
<1> HIDE DEF p
<1>4. Fits(Head(p.todo), Tail(p.todo), p.state, p.wf) /\ Nexts(p) \subseteq P
  BY <1>1, <1>2, <1>3 DEF Nexts
<1>5. Lasting(Q)
  BY <1>1, <1>4 DEF Lasting
<1>6. QED
  BY <1>2, <1>5 DEF Runs, r, p

LEMMA RunsOn ==
    ASSUME NEW s, NEW u, NEW w, Runs(s, u, w), s # <<>>, Head(s).op # "each"
    PROVE  /\ Fits(Head(s), Tail(s), u, w)
           /\ Runs(Tail(s), After(Head(s), u), AfterWf(Head(s), w))
<1>1. PICK P : Lasting(P) /\ Point(s, u, w) \in P
  BY DEF Runs
<1> DEFINE p == Point(s, u, w)
<1>2. p.todo = s /\ p.state = u /\ p.wf = w
  BY DEF Point
<1> HIDE DEF p
<1>3. Fits(Head(s), Tail(s), u, w) /\ Nexts(p) \subseteq P
  BY <1>1, <1>2 DEF Lasting, p
<1>4. Point(Tail(s), After(Head(s), u), AfterWf(Head(s), w)) \in P
  BY <1>2, <1>3 DEF Nexts
<1>5. QED
  BY <1>1, <1>3, <1>4, ScriptTail DEF Runs

LEMMA RunsPass ==
    ASSUME NEW s, NEW u, NEW w, Runs(s, u, w), s # <<>>, Head(s).op = "each",
           NEW i \in Head(s).items, Script(i), Script(Each(Head(s).items \ {i}))
    PROVE  Runs(Then(Then(i, Each(Head(s).items \ {i})), Tail(s)), u, w)
<1>1. PICK P : Lasting(P) /\ Point(s, u, w) \in P
  BY DEF Runs
<1> DEFINE p == Point(s, u, w)
           r == Then(Then(i, Each(Head(s).items \ {i})), Tail(s))
<1>2. p.todo = s /\ p.state = u /\ p.wf = w
  BY DEF Point
<1> HIDE DEF p
<1>3. Nexts(p) \subseteq P
  BY <1>1, <1>2 DEF Lasting, p
<1>4. Point(r, u, w) \in P
  BY <1>2, <1>3 DEF Nexts
<1>5. Script(r)
  BY ScriptTail, ThenScript DEF Runs
<1>6. QED
  BY <1>1, <1>4, <1>5 DEF Runs

(* A loop runs through if its passes do one after the other, whatever the    *)
(* order: Z holds the sets of items left, with the states they are left in.   *)
Simple(x, u) ==
    /\ x.op \in {"move", "kill", "release", "block", "add", "depend"}
    /\ x.op = "move" => CanTransitionTask(u[x.task], x.to)
\* q takes the states from u to v
Path(q, u, v) ==
    \/ q = <<>> /\ v = u
    \/ \E x : q = Lead(x, <<>>) /\ Simple(x, u) /\ v = After(x, u)
    \/ \E x, y : /\ q = Lead(x, Lead(y, <<>>)) /\ Simple(x, u) /\ Simple(y, After(x, u))
                 /\ v = After(y, After(x, u))
    \/ \E x, y, z :
          /\ q = Lead(x, Lead(y, Lead(z, <<>>))) /\ Simple(x, u) /\ Simple(y, After(x, u))
          /\ Simple(z, After(y, After(x, u))) /\ v = After(z, After(y, After(x, u)))

LEMMA PathScript == \A q, u, v : Path(q, u, v) => Script(q)
BY EmptyScript, LeadScript DEF Path

LEMMA PathStep ==
    ASSUME NEW q, NEW u, NEW v, Path(q, u, v), q # <<>>
    PROVE  /\ Simple(Head(q), u) /\ Path(Tail(q), After(Head(q), u), v)
<1>0. Script(<<>>)
  BY EmptyScript
<1> DEFINE e == <<>>
<1> HIDE DEF e
<1>1. ASSUME NEW x, q = Lead(x, e), Simple(x, u), v = After(x, u)
      PROVE  /\ Simple(Head(q), u) /\ Path(Tail(q), After(Head(q), u), v)
  BY <1>0, <1>1, LeadScript DEF Path, e
<1>2. ASSUME NEW x, NEW y, q = Lead(x, Lead(y, e)), Simple(x, u), Simple(y, After(x, u)),
             v = After(y, After(x, u))
      PROVE  /\ Simple(Head(q), u) /\ Path(Tail(q), After(Head(q), u), v)
  <2>1. Head(q) = x /\ Tail(q) = Lead(y, e)
    BY <1>0, <1>2, LeadScript DEF e
  <2>2. QED
    BY <1>2, <2>1 DEF Path, e
<1>3. ASSUME NEW x, NEW y, NEW z, q = Lead(x, Lead(y, Lead(z, e))), Simple(x, u),
             Simple(y, After(x, u)), Simple(z, After(y, After(x, u))),
             v = After(z, After(y, After(x, u)))
      PROVE  /\ Simple(Head(q), u) /\ Path(Tail(q), After(Head(q), u), v)
  <2>1. Head(q) = x /\ Tail(q) = Lead(y, Lead(z, e))
    BY <1>0, <1>3, LeadScript DEF e
  <2>2. QED
    BY <1>3, <2>1 DEF Path, e
<1>4. QED
  BY <1>1, <1>2, <1>3 DEF Path, e

LEMMA EachFront ==
    ASSUME NEW J, J # {}, NEW s, Script(s)
    PROVE  LET r == Then(Each(J), s)
           IN /\ Script(r) /\ r # <<>> /\ Tail(r) = s
              /\ Head(r).op = "each" /\ Head(r).items = J
<1> DEFINE x == [op |-> "each", items |-> J]
<1>1. x.op = "each" /\ x.items = J
  OBVIOUS
<1> HIDE DEF x
<1>2. Each(J) = Lead(x, <<>>)
  BY LeadTuple DEF Each, x
<1>3. Script(<<>>)
  BY EmptyScript
<1>4. Then(Each(J), s) = Lead(x, s)
  BY <1>2, <1>3, LeadThen, ThenScript
<1>5. QED
  BY <1>1, <1>4, LeadScript

LEMMA LoopScript == \A J : Script(Each(J))
<1> SUFFICES ASSUME NEW J PROVE Script(Each(J))
  OBVIOUS
<1>1. Script(<<>>)
  BY EmptyScript
<1>2. \A x : Script(Lead(x, <<>>))
  BY <1>1, LeadScript
<1>3. CASE J = {}
  BY <1>1, <1>3 DEF Each
<1>4. CASE J # {}
  <2> DEFINE x == [op |-> "each", items |-> J]
  <2> HIDE DEF x
  <2>1. Each(J) = Lead(x, <<>>)
    BY <1>4, LeadTuple DEF Each, x
  <2>2. QED
    BY <1>2, <2>1
<1>5. QED
  BY <1>3, <1>4

Stands == [Task -> TaskState \cup {"absent"}]

LEMMA PathStands ==
    /\ \A x, u : u \in Stands /\ Simple(x, u) => After(x, u) \in Stands
    /\ \A q, u, v : u \in Stands /\ Path(q, u, v) => v \in Stands
<1>1. ASSUME NEW x, NEW u \in Stands, Simple(x, u) PROVE After(x, u) \in Stands
  <2>1. x.op = "move" => x.to \in TaskState
    BY <1>1 DEF Simple, CanTransitionTask, TaskState
  <2>2. QED
    BY <1>1, <2>1 DEF Simple, After, Hard, Goal, Stands, TaskState
<1>2. ASSUME NEW q, NEW u \in Stands, NEW v, Path(q, u, v) PROVE v \in Stands
  BY <1>1, <1>2 DEF Path
<1>3. QED
  BY <1>1, <1>2

LEMMA RunsLoop ==
    ASSUME NEW items, NEW s, NEW w, Script(s), \A i \in items : Script(i),
           NEW Z \in SUBSET ((SUBSET items) \X Stands),
           \A v \in Stands : <<{}, v>> \in Z => Runs(s, v, w),
           \A J \in SUBSET items : \A v \in Stands : <<J, v>> \in Z =>
               \A i \in J : \E v2 \in Stands : <<J \ {i}, v2>> \in Z /\ Path(i, v, v2),
           NEW u \in Stands, <<items, u>> \in Z
    PROVE  Runs(Then(Each(items), s), u, w)
<1> DEFINE Way(v) == CHOOSE P : Lasting(P) /\ Point(s, v, w) \in P
           End == {v \in Stands : <<{}, v>> \in Z}
           Ends == UNION {Way(v) : v \in End}
           Loop(J) == Then(Each(J), s)
           Own(i) == CHOOSE S : i \in Seq(S)
           S == UNION {Own(i) : i \in items}
           Spot == [q : Seq(S), left : SUBSET items, at : Stands]
           Fine(e) == \E v \in Stands : <<e.left, v>> \in Z /\ Path(e.q, e.at, v)
           At3(e) == Point(Then(e.q, Loop(e.left)), e.at, w)
           Mids == {At3(e) : e \in {e \in Spot : Fine(e)}}
           P == Ends \cup Mids
<1>1. \A v \in End : Lasting(Way(v)) /\ Point(s, v, w) \in Way(v)
  BY DEF Runs
<1>2. Lasting(Ends) /\ \A v \in End : Point(s, v, w) \in Ends
  <2> HIDE DEF Way, End
  <2>1. QED
    BY <1>1 DEF Lasting
<1>3. items \subseteq Seq(S) /\ \A q \in Seq(S) : q # <<>> => Tail(q) \in Seq(S)
  <2>1. \A i \in items : i \in Seq(Own(i))
    BY DEF Script
  <2> HIDE DEF Own
  <2>2. \A i \in items : Own(i) \subseteq S
    OBVIOUS
  <2> HIDE DEF S
  <2>3. \A i \in items : Seq(Own(i)) \subseteq Seq(S)
    BY <2>2, SeqGrows
  <2>4. \A q \in Seq(S) : q # <<>> => Tail(q) \in Seq(S)
    OBVIOUS
  <2>5. QED
    BY <2>1, <2>3, <2>4
<1>4. \A J \in SUBSET items : Script(Loop(J)) /\ Script(Each(J))
  BY LoopScript, ThenScript
<1>5. \A q \in Seq(S) : Script(q)
  BY DEF Script
<1> HIDE DEF Way, End, Ends, Own, S
<1>6. ASSUME NEW q \in Seq(S), NEW J \in SUBSET items, NEW v \in Stands,
             NEW v2 \in Stands, <<J, v2>> \in Z, Path(q, v, v2)
      PROVE  Point(Then(q, Loop(J)), v, w) \in P
  <2> DEFINE e == [q |-> q, left |-> J, at |-> v]
  <2>1. e \in Spot /\ e.q = q /\ e.left = J /\ e.at = v
    OBVIOUS
  <2> HIDE DEF e
  <2>2. Fine(e) /\ At3(e) = Point(Then(q, Loop(J)), v, w)
    BY <1>6, <2>1
  <2>3. QED
    BY <2>1, <2>2
<1>7. ASSUME NEW q \in Seq(S), NEW J \in SUBSET items, NEW v \in Stands,
             NEW v2 \in Stands, <<J, v2>> \in Z, Path(q, v, v2),
             NEW p, p = Point(Then(q, Loop(J)), v, w), p.todo # <<>>
      PROVE  Fits(Head(p.todo), Tail(p.todo), p.state, p.wf) /\ Nexts(p) \subseteq P
  <2>0. p.todo = Then(q, Loop(J)) /\ p.state = v /\ p.wf = w
    BY <1>7 DEF Point
  <2>1. CASE q # <<>>
    <3> DEFINE x == Head(q)
    <3>1. Simple(x, v) /\ Path(Tail(q), After(x, v), v2) /\ Tail(q) \in Seq(S)
      BY <1>3, <1>7, <2>1, PathStep
    <3>2. p.todo = Lead(x, Then(Tail(q), Loop(J)))
      <4>1. q = Lead(x, Tail(q))
        BY <1>5, <2>1, LeadSplit
      <4>2. Script(Tail(q)) /\ Script(Loop(J))
        BY <1>4, <1>5, <3>1
      <4> HIDE DEF x, Loop
      <4>3. Then(Lead(x, Tail(q)), Loop(J)) = Lead(x, Then(Tail(q), Loop(J)))
        BY <4>2, LeadThen
      <4>4. QED
        BY <2>0, <4>1, <4>3
    <3>3. Script(Then(Tail(q), Loop(J)))
      BY <1>4, <1>5, <3>1, ThenScript
    <3> HIDE DEF x, Loop
    <3>4. Head(p.todo) = x /\ Tail(p.todo) = Then(Tail(q), Loop(J))
      BY <3>2, <3>3, LeadScript
    <3>5. x.op # "each" /\ Fits(x, Tail(p.todo), v, w) /\ AfterWf(x, w) = w
      BY <3>1 DEF Simple, Fits, AfterWf, Hard, Goal
    <3>6. After(x, v) \in Stands
      BY <3>1, PathStands
    <3> HIDE DEF P
    <3>7. Point(Then(Tail(q), Loop(J)), After(x, v), w) \in P
      BY <1>6, <1>7, <3>1, <3>6
    <3>8. QED
      BY <2>0, <3>4, <3>5, <3>7 DEF Nexts
  <2>2. CASE q = <<>>
    <3>1. v2 = v /\ p.todo = Loop(J)
      <4>1. v2 = v
        BY <1>7, <2>2, EmptyScript, LeadScript DEF Path
      <4>2. QED
        BY <1>4, <2>0, <2>2, <4>1, ThenScript
    <3>2. CASE J = {}
      <4>1. Loop(J) = s
        BY <3>2, ThenScript DEF Each
      <4>2. p = Point(s, v, w) /\ v \in End
        BY <1>7, <2>0, <2>2, <3>1, <3>2, <4>1 DEF Point, End
      <4>3. p \in Ends
        BY <1>2, <4>2
      <4>4. QED
        BY <1>2, <1>7, <4>3 DEF Lasting
    <3>3. CASE J # {}
      <4>1. Tail(p.todo) = s /\ Head(p.todo).op = "each" /\ Head(p.todo).items = J
        BY <3>1, <3>3, EachFront
      <4> DEFINE x == Head(p.todo)
      <4>2. Fits(x, Tail(p.todo), v, w)
        BY <4>1 DEF Fits, Hard
      <4>3. ASSUME NEW i \in J
            PROVE  Point(Then(Then(i, Each(J \ {i})), s), v, w) \in P
        <5>1. PICK v3 \in Stands : <<J \ {i}, v3>> \in Z /\ Path(i, v, v3)
          BY <1>7, <3>1
        <5>2. i \in Seq(S) /\ J \ {i} \in SUBSET items
          BY <1>3
        <5>3. Then(Then(i, Each(J \ {i})), s) = Then(i, Loop(J \ {i}))
          BY <1>4, <1>5, <5>2, ThenAssoc
        <5> HIDE DEF P
        <5>4. QED
          BY <1>6, <5>1, <5>2, <5>3
      <4> HIDE DEF x, P
      <4>4. Nexts(p) \subseteq P
        BY <2>0, <4>1, <4>3 DEF Nexts, x
      <4>5. QED
        BY <2>0, <4>2, <4>4 DEF x
    <3>4. QED
      BY <3>2, <3>3
  <2>3. QED
    BY <2>1, <2>2
<1>8. Lasting(P)
  <2>1. SUFFICES ASSUME NEW p \in P, p.todo # <<>>
                 PROVE  Fits(Head(p.todo), Tail(p.todo), p.state, p.wf) /\ Nexts(p) \subseteq P
    BY DEF Lasting
  <2>2. CASE p \in Ends
    BY <1>2, <2>1, <2>2 DEF Lasting
  <2>3. CASE p \in Mids
    <3>1. PICK e \in Spot : Fine(e) /\ p = At3(e)
      BY <2>3
    <3>2. PICK v \in Stands : <<e.left, v>> \in Z /\ Path(e.q, e.at, v)
      BY <3>1
    <3>3. e.q \in Seq(S) /\ e.left \in SUBSET items /\ e.at \in Stands
      BY <3>1
    <3>4. p = Point(Then(e.q, Loop(e.left)), e.at, w)
      BY <3>1
    <3> HIDE DEF P
    <3>5. QED
      BY <1>7, <2>1, <3>2, <3>3, <3>4
  <2>4. QED
    BY <2>2, <2>3
<1>9. Point(Loop(items), u, w) \in P
  <2>1. <<>> \in Seq(S) /\ items \in SUBSET items
    BY EmptyIn
  <2>2. Path(<<>>, u, u)
    BY DEF Path
  <2>3. Then(<<>>, Loop(items)) = Loop(items)
    BY <1>4, <2>1, ThenScript
  <2> HIDE DEF P, Loop
  <2>4. Point(Then(<<>>, Loop(items)), u, w) \in P
    BY <1>6, <2>1, <2>2
  <2>5. QED
    BY <2>3, <2>4
<1> HIDE DEF P
<1>10. QED
  BY <1>4, <1>8, <1>9 DEF Runs

-----------------------------------------------------------------------------
(* The pieces handlers are made of run through. *)
Put(u, t, x) == [u EXCEPT ![t] = x]

LEMMA PutFacts ==
    ASSUME NEW u \in Stands, NEW t \in Task, NEW x \in TaskState \cup {"absent"}
    PROVE  /\ Put(u, t, x) \in Stands /\ Put(u, t, x)[t] = x
           /\ \A r \in Task \ {t} : Put(u, t, x)[r] = u[r]
           /\ \A y : Put(Put(u, t, x), t, y) = Put(u, t, y)
BY DEF Put, Stands

LEMMA PutElse ==
    ASSUME NEW u \in Stands, NEW t \in Task, NEW x, NEW r \in Task, r # t
    PROVE  Put(u, t, x)[r] = u[r]
BY DEF Put, Stands

LEMMA RunsEasy ==
    ASSUME NEW x, NEW s, NEW u, NEW w, Runs(s, u, w),
           x.op \in {"kill", "release", "update", "escalate", "worktree", "submit", "depend",
                     "processed", "archive"}
    PROVE  Runs(Lead(x, s), u, w)
<1>1. x.op # "each" /\ Fits(x, s, u, w) /\ After(x, u) = u /\ AfterWf(x, w) = w
  BY DEF Fits, After, AfterWf, Hard
<1>2. QED
  BY <1>1, RunsFront

LEMMA RunsHard ==
    ASSUME NEW x, NEW t, NEW to, NEW s, NEW u, NEW w, x.op \in {"move", "fail"}, x.task = t,
           x.to = to, CanTransitionTask(u[t], to), Runs(s, Put(u, t, to), w)
    PROVE  Runs(Lead(x, s), u, w)
<1>1. x.op # "each" /\ Fits(x, s, u, w) /\ AfterWf(x, w) = w
  BY DEF Fits, AfterWf, Hard, Goal
<1>2. After(x, u) = Put(u, t, to)
  BY DEF After, Put, Hard, Goal
<1>3. QED
  BY <1>1, <1>2, RunsFront

LEMMA RunsMove ==
    ASSUME NEW t, NEW to, NEW s, NEW u, NEW w, CanTransitionTask(u[t], to),
           Runs(s, Put(u, t, to), w)
    PROVE  /\ Runs(Lead(Move(t, to), s), u, w)
           /\ \A f : Runs(Lead(Fail(t, to, f), s), u, w)
<1>1. Move(t, to).op = "move" /\ Move(t, to).task = t /\ Move(t, to).to = to
  BY DEF Move
<1>2. \A f : Fail(t, to, f).op = "fail" /\ Fail(t, to, f).task = t /\ Fail(t, to, f).to = to
  BY DEF Fail
<1>3. QED
  BY <1>1, <1>2, RunsHard

LEMMA RunsStarted ==
    ASSUME NEW x, NEW s, NEW u, NEW w, x.op \in {"start", "launch"}, u[x.task] = "ready",
           Cares(x.task, s), Runs(s, Put(u, x.task, "running"), w)
    PROVE  Runs(Lead(x, s), u, w)
<1>1. Hard(x) /\ Goal(x) = "running" /\ CanTransitionTask(u[x.task], "running")
  BY DEF Hard, Goal, CanTransitionTask
<1>2. x.op # "each" /\ Fits(x, s, u, w) /\ AfterWf(x, w) = w
  BY <1>1 DEF Fits, AfterWf
<1>3. After(x, u) = Put(u, x.task, "running")
  BY <1>1 DEF After, Put
<1>4. QED
  BY <1>2, <1>3, RunsFront

LEMMA RunsWorkflow ==
    ASSUME NEW to, NEW s, NEW u, NEW w, CanTransitionWorkflow(w, to), Runs(s, u, to)
    PROVE  Runs(Lead(Workflow(to), s), u, w)
<1> DEFINE x == Workflow(to)
<1>1. x.op = "workflow" /\ x.to = to
  BY DEF Workflow
<1> HIDE DEF x
<1>2. x.op # "each" /\ Fits(x, s, u, w) /\ After(x, u) = u /\ AfterWf(x, w) = to
  BY <1>1 DEF Fits, After, AfterWf, Hard
<1>3. QED
  BY <1>2, RunsFront DEF x

(* tuples in front of a script *)
LEMMA ThenOne == ASSUME NEW x, NEW s, Script(s) PROVE Then(<<x>>, s) = Lead(x, s) /\ Script(<<x>>)
<1>1. Script(<<>>) /\ Then(<<>>, s) = s
  BY EmptyScript, ThenScript
<1>2. <<x>> = Lead(x, <<>>)
  BY LeadTuple
<1>3. QED
  BY <1>1, <1>2, LeadScript, LeadThen

LEMMA ThenTwo ==
    ASSUME NEW x, NEW y, NEW s, Script(s)
    PROVE  Then(<<x, y>>, s) = Lead(x, Lead(y, s)) /\ Script(<<x, y>>)
<1> DEFINE r == Lead(y, <<>>)
           p == <<x, y>>
<1>1. Script(<<>>) /\ Then(<<>>, s) = s
  BY EmptyScript, ThenScript
<1>2. p = Lead(x, r)
  BY LeadTuple
<1>3. Script(r) /\ Then(r, s) = Lead(y, s)
  BY <1>1, LeadScript, LeadThen
<1> HIDE DEF r, p
<1>4. Script(Lead(x, r)) /\ Then(Lead(x, r), s) = Lead(x, Then(r, s))
  BY <1>3, LeadScript, LeadThen
<1>5. Then(p, s) = Lead(x, Lead(y, s)) /\ Script(p)
  BY <1>2, <1>3, <1>4
<1>6. QED
  BY <1>5 DEF p

LEMMA ThenThree ==
    ASSUME NEW x, NEW y, NEW z, NEW s, Script(s)
    PROVE  Then(<<x, y, z>>, s) = Lead(x, Lead(y, Lead(z, s))) /\ Script(<<x, y, z>>)
<1> DEFINE r == Lead(y, Lead(z, <<>>))
           p == <<x, y, z>>
           two == <<y, z>>
<1>0. p = Lead(x, r)
  BY LeadTuple
<1>1. two = r
  BY LeadTuple
<1>2. Then(two, s) = Lead(y, Lead(z, s)) /\ Script(two)
  BY ThenTwo
<1> HIDE DEF r, p, two
<1>3. Script(Lead(x, r)) /\ Then(Lead(x, r), s) = Lead(x, Then(r, s))
  BY <1>1, <1>2, LeadScript, LeadThen
<1>4. Then(p, s) = Lead(x, Lead(y, Lead(z, s))) /\ Script(p)
  BY <1>0, <1>1, <1>2, <1>3
<1>5. QED
  BY <1>4 DEF p

LEMMA AcceptRuns ==
    ASSUME NEW t \in Task, NEW s, NEW u \in Stands, NEW w, u[t] = "running",
           Runs(s, Put(u, t, "accepted"), w)
    PROVE  Runs(Then(AcceptComputed(t), s), u, w)
<1>1. Script(s)
  BY DEF Runs
<1>2. Then(AcceptComputed(t), s)
        = Lead(Move(t, "completed"), Lead(Move(t, "verifying"), Lead(Move(t, "accepted"), s)))
  BY <1>1, ThenThree DEF AcceptComputed
<1> DEFINE u1 == Put(u, t, "completed")
           u2 == Put(u1, t, "verifying")
<1>3. u1 \in Stands /\ u1[t] = "completed"
  BY PutFacts DEF TaskState
<1> HIDE DEF u1
<1>4. u2[t] = "verifying" /\ Put(u2, t, "accepted") = Put(u, t, "accepted")
  BY <1>3, PutFacts DEF TaskState, u1
<1> HIDE DEF u2
<1>5. Runs(Lead(Move(t, "accepted"), s), u2, w)
  BY <1>4, RunsMove DEF CanTransitionTask
<1>6. Runs(Lead(Move(t, "verifying"), Lead(Move(t, "accepted"), s)), u1, w)
  BY <1>3, <1>5, RunsMove DEF CanTransitionTask, u2
<1>7. Runs(Lead(Move(t, "completed"),
                Lead(Move(t, "verifying"), Lead(Move(t, "accepted"), s))), u, w)
  BY <1>6, RunsMove DEF CanTransitionTask, u1
<1>8. QED
  BY <1>2, <1>7

LEMMA CompleteRuns ==
    ASSUME NEW t \in Task, NEW s, NEW u \in Stands, NEW w, u[t] = "running",
           Runs(s, Put(u, t, "verifying"), w)
    PROVE  Runs(Then(CompleteSteps(t), s), u, w)
<1>1. Script(s)
  BY DEF Runs
<1>2. Then(CompleteSteps(t), s)
        = Lead(ClearPid(t), Lead(Move(t, "completed"), Lead(Move(t, "verifying"), s)))
  BY <1>1, ThenThree DEF CompleteSteps
<1> DEFINE u1 == Put(u, t, "completed")
<1>3. u1[t] = "completed" /\ Put(u1, t, "verifying") = Put(u, t, "verifying")
  BY PutFacts DEF TaskState
<1> HIDE DEF u1
<1>4. Runs(Lead(Move(t, "verifying"), s), u1, w)
  BY <1>3, RunsMove DEF CanTransitionTask
<1>5. Runs(Lead(Move(t, "completed"), Lead(Move(t, "verifying"), s)), u, w)
  BY <1>4, RunsMove DEF CanTransitionTask, u1
<1>6. ClearPid(t).op = "update"
  BY DEF ClearPid, Update
<1>7. QED
  BY <1>2, <1>5, <1>6, RunsEasy

\* a move, and the release that follows it
LEMMA GoneRuns ==
    ASSUME NEW t, NEW to, NEW s, NEW u, NEW w, CanTransitionTask(u[t], to),
           Runs(s, Put(u, t, to), w)
    PROVE  /\ Runs(Then(<<Move(t, to), Release(t)>>, s), u, w)
           /\ \A f : Runs(Then(<<Fail(t, to, f), Release(t)>>, s), u, w)
<1>1. Script(s)
  BY DEF Runs
<1>2. /\ Then(<<Move(t, to), Release(t)>>, s) = Lead(Move(t, to), Lead(Release(t), s))
      /\ \A f : Then(<<Fail(t, to, f), Release(t)>>, s) = Lead(Fail(t, to, f), Lead(Release(t), s))
  BY <1>1, ThenTwo
<1>3. Runs(Lead(Release(t), s), Put(u, t, to), w)
  BY RunsEasy DEF Release
<1>4. QED
  BY <1>2, <1>3, RunsMove

LEMMA FailRuns ==
    ASSUME NEW t, NEW s, NEW u, NEW w, u[t] = "running", Runs(s, Put(u, t, "failed"), w)
    PROVE  Runs(Then(FailSteps(t), s), u, w)
BY GoneRuns DEF FailSteps, CanTransitionTask

LEMMA RetryRuns ==
    ASSUME NEW t \in Task, NEW f, NEW u \in Stands, NEW w, u[t] \in {"rejected", "failed"}
    PROVE  /\ Runs(Then(Escalate(t, f), MaybeRetry(t, f)), u, w)
           /\ Script(Escalate(t, f)) /\ Script(MaybeRetry(t, f))
<1> DEFINE e == <<>>
           again == <<Move(t, "retry_wait"), Move(t, "ready")>>
           up == [op |-> "escalate", task |-> t]
           u1 == Put(u, t, "retry_wait")
<1>1. Script(e) /\ \A v : Runs(e, v, w)
  BY EmptyScript, RunsNothing
<1>2. again = Lead(Move(t, "retry_wait"), Lead(Move(t, "ready"), e))
  BY LeadTuple
<1>3. u1[t] = "retry_wait"
  BY PutFacts DEF TaskState
<1>4. up.op = "escalate"
  OBVIOUS
<1>5. \/ Escalate(t, f) = e
      \/ Escalate(t, f) = <<up>>
  BY DEF Escalate
<1>6. MaybeRetry(t, f) \in {e, again}
  BY DEF MaybeRetry
<1> HIDE DEF e, again, up, u1
<1>7. Runs(Lead(Move(t, "ready"), e), u1, w)
  BY <1>1, <1>3, RunsMove DEF CanTransitionTask
<1>8. Runs(again, u, w)
  BY <1>2, <1>7, RunsMove DEF CanTransitionTask, u1
<1>9. Runs(MaybeRetry(t, f), u, w) /\ Script(MaybeRetry(t, f))
  BY <1>1, <1>6, <1>8 DEF Runs
<1>10. CASE Escalate(t, f) = e
  BY <1>1, <1>9, <1>10, ThenScript DEF e
<1>11. CASE Escalate(t, f) = <<up>>
  <2>1. Then(<<up>>, MaybeRetry(t, f)) = Lead(up, MaybeRetry(t, f)) /\ Script(<<up>>)
    BY <1>9, ThenOne
  <2>2. QED
    BY <1>4, <1>9, <1>11, <2>1, RunsEasy
<1>12. QED
  BY <1>5, <1>10, <1>11

LEMMA StartRuns ==
    ASSUME NEW t \in Task, NEW by, NEW s, NEW u \in Stands, NEW w, u[t] = "ready",
           Cares(t, s), Runs(s, Put(u, t, "running"), w),
           by # t => u[by] = "running" /\ \A r \in Task : Cares(r, s) => r \in {t, by}
    PROVE  Runs(Then(StartSteps(t, by), s), u, w)
<1> DEFINE x == [op |-> "reserve", task |-> t, by |-> by]
           y == [op |-> "launch", task |-> t]
<1>1. Script(s)
  BY DEF Runs
<1>2. StartSteps(t, by) = <<x, y>>
  BY DEF StartSteps
<1>3. x.op = "reserve" /\ x.task = t /\ x.by = by /\ y.op = "launch" /\ y.task = t
  OBVIOUS
<1> HIDE DEF x, y
<1>4. Then(StartSteps(t, by), s) = Lead(x, Lead(y, s))
  BY <1>1, <1>2, ThenTwo
<1>5. Runs(Lead(y, s), u, w)
  BY <1>3, RunsStarted
<1>9. \A r : Cares(r, Lead(y, s)) <=> Cares(r, s)
  BY <1>1, <1>3, CaresLead DEF Among, Tends
<1>6. Fits(x, Lead(y, s), u, w) /\ x.op # "each" /\ After(x, u) = u /\ AfterWf(x, w) = w
  BY <1>3, <1>9 DEF Fits, After, AfterWf, Hard
<1>7. Runs(Lead(x, Lead(y, s)), u, w)
  BY <1>5, <1>6, RunsFront
<1>8. QED
  BY <1>4, <1>7

-----------------------------------------------------------------------------
(* Two kinds of loops: passes that leave the states in a set A, and passes    *)
(* that move a task each.                                                    *)
LEMMA RunsWithin ==
    ASSUME NEW items, NEW s, NEW w, Script(s), NEW A \in SUBSET Stands,
           \A i \in items : \A v \in A : \E v2 \in A : Path(i, v, v2),
           \A v \in A : Runs(s, v, w), NEW u \in A
    PROVE  Runs(Then(Each(items), s), u, w)
<1> DEFINE Z == (SUBSET items) \X A
<1>1. Z \in SUBSET ((SUBSET items) \X Stands)
  OBVIOUS
<1>2. \A J, v : <<J, v>> \in Z <=> J \in SUBSET items /\ v \in A
  OBVIOUS
<1> HIDE DEF Z
<1>3. \A i \in items : Script(i)
  BY PathScript
<1>4. \A v \in Stands : <<{}, v>> \in Z => Runs(s, v, w)
  BY <1>2
<1>5. ASSUME NEW J \in SUBSET items, NEW v \in Stands, <<J, v>> \in Z, NEW i \in J
      PROVE  \E v2 \in Stands : <<J \ {i}, v2>> \in Z /\ Path(i, v, v2)
  <2>1. v \in A /\ i \in items
    BY <1>2, <1>5
  <2>2. PICK v2 \in A : Path(i, v, v2)
    BY <2>1
  <2>3. QED
    BY <1>2, <2>2
<1>6. u \in Stands /\ <<items, u>> \in Z
  BY <1>2
<1>7. QED
  BY <1>1, <1>3, <1>4, <1>5, <1>6, RunsLoop

\* pass i moves task t to the state to
Moving(i, t, to) ==
    \/ i = Lead(Move(t, to), <<>>)
    \/ i = Lead(Move(t, to), Lead(Release(t), <<>>))
    \/ i = Lead([op |-> "kill", task |-> t], Lead(Move(t, to), Lead(Release(t), <<>>)))

LEMMA MovingPath ==
    ASSUME NEW i, NEW t \in Task, NEW to, Moving(i, t, to), NEW v, CanTransitionTask(v[t], to)
    PROVE  Path(i, v, Put(v, t, to))
<1> DEFINE x == Move(t, to)
           y == Release(t)
           z == [op |-> "kill", task |-> t]
           v2 == Put(v, t, to)
<1>1. x.op = "move" /\ x.task = t /\ x.to = to /\ y.op = "release" /\ z.op = "kill"
  BY DEF Move, Release
<1>2. \/ i = Lead(x, <<>>)
      \/ i = Lead(x, Lead(y, <<>>))
      \/ i = Lead(z, Lead(x, Lead(y, <<>>)))
  BY DEF Moving
<1>3. v2 = [v EXCEPT ![t] = to]
  BY DEF Put
<1> HIDE DEF x, y, z, v2
<1>4. Simple(x, v) /\ After(x, v) = v2
  BY <1>1, <1>3 DEF Simple, After, Hard, Goal
<1>5. \A q : Simple(y, q) /\ After(y, q) = q /\ Simple(z, q) /\ After(z, q) = q
  BY <1>1 DEF Simple, After, Hard
<1>6. CASE i = Lead(x, <<>>)
  BY <1>4, <1>6 DEF Path, v2
<1>7. CASE i = Lead(x, Lead(y, <<>>))
  BY <1>4, <1>5, <1>7 DEF Path, v2
<1>8. CASE i = Lead(z, Lead(x, Lead(y, <<>>)))
  <2>1. Simple(z, v) /\ Simple(x, After(z, v)) /\ Simple(y, After(x, After(z, v)))
        /\ v2 = After(y, After(x, After(z, v)))
    BY <1>4, <1>5
  <2>2. QED
    BY <1>8, <2>1 DEF Path, v2
<1>9. QED
  BY <1>2, <1>6, <1>7, <1>8

LEMMA RunsSweep ==
    ASSUME NEW items, NEW s, NEW w, Script(s), NEW u \in Stands,
           \A i \in items : \E t \in Task : \E to : Moving(i, t, to) /\ CanTransitionTask(u[t], to),
           \A i, j \in items : \A t \in Task : \A p, q :
               Moving(i, t, p) /\ Moving(j, t, q) => i = j,
           \A v \in Stands : Runs(s, v, w)
    PROVE  Runs(Then(Each(items), s), u, w)
<1> DEFINE Same(J, v) == \A i \in J : \A t \in Task : \A to : Moving(i, t, to) => v[t] = u[t]
           Z == {z \in (SUBSET items) \X Stands : Same(z[1], z[2])}
<1>1. Z \in SUBSET ((SUBSET items) \X Stands)
  OBVIOUS
<1>2. \A J \in SUBSET items : \A v \in Stands : <<J, v>> \in Z <=> Same(J, v)
  OBVIOUS
<1> HIDE DEF Z
<1>3. \A i, t, to : Moving(i, t, to) => Script(i)
  BY EmptyScript, LeadScript DEF Moving
<1>4. \A i \in items : Script(i)
  BY <1>3
<1>5. ASSUME NEW J \in SUBSET items, NEW v \in Stands, <<J, v>> \in Z, NEW i \in J
      PROVE  \E v2 \in Stands : <<J \ {i}, v2>> \in Z /\ Path(i, v, v2)
  <2>1. PICK t \in Task : \E to : Moving(i, t, to) /\ CanTransitionTask(u[t], to)
    OBVIOUS
  <2>2. PICK to : Moving(i, t, to) /\ CanTransitionTask(u[t], to)
    BY <2>1
  <2>3. v[t] = u[t]
    BY <1>2, <1>5, <2>2
  <2> DEFINE v2 == Put(v, t, to)
  <2>4. Path(i, v, v2)
    BY <2>2, <2>3, MovingPath
  <2>5. to \in TaskState
    BY <2>2 DEF CanTransitionTask, TaskState
  <2>6. v2 \in Stands /\ \A r \in Task \ {t} : v2[r] = v[r]
    BY <2>5, PutFacts
  <2> HIDE DEF v2
  <2>7. ASSUME NEW j \in J \ {i}, NEW r \in Task, NEW p, Moving(j, r, p) PROVE v2[r] = u[r]
    <3>1. r # t
      BY <2>2, <2>7
    <3>2. QED
      BY <1>2, <1>5, <2>6, <2>7, <3>1
  <2>8. Same(J \ {i}, v2)
    BY <2>7
  <2> HIDE DEF Same
  <2>9. QED
    BY <1>2, <2>4, <2>6, <2>8
<1>6. <<items, u>> \in Z
  BY <1>2
<1> HIDE DEF Same
<1>7. \A v \in Stands : <<{}, v>> \in Z => Runs(s, v, w)
  OBVIOUS
<1>8. QED
  BY <1>1, <1>4, <1>5, <1>6, <1>7, RunsLoop

LEMMA MovingTask ==
    ASSUME NEW i, NEW t, NEW to, NEW r, NEW p, Moving(i, t, to), Moving(i, r, p)
    PROVE  t = r
<1> DEFINE Ks == [op |-> "kill", task |-> t]
           Kr == [op |-> "kill", task |-> r]
<1>1. /\ Move(t, to).op = "move" /\ Move(t, to).task = t
      /\ Move(r, p).op = "move" /\ Move(r, p).task = r
  BY DEF Move
<1>2. Ks.op = "kill" /\ Ks.task = t /\ Kr.op = "kill" /\ Kr.task = r
  OBVIOUS
<1> HIDE DEF Ks, Kr
<1>3. Script(<<>>) /\ \A x : Script(Lead(x, <<>>)) /\ \A y : Script(Lead(y, Lead(x, <<>>)))
  BY EmptyScript, LeadScript
<1>4. Head(i) = Move(t, to) \/ Head(i) = Ks
  BY <1>3, LeadScript DEF Moving, Ks
<1>5. Head(i) = Move(r, p) \/ Head(i) = Kr
  BY <1>3, LeadScript DEF Moving, Kr
<1>6. QED
  BY <1>1, <1>2, <1>4, <1>5

-----------------------------------------------------------------------------
(* What the handlers write runs through.  First the passes of the main loop. *)
LEMMA EndRuns == \A s \in Seq(Closings) : \A u, w : Runs(s, u, w)
<1> SUFFICES ASSUME NEW s \in Seq(Closings), NEW u, NEW w PROVE Runs(s, u, w)
  OBVIOUS
<1> DEFINE P == {Point(q, u, w) : q \in Seq(Closings)}
<1>1. ASSUME NEW q \in Seq(Closings), q # <<>>
      PROVE  /\ Fits(Head(q), Tail(q), u, w) /\ Tail(q) \in Seq(Closings)
             /\ Nexts(Point(q, u, w)) = {Point(Tail(q), u, w)}
  <2> DEFINE x == Head(q)
             p == Point(q, u, w)
  <2>0. Head(q) \in Closings /\ Tail(q) \in Seq(Closings)
    BY <1>1
  <2>1. x.op \in {"processed", "archive"} /\ Tail(q) \in Seq(Closings)
    BY <2>0 DEF Closings
  <2>2. Fits(x, Tail(q), u, w) /\ After(x, u) = u /\ AfterWf(x, w) = w
    BY <2>1 DEF Fits, After, AfterWf, Hard
  <2>3. p.todo = q /\ p.state = u /\ p.wf = w
    BY DEF Point
  <2> HIDE DEF p
  <2>4. Nexts(p) = {Point(Tail(q), u, w)}
    BY <2>1, <2>2, <2>3 DEF Nexts
  <2>5. QED
    BY <2>1, <2>2, <2>4 DEF p
<1>2. Lasting(P)
  <2> SUFFICES ASSUME NEW p \in P, p.todo # <<>>
               PROVE  Fits(Head(p.todo), Tail(p.todo), p.state, p.wf) /\ Nexts(p) \subseteq P
    BY DEF Lasting
  <2>1. PICK q \in Seq(Closings) : p = Point(q, u, w)
    OBVIOUS
  <2>2. p.todo = q /\ p.state = u /\ p.wf = w
    BY <2>1 DEF Point
  <2>3. QED
    BY <1>1, <2>1, <2>2
<1>3. Script(s) /\ Point(s, u, w) \in P
  BY DEF Script
<1> HIDE DEF P
<1>4. QED
  BY <1>2, <1>3 DEF Runs

LEMMA WorkflowRuns ==
    ASSUME NEW to, NEW s, NEW u, NEW w, CanTransitionWorkflow(w, to), Runs(s, u, to)
    PROVE  Runs(Then(<<Workflow(to)>>, s), u, w) /\ Script(<<Workflow(to)>>)
BY RunsWorkflow, ThenOne DEF Runs

LEMMA WorkflowEnds ==
    ASSUME NEW to, NEW u, NEW w, CanTransitionWorkflow(w, to)
    PROVE  Runs(<<Workflow(to)>>, u, w) /\ Script(<<Workflow(to)>>)
<1> DEFINE e == <<>>
<1>1. Runs(e, u, to)
  BY RunsNothing
<1>2. <<Workflow(to)>> = Lead(Workflow(to), e)
  BY LeadTuple
<1> HIDE DEF e
<1>3. QED
  BY <1>1, <1>2, RunsWorkflow DEF Runs

LEMMA StandsNow == StoreTypeOK => state \in Stands
BY DEF StoreTypeOK, Stands

LEMMA RefreshRuns ==
    ASSUME state \in Stands, NEW s, NEW w, Script(s), \A v \in Stands : Runs(s, v, w)
    PROVE  Runs(Then(RefreshReady, s), state, w) /\ Script(RefreshReady)
<1> DEFINE pending == {t \in Task : state[t] = "pending"}
           satisfied == {t \in pending : \A d \in deps[t] : state[d] = "accepted"}
           partial == {t \in pending \ satisfied : Node[t].allow_partial}
           dead == {t \in pending \ (satisfied \cup partial) :
                       \E d \in deps[t] : state[d] \in DeadState}
           open == satisfied \cup {t \in partial : PartialReady(t)}
           items == {<<Move(t, "ready")>> : t \in open} \cup {<<Move(t, "blocked")>> : t \in dead}
<1>1. RefreshReady = Each(items)
  BY DEF RefreshReady
<1>2. open \subseteq pending /\ dead \subseteq pending /\ open \cap dead = {}
  OBVIOUS
<1>3. \A t \in pending : t \in Task /\ state[t] = "pending"
  OBVIOUS
<1> HIDE DEF pending, open, dead
<1>4. \A t, to : Moving(<<Move(t, to)>>, t, to)
  BY LeadTuple DEF Moving
<1>5. \A i \in items : \/ \E t \in open : i = <<Move(t, "ready")>> /\ Moving(i, t, "ready")
                       \/ \E t \in dead : i = <<Move(t, "blocked")>> /\ Moving(i, t, "blocked")
  BY <1>4
<1>6. \A t, u : t \in open /\ u \in dead => t # u
  BY <1>2
<1>7. \A i, j \in items : \A t \in Task : \A p, q : Moving(i, t, p) /\ Moving(j, t, q) => i = j
  <2> HIDE DEF items
  <2>1. ASSUME NEW i \in items, NEW j \in items, NEW t \in Task, NEW p, NEW q,
               Moving(i, t, p), Moving(j, t, q)
        PROVE  i = j
    <3>1. \/ t \in open /\ i = <<Move(t, "ready")>>
          \/ t \in dead /\ i = <<Move(t, "blocked")>>
      BY <1>5, <2>1, MovingTask
    <3>2. \/ t \in open /\ j = <<Move(t, "ready")>>
          \/ t \in dead /\ j = <<Move(t, "blocked")>>
      BY <1>5, <2>1, MovingTask
    <3>3. QED
      BY <1>6, <3>1, <3>2
  <2>2. QED
    BY <2>1
<1>8. \A i \in items : \E t \in Task : \E to : Moving(i, t, to) /\ CanTransitionTask(state[t], to)
  <2> HIDE DEF items
  <2>1. QED
    BY <1>2, <1>3, <1>5 DEF CanTransitionTask
<1> HIDE DEF items
<1>9. QED
  BY <1>1, <1>7, <1>8, RunsSweep, LoopScript

LEMMA PassRuns ==
    ASSUME StoreTypeOK, LoopInv, Scripting, ~HandleRequest, ~LaunchTask
    PROVE  Runs(todo', state, wf)
<1>1. state \in Stands
  BY StandsNow
<1> DEFINE e == <<>>
<1>2. Script(e) /\ \A v, w : Runs(e, v, w)
  BY EmptyScript, RunsNothing
<1>3. CASE Boot
  <2> DEFINE missing == {t \in Task : state[t] = "running" /\ ~Alive(t)}
             items == {<<Move(t, "interrupted"), Release(t)>> : t \in missing}
             end == IF missing = {} THEN <<>> ELSE <<Workflow("interrupted")>>
  <2>1. todo' = e \/ (wf = "running" /\ todo' = Then(Each(items), end))
    BY <1>3 DEF Boot, Reconcile, Then
  <2>2. ASSUME wf = "running" PROVE \A v : Runs(end, v, wf)
    <3>1. CanTransitionWorkflow(wf, "interrupted")
      BY <2>2 DEF CanTransitionWorkflow
    <3>2. \A v : Runs(<<Workflow("interrupted")>>, v, wf)
      BY <3>1, WorkflowEnds
    <3>3. QED
      BY <1>2, <3>2
  <2>3. Script(end)
    <3>1. Script(<<Workflow("interrupted")>>)
      BY <1>2, ThenOne
    <3>2. QED
      BY <1>2, <3>1
  <2>4. \A t : Moving(<<Move(t, "interrupted"), Release(t)>>, t, "interrupted")
    BY LeadTuple DEF Moving
  <2>5. \A t \in missing : t \in Task /\ CanTransitionTask(state[t], "interrupted")
    BY DEF CanTransitionTask
  <2> HIDE DEF end, missing
  <2>6. \A i \in items : \E t \in missing : /\ i = <<Move(t, "interrupted"), Release(t)>>
                                           /\ Moving(i, t, "interrupted")
    BY <2>4
  <2> HIDE DEF items
  <2>7. \A i, j \in items : \A t \in Task : \A p, q : Moving(i, t, p) /\ Moving(j, t, q) => i = j
    BY <2>6, MovingTask
  <2>8. \A i \in items : \E t \in Task : \E to : Moving(i, t, to) /\ CanTransitionTask(state[t], to)
    BY <2>5, <2>6
  <2>9. wf = "running" => Runs(Then(Each(items), end), state, wf)
    BY <1>1, <2>2, <2>3, <2>7, <2>8, RunsSweep
  <2>10. QED
    BY <1>2, <2>1, <2>9
<1>4. CASE Resume
  <2>1. \/ todo' = e
        \/ CanTransitionWorkflow(wf, "running") /\ todo' = <<Workflow("running")>>
    BY <1>4 DEF Resume, CanTransitionWorkflow
  <2> HIDE DEF e
  <2>2. QED
    BY <1>2, <2>1, WorkflowEnds
<1>5. CASE RefreshBefore \/ RefreshAfter
  <2>1. todo' = RefreshReady \/ todo' = e
    BY <1>5 DEF RefreshBefore, RefreshAfter, Refresh
  <2>2. Runs(Then(RefreshReady, e), state, wf) /\ Script(RefreshReady)
    BY <1>1, <1>2, RefreshRuns
  <2>3. Then(RefreshReady, e) = RefreshReady
    BY <1>2, <2>2, ThenScript
  <2> HIDE DEF e
  <2>4. QED
    BY <1>2, <2>1, <2>2, <2>3
<1>6. CASE SettleIteration
  <2>1. \/ todo' = e
        \/ wf = "running" /\ \E to \in {"succeeded", "budget_exhausted", "failed"} :
              todo' = <<Workflow(to)>>
    BY <1>6 DEF SettleIteration, SettleWait, SettleAgain, SettleCancelled, SettleSucceeded,
       SettleExhausted, SettleFailed, SettleStalled, SettleRefused, Conclude, Settle
  <2> HIDE DEF e
  <2>2. wf = "running" => \A to \in {"succeeded", "budget_exhausted", "failed"} :
           Runs(<<Workflow(to)>>, state, wf)
    BY WorkflowEnds DEF CanTransitionWorkflow
  <2>3. QED
    BY <1>2, <2>1, <2>2
<1>7. CASE Recovered \/ TakeInbox \/ InboxDone \/ ListReady \/ EndLaunch \/ WaitTimeout
  <2>1. todo' = e
    BY <1>7 DEF Recovered, TakeInbox, InboxDone, ListReady, EndLaunch, WaitTimeout, Idle
  <2>2. QED
    BY <1>2, <2>1
<1>8. QED
  BY <1>3, <1>4, <1>5, <1>6, <1>7 DEF Scripting

-----------------------------------------------------------------------------
(* requests, launches, and what workers come to *)
LEMMA HandleRuns ==
    ASSUME TypeOK, HandleRequest
    PROVE  Runs(todo', state, wf)
<1>1. state \in Stands
  BY StandsNow DEF TypeOK
<1>2. PICK r \in batch :
         HandlePause(r) \/ HandleResume(r) \/ HandleCancel(r) \/ HandleRetry(r) \/ HandleDecision(r)
  BY DEF HandleRequest
<1>3. r \in Request /\ r.task \in Task
  BY <1>2, RuntimeAssumption DEF TypeOK
<1> DEFINE end == <<[op |-> "processed", request |-> r], [op |-> "archive", request |-> r]>>
           e == <<>>
<1>4. end \in Seq(Closings)
  BY <1>3, TwoIn DEF Closings
<1> HIDE DEF end
<1>5. Script(end) /\ \A u, w : Runs(end, u, w)
  BY <1>4, EndRuns DEF Runs
<1>6. Then(e, end) = end
  BY <1>5, ThenScript
<1>7. CASE HandlePause(r)
  <2>1. \/ CanTransitionWorkflow(wf, "paused") /\ todo' = Then(<<Workflow("paused")>>, end)
        \/ todo' = Then(e, end)
    BY <1>7 DEF HandlePause, Handle, CanTransitionWorkflow, Then, end
  <2> HIDE DEF e
  <2>2. QED
    BY <1>5, <1>6, <2>1, WorkflowRuns
<1>8. CASE HandleResume(r)
  <2>1. \/ CanTransitionWorkflow(wf, "running") /\ todo' = Then(<<Workflow("running")>>, end)
        \/ todo' = Then(e, end)
    BY <1>8 DEF HandleResume, Handle, CanTransitionWorkflow, Then, end
  <2> HIDE DEF e
  <2>2. QED
    BY <1>5, <1>6, <2>1, WorkflowRuns
<1>9. CASE HandleCancel(r)
  <2> DEFINE active == {t \in Task : state[t] \in {"pending", "ready", "retry_wait", "running"}}
             items == {CancelSteps(t, r.stop_active) : t \in active}
             last == <<Workflow("cancelled")>>
  <2>1. \/ wf \in {"running", "paused"} /\ todo' = Then(Then(Each(items), last), end)
        \/ todo' = Then(e, end)
    BY <1>9 DEF HandleCancel, Handle, Then, end
  <2>2. ASSUME wf \in {"running", "paused"} PROVE \A v : Runs(Then(last, end), v, wf)
    <3>1. CanTransitionWorkflow(wf, "cancelled")
      BY <2>2 DEF CanTransitionWorkflow
    <3>2. QED
      BY <1>5, <3>1, WorkflowRuns
  <2>3. Script(last) /\ Script(Each(items)) /\ Script(Then(last, end))
    BY <1>5, ThenOne, ThenScript, LoopScript
  <2>4. \A t : Moving(CancelSteps(t, r.stop_active), t, "cancelled")
    <3> TAKE t
    <3> DEFINE kill == [op |-> "kill", task |-> t]
               stop == <<kill>>
               off == <<Move(t, "cancelled"), Release(t)>>
    <3>1. \/ CancelSteps(t, r.stop_active) = Then(stop, off)
          \/ CancelSteps(t, r.stop_active) = Then(e, off)
      BY DEF CancelSteps, Then
    <3>2. off = Lead(Move(t, "cancelled"), Lead(Release(t), <<>>))
      BY LeadTuple
    <3>3. Script(off)
      BY <1>5, ThenTwo
    <3>4. Then(e, off) = off /\ Then(stop, off) = Lead(kill, off)
      <4> HIDE DEF off, kill
      <4>1. QED
        BY <3>3, ThenOne, ThenScript
    <3> HIDE DEF off, stop, e
    <3>5. QED
      BY <3>1, <3>2, <3>4 DEF Moving
  <2>5. \A t \in active : t \in Task /\ CanTransitionTask(state[t], "cancelled")
    BY DEF CanTransitionTask
  <2>6. \A i \in items : \E t \in active : /\ i = CancelSteps(t, r.stop_active)
                                          /\ Moving(i, t, "cancelled")
    BY <2>4
  <2> HIDE DEF active, items, last
  <2>7. \A i, j \in items : \A t \in Task : \A p, q : Moving(i, t, p) /\ Moving(j, t, q) => i = j
    BY <2>6, MovingTask
  <2>8. \A i \in items : \E t \in Task : \E to : Moving(i, t, to) /\ CanTransitionTask(state[t], to)
    BY <2>5, <2>6
  <2>9. wf \in {"running", "paused"} => Runs(Then(Each(items), Then(last, end)), state, wf)
    BY <1>1, <2>2, <2>3, <2>7, <2>8, RunsSweep
  <2>10. Then(Then(Each(items), last), end) = Then(Each(items), Then(last, end))
    BY <1>5, <2>3, ThenAssoc
  <2> HIDE DEF e
  <2>11. QED
    BY <1>5, <1>6, <2>1, <2>9, <2>10
<1>10. CASE HandleRetry(r)
  <2> DEFINE again == <<Move(r.task, "retry_wait"), Move(r.task, "ready")>>
             u1 == Put(state, r.task, "retry_wait")
  <2>1. \/ CanTransitionTask(state[r.task], "retry_wait") /\ todo' = Then(again, end)
        \/ todo' = Then(e, end)
    BY <1>10 DEF HandleRetry, Handle, Retryable, CanTransitionTask, Then, end
  <2>2. u1[r.task] = "retry_wait"
    BY <1>1, <1>3, PutFacts DEF TaskState
  <2>3. Then(again, end) = Lead(Move(r.task, "retry_wait"), Lead(Move(r.task, "ready"), end))
    BY <1>5, ThenTwo
  <2> HIDE DEF again, u1, e
  <2>4. Runs(Lead(Move(r.task, "ready"), end), u1, wf)
    BY <1>5, <2>2, RunsMove DEF CanTransitionTask
  <2>5. QED
    BY <1>5, <1>6, <2>1, <2>3, <2>4, RunsMove DEF u1
<1>11. CASE HandleDecision(r)
  <2> DEFINE x == [op |-> "decide", request |-> r]
             one == <<x>>
  <2>1. todo' = Then(Then(RefreshReady, one), end) \/ todo' = Then(e, end)
    BY <1>11 DEF HandleDecision, Handle, Then, end
  <2>2. x.op = "decide"
    OBVIOUS
  <2> HIDE DEF x, e
  <2>3. \A u : Fits(x, end, u, wf) /\ After(x, u) = u /\ AfterWf(x, wf) = wf
    BY <1>4, <2>2 DEF Fits, After, AfterWf, Hard
  <2>4. \A u : Runs(Lead(x, end), u, wf)
    BY <1>5, <2>2, <2>3, RunsFront
  <2>5. Then(one, end) = Lead(x, end) /\ Script(one) /\ Script(Lead(x, end))
    BY <1>5, ThenOne, LeadScript
  <2>6. Runs(Then(RefreshReady, Lead(x, end)), state, wf) /\ Script(RefreshReady)
    BY <1>1, <2>4, <2>5, RefreshRuns
  <2> HIDE DEF one
  <2>7. Then(Then(RefreshReady, one), end) = Then(RefreshReady, Then(one, end))
    BY <1>5, <2>5, <2>6, ThenAssoc
  <2>8. QED
    BY <1>5, <1>6, <2>1, <2>5, <2>6, <2>7
<1>12. QED
  BY <1>2, <1>7, <1>8, <1>9, <1>10, <1>11

LEMMA ThenFour ==
    ASSUME NEW p, NEW q, NEW r, NEW s, Script(p), Script(q), Script(r), Script(s)
    PROVE  /\ Then(Then(Then(p, q), r), s) = Then(p, Then(q, Then(r, s)))
           /\ Script(Then(q, Then(r, s))) /\ Script(Then(r, s))
<1>1. Script(Then(p, q)) /\ Script(Then(r, s))
  BY ThenScript
<1>2. Script(Then(q, Then(r, s)))
  BY <1>1, ThenScript
<1>3. Then(Then(Then(p, q), r), s) = Then(Then(p, q), Then(r, s))
  BY <1>1, ThenAssoc
<1>4. QED
  BY <1>1, <1>2, <1>3, ThenAssoc

LEMMA FiveSplit ==
    ASSUME NEW v, NEW w, NEW x, NEW y, NEW z
    PROVE  <<v, w, x, y, z>> = Then(<<v, w>>, <<x, y, z>>)
<1> DEFINE A == {v, w, x, y, z}
           five == <<v, w, x, y, z>>
           two == <<v, w>>
           three == <<x, y, z>>
<1>0. v \in A /\ w \in A /\ x \in A /\ y \in A /\ z \in A
  OBVIOUS
<1> HIDE DEF A
<1>1. two \in Seq(A) /\ three \in Seq(A) /\ five \in Seq(A)
  BY <1>0, TwoIn, ThreeIn
<1>2. two \o three \in Seq(A)
  <2> HIDE DEF two, three
  <2>1. QED
    BY <1>1, ConcatIn
<1>3. Len(five) = 5 /\ Len(two \o three) = 5
  OBVIOUS
<1>4. \A i \in 1..5 : five[i] = (two \o three)[i]
  OBVIOUS
<1>5. five = two \o three
  BY <1>1, <1>2, <1>3, <1>4, SeqEqual
<1>6. QED
  BY <1>5 DEF Then

LEMMA BegunRuns ==
    ASSUME NEW t \in Task, NEW s, NEW u \in Stands, NEW w, u[t] = "ready",
           Cares(t, s), Runs(s, Put(u, t, "running"), w)
    PROVE  Runs(Then(<<StartComputed(t)>>, s), u, w) /\ Script(<<StartComputed(t)>>)
<1> DEFINE x == StartComputed(t)
<1>1. x.op = "start" /\ x.task = t
  BY DEF StartComputed
<1> HIDE DEF x
<1>2. Runs(Lead(x, s), u, w)
  BY <1>1, RunsStarted
<1>3. QED
  BY <1>2, ThenOne DEF Runs, x

\* blocking tasks, as the end of a script or before it ends
LEMMA BlockRuns ==
    ASSUME NEW t, NEW s, NEW u, NEW w, \A v : Runs(s, v, w)
    PROVE  Runs(Then(<<Block(t)>>, s), u, w) /\ Script(<<Block(t)>>)
<1> DEFINE x == Block(t)
<1>1. x.op = "block"
  BY DEF Block
<1> HIDE DEF x
<1>2. x.op # "each" /\ Fits(x, s, u, w) /\ AfterWf(x, w) = w
  BY <1>1 DEF Fits, AfterWf, Hard
<1>3. Runs(Lead(x, s), u, w)
  BY <1>2, RunsFront
<1>4. QED
  BY <1>3, ThenOne DEF Runs, x

LEMMA BlockEnds == \A t, u, w : Runs(<<Block(t)>>, u, w)
<1> TAKE t, u, w
<1> DEFINE e == <<>>
           one == <<Block(t)>>
<1>1. Script(e) /\ \A v : Runs(e, v, w)
  BY EmptyScript, RunsNothing
<1> HIDE DEF e
<1>2. Runs(Then(one, e), u, w) /\ Script(one)
  BY <1>1, BlockRuns
<1> HIDE DEF one
<1>3. Then(one, e) = one
  BY <1>2, ThenScript DEF e
<1>4. QED
  BY <1>2, <1>3 DEF one

\* what is accepted or failed at once, and the handler of it ends
LEMMA ResultRuns ==
    ASSUME NEW t \in Task, NEW u \in Stands, NEW w, u[t] = "running"
    PROVE  /\ Runs(AcceptComputed(t), u, w) /\ Script(AcceptComputed(t))
           /\ Runs(FailSteps(t), u, w) /\ Script(FailSteps(t))
           /\ Cares(t, AcceptComputed(t)) /\ Cares(t, FailSteps(t))
<1> DEFINE e == <<>>
<1>1. Script(e) /\ \A v : Runs(e, v, w)
  BY EmptyScript, RunsNothing
<1> HIDE DEF e
<1>2. Script(AcceptComputed(t)) /\ Script(FailSteps(t))
  BY <1>1, ThenTwo, ThenThree DEF AcceptComputed, FailSteps
<1>3. Then(AcceptComputed(t), e) = AcceptComputed(t) /\ Then(FailSteps(t), e) = FailSteps(t)
  BY <1>2, ThenScript DEF e
<1>4. Runs(Then(AcceptComputed(t), e), u, w) /\ Runs(Then(FailSteps(t), e), u, w)
  BY <1>1, AcceptRuns, FailRuns
<1>5. Cares(t, AcceptComputed(t)) /\ Cares(t, FailSteps(t))
  <2>1. /\ AcceptComputed(t) =
               Lead(Move(t, "completed"),
                    Lead(Move(t, "verifying"), Lead(Move(t, "accepted"), e)))
        /\ FailSteps(t) = Lead(Move(t, "failed"), Lead(Release(t), e))
    BY LeadTuple DEF AcceptComputed, FailSteps, e
  <2>2. /\ Script(Lead(Move(t, "verifying"), Lead(Move(t, "accepted"), e)))
        /\ Script(Lead(Release(t), e))
    BY <1>1, LeadScript
  <2>3. QED
    BY <2>1, <2>2, CaresSoon
<1>6. QED
  BY <1>2, <1>3, <1>4, <1>5

LEMMA ComputedRuns ==
    ASSUME state \in Stands, NEW t \in Task, state[t] = "ready",
           \/ LaunchDenied(t) \/ LaunchCondition(t) \/ LaunchCheck(t) \/ LaunchUnusable(t)
           \/ LaunchReduce(t) \/ LaunchRepeat(t) \/ LaunchApproval(t) \/ LaunchNoSlot(t)
           \/ LaunchCached(t)
    PROVE  Runs(todo', state, wf)
<1> DEFINE e == <<>>
           u == Put(state, t, "running")
           one == <<StartComputed(t)>>
<1>1. Script(e) /\ \A v : Runs(e, v, wf)
  BY EmptyScript, RunsNothing
<1>2. u \in Stands /\ u[t] = "running"
  BY PutFacts DEF TaskState
<1>3. Script(one)
  BY <1>1, ThenOne
<1>4. \A s : Runs(s, u, wf) /\ Cares(t, s) => Runs(Then(one, s), state, wf)
  BY BegunRuns
<1> HIDE DEF u
<1>5. /\ Runs(AcceptComputed(t), u, wf) /\ Script(AcceptComputed(t))
      /\ Runs(FailSteps(t), u, wf) /\ Script(FailSteps(t))
      /\ Cares(t, AcceptComputed(t)) /\ Cares(t, FailSteps(t))
  BY <1>2, ResultRuns
<1>6. Runs(Then(one, AcceptComputed(t)), state, wf) /\ Runs(Then(one, FailSteps(t)), state, wf)
  BY <1>4, <1>5
<1>7. ASSUME \/ LaunchDenied(t) \/ LaunchNoSlot(t) \/ LaunchApproval(t)
             \/ LaunchUnusable(t) \/ LaunchReduce(t) \/ LaunchCached(t)
      PROVE  Runs(todo', state, wf)
  <2>1. \/ todo' = <<Block(t)>> \/ todo' = e \/ todo' = Then(one, FailSteps(t))
        \/ todo' = Then(one, AcceptComputed(t))
    BY <1>7 DEF LaunchDenied, LaunchNoSlot, LaunchApproval, LaunchUnusable, LaunchReduce,
       LaunchCached, Launch, Then
  <2>2. QED
    BY <1>1, <1>6, <2>1, BlockEnds
<1>8. CASE LaunchCondition(t)
  <2> DEFINE skipped == IF branch[t] = "on_true" THEN Node[t].on_false ELSE Node[t].on_true
             items == {<<Block(y)>> : y \in skipped}
  <2>1. \/ todo' = Then(one, FailSteps(t))
        \/ todo' = Then(Then(one, AcceptComputed(t)), Each(items))
    BY <1>8 DEF LaunchCondition, Launch, Then
  <2>2. \A i \in items : \A v \in Stands : \E v2 \in Stands : Path(i, v, v2)
    <3> HIDE DEF skipped
    <3> SUFFICES ASSUME NEW y \in skipped, NEW v \in Stands
                 PROVE  \E v2 \in Stands : Path(<<Block(y)>>, v, v2)
      OBVIOUS
    <3> DEFINE x == Block(y)
    <3>1. x.op = "block"
      BY DEF Block
    <3>2. <<x>> = Lead(x, <<>>)
      BY LeadTuple
    <3> HIDE DEF x
    <3>3. Simple(x, v) /\ After(x, v) \in Stands
      BY <3>1, PathStands DEF Simple
    <3>4. Path(<<x>>, v, After(x, v))
      BY <3>2, <3>3 DEF Path
    <3>5. QED
      BY <3>3, <3>4 DEF x
  <2> HIDE DEF items
  <2>3. \A v \in Stands : Runs(Then(Each(items), e), v, wf)
    BY <1>1, <2>2, RunsWithin
  <2>4. Script(Each(items)) /\ Then(Each(items), e) = Each(items)
    BY LoopScript, ThenScript, <1>1
  <2>5. Runs(Each(items), Put(u, t, "accepted"), wf)
    BY <1>2, <2>3, <2>4, PutFacts DEF TaskState
  <2>6. /\ Runs(Then(AcceptComputed(t), Each(items)), u, wf)
        /\ Cares(t, Then(AcceptComputed(t), Each(items)))
    BY <1>2, <1>5, <2>4, <2>5, AcceptRuns, CaresThen
  <2>7. Then(Then(one, AcceptComputed(t)), Each(items)) =
            Then(one, Then(AcceptComputed(t), Each(items)))
    BY <1>3, <1>5, <2>4, ThenAssoc
  <2> HIDE DEF one
  <2>8. QED
    BY <1>4, <1>6, <2>1, <2>6, <2>7
<1>9. CASE LaunchCheck(t)
  <2>1. PICK verdict \in {"accepted", "rejected"} :
           todo' = <<StartComputed(t), Move(t, "completed"), Move(t, "verifying"),
                     Move(t, verdict), Release(t)>>
    BY <1>9 DEF LaunchCheck, Launch
  <2> DEFINE end == <<Move(t, "verifying"), Move(t, verdict), Release(t)>>
             u1 == Put(u, t, "completed")
             u2 == Put(u1, t, "verifying")
  <2>2. todo' = Then(<<StartComputed(t), Move(t, "completed")>>, end)
    BY <2>1, FiveSplit
  <2>3. end = Lead(Move(t, "verifying"), Lead(Move(t, verdict), Lead(Release(t), e)))
    BY LeadTuple
  <2>4. Script(end)
    BY <1>1, ThenThree
  <2>5. todo' = Lead(StartComputed(t), Lead(Move(t, "completed"), end))
    BY <2>2, <2>4, ThenTwo
  <2>6. u1 \in Stands /\ u1[t] = "completed"
    BY <1>2, PutFacts DEF TaskState
  <2> HIDE DEF u1
  <2>7. u2[t] = "verifying"
    BY <2>6, PutFacts DEF TaskState
  <2> HIDE DEF end, u2, e
  <2>8. Runs(Lead(Release(t), e), Put(u2, t, verdict), wf)
    BY <1>1, RunsEasy DEF Release
  <2>9. Runs(Lead(Move(t, verdict), Lead(Release(t), e)), u2, wf)
    BY <2>7, <2>8, RunsMove DEF CanTransitionTask
  <2>10. Runs(end, u1, wf)
    BY <2>3, <2>6, <2>9, RunsMove DEF CanTransitionTask, u2
  <2>11. Runs(Lead(Move(t, "completed"), end), u, wf)
    BY <1>2, <2>10, RunsMove DEF CanTransitionTask, u1
  <2>13. Script(Lead(Move(t, "completed"), end))
    BY <2>11 DEF Runs
  <2>16. Cares(t, Lead(Move(t, "completed"), end))
    BY <2>4, CaresSoon
  <2>12. Runs(Then(one, Lead(Move(t, "completed"), end)), state, wf)
    BY <1>4, <2>11, <2>16
  <2>14. Then(one, Lead(Move(t, "completed"), end)) = todo'
    BY <2>5, <2>13, ThenOne
  <2>15. QED
    BY <2>12, <2>14
<1>10. CASE LaunchRepeat(t)
  <2> DEFINE x == [op |-> "iterate", root |-> t, n |-> 1]
  <2>1. todo' = e \/ todo' = Then(one, FailSteps(t)) \/ todo' = Then(one, <<x>>)
    BY <1>10 DEF LaunchRepeat, Launch, Iterate, Then
  <2>2. x.op = "iterate" /\ x.root = t
    OBVIOUS
  <2>3. <<x>> = Lead(x, e)
    BY LeadTuple
  <2> HIDE DEF x, e
  <2>4. x.op # "each" /\ Fits(x, e, u, wf) /\ AfterWf(x, wf) = wf
    BY <1>2, <2>2 DEF Fits, AfterWf, Hard
  <2>5. Runs(Lead(x, e), u, wf)
    BY <1>1, <2>4, RunsFront
  <2>8. Cares(t, Lead(x, e))
    BY <1>1, <2>2, CaresSoon
  <2>6. Runs(Then(one, <<x>>), state, wf)
    BY <1>4, <2>3, <2>5, <2>8
  <2>7. QED
    BY <1>1, <1>6, <2>1, <2>6
<1>11. QED
  BY <1>7, <1>8, <1>9, <1>10

LEMMA MapRuns ==
    ASSUME state \in Stands, NEW t \in Task, state[t] = "ready", LaunchMap(t)
    PROVE  Runs(todo', state, wf)
<1> DEFINE u == Put(state, t, "running")
           one == <<StartComputed(t)>>
           A == {v \in Stands : v[t] = "running"}
           Joining(c) == [op |-> "add", task |-> c, on |-> {t}]
           Tied(r) == [op |-> "depend", task |-> r, on |-> Node[t].children]
           add == {<<Joining(c)>> : c \in Node[t].children}
           depend == {<<Tied(r)>> : r \in Node[t].reduce}
<1>1. todo' = Then(Then(Then(one, Each(add)), Each(depend)), AcceptComputed(t))
  BY DEF LaunchMap, Launch, Then
<1>2. u \in A /\ \A v \in A : v \in Stands /\ v[t] = "running"
  BY PutFacts DEF TaskState
<1> HIDE DEF u
<1>3. \A v \in A : Runs(AcceptComputed(t), v, wf) /\ Script(AcceptComputed(t))
                 /\ Cares(t, AcceptComputed(t))
  BY <1>2, ResultRuns
<1>4. ASSUME NEW x, x.op \in {"add", "depend"}, NEW v \in A
      PROVE  \E v2 \in A : Path(<<x>>, v, v2)
  <2>1. <<x>> = Lead(x, <<>>)
    BY LeadTuple
  <2>2. Simple(x, v)
    BY <1>4 DEF Simple
  <2>3. After(x, v) \in Stands
    BY <1>2, <2>2, PathStands
  <2>4. After(x, v)[t] = "running"
    BY <1>2, <1>4 DEF After, Hard, Stands
  <2>5. QED
    BY <2>1, <2>2, <2>3, <2>4 DEF Path
<1>5. \A c : Joining(c).op = "add" /\ Tied(c).op = "depend"
  OBVIOUS
<1> HIDE DEF Joining, Tied
<1>6. /\ \A i \in add : \A v \in A : \E v2 \in A : Path(i, v, v2)
      /\ \A i \in depend : \A v \in A : \E v2 \in A : Path(i, v, v2)
  BY <1>4, <1>5
<1> HIDE DEF add, depend
<1>7. Script(one) /\ Script(Each(add)) /\ Script(Each(depend)) /\ Script(AcceptComputed(t))
  BY <1>2, <1>3, LoopScript, EmptyScript, ThenOne
<1>8. /\ todo' = Then(one, Then(Each(add), Then(Each(depend), AcceptComputed(t))))
      /\ Script(Then(Each(depend), AcceptComputed(t)))
  BY <1>1, <1>7, ThenFour
<1>9. A \in SUBSET Stands
  OBVIOUS
<1> HIDE DEF A
<1>10. \A v \in A : Runs(Then(Each(depend), AcceptComputed(t)), v, wf)
  BY <1>3, <1>6, <1>7, <1>9, RunsWithin
<1>11. Runs(Then(Each(add), Then(Each(depend), AcceptComputed(t))), u, wf)
  BY <1>2, <1>6, <1>8, <1>9, <1>10, RunsWithin
<1>12. Cares(t, Then(Each(add), Then(Each(depend), AcceptComputed(t))))
  BY <1>2, <1>3, <1>7, <1>8, CaresThen
<1>13. QED
  BY <1>8, <1>11, <1>12, BegunRuns DEF u

LEMMA AgentRuns ==
    ASSUME state \in Stands, NEW t \in Task, state[t] = "ready",
           LaunchAgent(t) \/ LaunchUnprepared(t)
    PROVE  Runs(todo', state, wf)
<1> DEFINE e == <<>>
           u == Put(state, t, "running")
           x == [op |-> "worktree", task |-> t]
           y == [op |-> "submit", task |-> t]
           prepare == IF NeedsWorktree(t) THEN <<x>> ELSE e
           last == <<y>>
<1>1. \/ todo' = Then(Then(StartSteps(t, t), prepare), last)
      \/ todo' = Then(StartSteps(t, t), FailSteps(t))
  BY DEF LaunchAgent, LaunchUnprepared, Launch, Then
<1>2. Script(e) /\ \A v : Runs(e, v, wf)
  BY EmptyScript, RunsNothing
<1>3. u \in Stands /\ u[t] = "running"
  BY PutFacts DEF TaskState
<1>4. \A s : Runs(s, u, wf) /\ Cares(t, s) => Runs(Then(StartSteps(t, t), s), state, wf)
  BY StartRuns
<1>5. x.op = "worktree" /\ y.op = "submit" /\ y.task = t
  OBVIOUS
<1>6. Script(StartSteps(t, t))
  BY <1>2, ThenTwo DEF StartSteps
<1>7. last = Lead(y, e)
  BY LeadTuple
<1>8. \/ prepare = <<x>> \/ prepare = e
  OBVIOUS
<1> HIDE DEF u, x, y, prepare, last
<1>9. Runs(last, u, wf) /\ Script(last) /\ Cares(t, last)
  BY <1>2, <1>5, <1>7, RunsEasy, CaresSoon DEF Runs
<1>10. Runs(Then(prepare, last), u, wf) /\ Script(prepare)
  <2>1. Then(<<x>>, last) = Lead(x, last) /\ Script(<<x>>) /\ Then(e, last) = last
    BY <1>9, ThenOne, ThenScript, EmptyScript
  <2> HIDE DEF e
  <2>2. QED
    BY <1>2, <1>5, <1>8, <1>9, <2>1, RunsEasy
<1>11. Then(Then(StartSteps(t, t), prepare), last) = Then(StartSteps(t, t), Then(prepare, last))
  BY <1>6, <1>9, <1>10, ThenAssoc
<1>12. Runs(FailSteps(t), u, wf) /\ Cares(t, FailSteps(t))
  BY <1>3, ResultRuns
<1>13. Cares(t, Then(prepare, last))
  BY <1>9, <1>10, CaresThen
<1>14. QED
  BY <1>1, <1>4, <1>10, <1>11, <1>12, <1>13

LEMMA LaunchRuns ==
    ASSUME TypeOK, TaskFacts, LaunchTask
    PROVE  Runs(todo', state, wf)
<1>1. state \in Stands
  BY StandsNow DEF TypeOK
<1>2. \A t \in ready : t \in Task /\ state[t] = "ready"
  BY DEF TypeOK, TaskFacts
<1>3. QED
  BY <1>1, <1>2, ComputedRuns, MapRuns, AgentRuns DEF LaunchTask

LEMMA CollectRuns ==
    ASSUME TypeOK, \A t \in Task : WorkerOf(t), CollectFuture
    PROVE  Runs(todo', state, wf)
<1>1. state \in Stands
  BY StandsNow DEF TypeOK
<1>2. PICK t \in Task :
         \/ CollectCancelled(t) \/ CollectAccepted(t) \/ CollectDenied(t)
         \/ CollectRejected(t) \/ CollectExhausted(t) \/ CollectFailed(t)
         \/ CollectUnfinished(t)
  BY DEF CollectFuture
<1> DEFINE e == <<>>
           u == Put(state, t, "verifying")
<1>3. Script(e) /\ \A v : Runs(e, v, wf)
  BY EmptyScript, RunsNothing
<1>4. Decides(t) => state[t] = "running"
  BY <1>2 DEF Decides, WorkerOf
<1>5. u \in Stands /\ u[t] = "verifying" /\ \A y : Put(u, t, y) = Put(state, t, y)
  BY <1>1, PutFacts DEF TaskState
<1>6. Script(CompleteSteps(t))
  BY <1>3, ThenThree DEF CompleteSteps
<1>7. \A s : state[t] = "running" /\ Runs(s, u, wf) => Runs(Then(CompleteSteps(t), s), state, wf)
  BY <1>1, CompleteRuns
<1> HIDE DEF u
\* an update at the end of a script, or in front of one
<1>8. \A f, v : Runs(<<Update(t, f)>>, v, wf)
  <2> TAKE f, v
  <2>1. <<Update(t, f)>> = Lead(Update(t, f), e) /\ Update(t, f).op = "update"
    BY LeadTuple DEF Update
  <2> HIDE DEF e
  <2>2. QED
    BY <1>3, <2>1, RunsEasy
<1>9. \A f, v, s : Runs(s, v, wf) => Runs(Then(<<Update(t, f)>>, s), v, wf)
  <2> TAKE f, v, s
  <2> HAVE Runs(s, v, wf)
  <2>1. Then(<<Update(t, f)>>, s) = Lead(Update(t, f), s) /\ Update(t, f).op = "update"
    BY ThenOne DEF Update, Runs
  <2>2. QED
    BY <2>1, RunsEasy
\* a move and a release at the end
<1>10. ASSUME NEW v, NEW to, CanTransitionTask(v[t], to)
       PROVE  Runs(<<Move(t, to), Release(t)>>, v, wf)
  <2> DEFINE two == <<Move(t, to), Release(t)>>
  <2>1. Runs(Then(two, e), v, wf)
    BY <1>3, <1>10, GoneRuns
  <2>2. Then(two, e) = two
    BY <1>3, ThenTwo, ThenScript
  <2>3. QED
    BY <2>1, <2>2
<1>11. ASSUME CollectCancelled(t) \/ CollectExhausted(t)
       PROVE  Runs(todo', state, wf)
  <2>1. CASE CollectCancelled(t)
    <3>1. todo' = <<Update(t, fingerprint[t])>>
      BY <2>1 DEF CollectCancelled, Collect, ClearPid
    <3>2. QED
      BY <1>8, <3>1
  <2>2. CASE CollectExhausted(t)
    <3> DEFINE two == <<Move(t, "budget_exhausted"), Release(t)>>
               three == <<ClearPid(t), Move(t, "budget_exhausted"), Release(t)>>
    <3>1. todo' = three /\ Decides(t)
      BY <2>2 DEF CollectExhausted, Collect
    <3>2. Runs(two, state, wf)
      BY <1>4, <1>10, <3>1 DEF CanTransitionTask
    <3>3. three = Lead(ClearPid(t), two)
      <4>1. two = Lead(Move(t, "budget_exhausted"), Lead(Release(t), e))
        BY LeadTuple
      <4>2. three = Lead(ClearPid(t), Lead(Move(t, "budget_exhausted"), Lead(Release(t), e)))
        BY LeadTuple
      <4>3. QED
        BY <4>1, <4>2
    <3>4. ClearPid(t).op = "update"
      BY DEF ClearPid, Update
    <3> HIDE DEF two, three
    <3>5. QED
      BY <3>1, <3>2, <3>3, <3>4, RunsEasy
  <2>3. QED
    BY <1>11, <2>1, <2>2
<1>12. ASSUME CollectAccepted(t) \/ CollectDenied(t) \/ CollectUnfinished(t)
       PROVE  Runs(todo', state, wf)
  <2>1. /\ Decides(t)
        /\ \/ \E to \in {"accepted", "rejected"} :
                 todo' = Then(CompleteSteps(t), <<Move(t, to), Release(t)>>)
           \/ \E f : todo' = Then(CompleteSteps(t), <<Update(t, f)>>)
    BY <1>12 DEF CollectAccepted, CollectDenied, CollectUnfinished, Collect, Then
  <2>2. \A to \in {"accepted", "rejected"} : Runs(<<Move(t, to), Release(t)>>, u, wf)
    BY <1>5, <1>10 DEF CanTransitionTask
  <2>3. QED
    BY <1>4, <1>7, <1>8, <2>1, <2>2
<1>13. CASE CollectRejected(t)
  <2>1. PICK f \in Fingerprint :
           todo' = Then(Then(Then(CompleteSteps(t), <<Fail(t, "rejected", f), Release(t)>>),
                             Escalate(t, f)), MaybeRetry(t, f))
    BY <1>13 DEF CollectRejected, Collect, Then
  <2> DEFINE two == <<Fail(t, "rejected", f), Release(t)>>
             u2 == Put(u, t, "rejected")
  <2>2. u2 \in Stands /\ u2[t] = "rejected"
    BY <1>5, PutFacts DEF TaskState
  <2>3. /\ Runs(Then(Escalate(t, f), MaybeRetry(t, f)), u2, wf)
        /\ Script(Escalate(t, f)) /\ Script(MaybeRetry(t, f))
    BY <2>2, RetryRuns
  <2>4. Runs(Then(two, Then(Escalate(t, f), MaybeRetry(t, f))), u, wf) /\ Script(two)
    BY <1>3, <1>5, <2>3, GoneRuns, ThenTwo DEF CanTransitionTask
  <2> HIDE DEF two, u2
  <2>5. todo' = Then(CompleteSteps(t), Then(two, Then(Escalate(t, f), MaybeRetry(t, f))))
    BY <1>6, <2>1, <2>3, <2>4, ThenFour DEF two
  <2>6. Decides(t)
    BY <1>13 DEF CollectRejected
  <2>7. QED
    BY <1>4, <1>7, <2>4, <2>5, <2>6
<1>14. CASE CollectFailed(t)
  <2>1. PICK f \in Fingerprint :
           todo' = <<Update(t, f)>> \o
             (IF state[t] # "running" THEN <<>>
              ELSE <<Fail(t, "failed", f), Release(t)>> \o Escalate(t, f) \o MaybeRetry(t, f))
    BY <1>14 DEF CollectFailed, Collect
  <2> DEFINE two == <<Fail(t, "failed", f), Release(t)>>
             u2 == Put(state, t, "failed")
  <2>2. \/ state[t] # "running" /\ todo' = Then(<<Update(t, f)>>, e)
        \/ /\ state[t] = "running"
           /\ todo' = Then(<<Update(t, f)>>, Then(Then(two, Escalate(t, f)), MaybeRetry(t, f)))
    BY <2>1 DEF Then
  <2>3. u2 \in Stands /\ u2[t] = "failed"
    BY <1>1, PutFacts DEF TaskState
  <2>4. /\ Runs(Then(Escalate(t, f), MaybeRetry(t, f)), u2, wf)
        /\ Script(Escalate(t, f)) /\ Script(MaybeRetry(t, f))
    BY <2>3, RetryRuns
  <2>5. state[t] = "running" => Runs(Then(two, Then(Escalate(t, f), MaybeRetry(t, f))), state, wf)
    BY <2>4, GoneRuns DEF CanTransitionTask
  <2>6. Script(two)
    BY <1>3, ThenTwo
  <2> HIDE DEF two, u2, e
  <2>7. Then(Then(two, Escalate(t, f)), MaybeRetry(t, f)) =
            Then(two, Then(Escalate(t, f), MaybeRetry(t, f)))
    BY <2>4, <2>6, ThenAssoc
  <2>8. QED
    BY <1>3, <1>9, <2>2, <2>5, <2>7
<1>15. QED
  BY <1>2, <1>11, <1>12, <1>13, <1>14

\* the next iteration of a repeat node that runs
LEMMA AgainRuns ==
    ASSUME NEW t, NEW n, NEW v, NEW w, v[t] = "running"
    PROVE  Runs(Iterate(t, n), v, w)
<1> DEFINE e == <<>>
           x == [op |-> "iterate", root |-> t, n |-> n]
<1>1. Runs(e, v, w)
  BY RunsNothing
<1>2. x.op = "iterate" /\ x.root = t
  OBVIOUS
<1>3. Iterate(t, n) = Lead(x, e)
  BY LeadTuple DEF Iterate
<1> HIDE DEF e, x
<1>4. x.op # "each" /\ Fits(x, e, v, w) /\ AfterWf(x, w) = w /\ After(x, v) = v
  BY <1>2 DEF Fits, AfterWf, After, Hard
<1>5. QED
  BY <1>1, <1>3, <1>4, RunsFront

LEMMA DriveRuns ==
    ASSUME TypeOK, TodoInv, Runs(todo, state, wf), Drives
    PROVE  Runs(todo', state, wf)
<1> DEFINE t == Head(todo).root
           c == Child
           n == Head(todo).n
           u == Put(state, c, "verifying")
           end(to) == <<Move(c, to), Release(c)>>
<1>1. At("drive")
  BY DEF Drives, DriveAccepted, DriveRejected, DriveExhausted, DriveRaised, DriveUnfinished, Drive
<1>2. Tail(todo) = <<>> /\ t \in Task /\ c \in Task \ {t}
  BY <1>1, DriveHead
<1>3. state \in Stands
  BY StandsNow DEF TypeOK
<1>4. state[t] = "running" /\ state[c] = "running"
  <2>1. todo # <<>> /\ Head(todo).op = "drive"
    BY <1>1 DEF At
  <2>2. Fits(Head(todo), Tail(todo), state, wf)
    BY <2>1, RunsOn
  <2>3. QED
    BY <2>1, <2>2 DEF Fits, Child
<1> HIDE DEF t, c, n
<1>5. /\ u \in Stands /\ u[c] = "verifying" /\ u[t] = "running"
      /\ \A y : Put(u, c, y) = Put(state, c, y)
      /\ \A y \in TaskState : Put(state, c, y) \in Stands /\ Put(state, c, y)[t] = "running"
  <2>1. "verifying" \in TaskState /\ c # t
    BY <1>2 DEF TaskState
  <2>2. u \in Stands /\ u[c] = "verifying" /\ \A y : Put(u, c, y) = Put(state, c, y)
    BY <1>2, <1>3, <2>1, PutFacts
  <2>3. \A y \in TaskState : Put(state, c, y) \in Stands
    BY <1>2, <1>3, PutFacts
  <2>4. \A y : Put(state, c, y)[t] = "running"
    BY <1>2, <1>3, <1>4, <2>1, PutElse
  <2>5. QED
    BY <2>2, <2>3, <2>4
<1> HIDE DEF u
<1>6. \A s : Runs(s, u, wf) => Runs(Then(CompleteSteps(c), s), state, wf)
  BY <1>2, <1>3, <1>4, CompleteRuns DEF u
<1>7. Script(<<>>)
  BY EmptyScript
<1>8. Script(CompleteSteps(c)) /\ (\A to : Script(end(to)))
  BY <1>7, ThenTwo, ThenThree DEF CompleteSteps
<1>9. \A v \in Stands : v[t] = "running" =>
         /\ Runs(FailSteps(t), v, wf) /\ Script(FailSteps(t))
         /\ Runs(AcceptComputed(t), v, wf) /\ Script(AcceptComputed(t))
         /\ \A m : Runs(Iterate(t, m), v, wf) /\ Script(Iterate(t, m))
  BY <1>2, ResultRuns, AgainRuns DEF Runs
<1>10. ASSUME NEW v, NEW to \in TaskState, CanTransitionTask(v[c], to), NEW s,
              Runs(s, Put(v, c, to), wf)
       PROVE  Runs(Then(end(to), s), v, wf)
  BY <1>10, GoneRuns
<1> HIDE DEF end
<1>11. ASSUME DriveAccepted \/ DriveRejected
       PROVE  Runs(todo', state, wf)
  <2>1. PICK to \in {"accepted", "rejected"},
             next \in {AcceptComputed(t), Iterate(t, n + 1), FailSteps(t)} :
           todo' = Then(Then(Then(CompleteSteps(c), end(to)), next), <<>>)
    BY <1>2, <1>11 DEF DriveAccepted, DriveRejected, Drive, Then, end, t, c, n
  <2>2. Runs(next, Put(state, c, to), wf) /\ Script(next)
    BY <1>3, <1>5, <1>9 DEF TaskState
  <2>3. Runs(Then(end(to), next), u, wf)
    BY <1>5, <1>10, <2>2 DEF CanTransitionTask, TaskState
  <2>4. Runs(Then(CompleteSteps(c), Then(end(to), next)), state, wf)
    BY <1>6, <2>3
  <2>5. Then(Then(CompleteSteps(c), end(to)), next) = Then(CompleteSteps(c), Then(end(to), next))
    BY <1>8, <2>2, ThenAssoc
  <2>6. todo' = Then(CompleteSteps(c), Then(end(to), next))
    BY <1>7, <2>1, <2>4, <2>5, ThenScript DEF Runs
  <2>7. QED
    BY <2>4, <2>6
<1>12. CASE DriveExhausted
  <2> DEFINE two == end("budget_exhausted")
             x == ClearPid(c)
             three == <<x, Move(c, "budget_exhausted"), Release(c)>>
  <2>1. todo' = Then(Then(three, FailSteps(t)), <<>>)
    BY <1>2, <1>12 DEF DriveExhausted, Drive, Then, end, t, c
  <2>2. Runs(FailSteps(t), Put(state, c, "budget_exhausted"), wf) /\ Script(FailSteps(t))
    BY <1>3, <1>5, <1>9 DEF TaskState
  <2>3. Runs(Then(two, FailSteps(t)), state, wf)
    BY <1>4, <1>10, <2>2 DEF CanTransitionTask, TaskState
  <2>4. Then(three, FailSteps(t)) = Lead(x, Then(two, FailSteps(t)))
    <3>1. Then(two, FailSteps(t)) =
              Lead(Move(c, "budget_exhausted"), Lead(Release(c), FailSteps(t)))
      BY <2>2, ThenTwo DEF end
    <3> HIDE DEF two
    <3>2. Then(three, FailSteps(t))
            = Lead(x, Lead(Move(c, "budget_exhausted"), Lead(Release(c), FailSteps(t))))
      BY <2>2, ThenThree
    <3>3. QED
      BY <3>1, <3>2
  <2>5. x.op = "update"
    BY DEF ClearPid, Update
  <2> HIDE DEF two, x, three
  <2>6. Runs(Then(three, FailSteps(t)), state, wf)
    BY <2>3, <2>4, <2>5, RunsEasy
  <2>7. todo' = Then(three, FailSteps(t))
    BY <1>7, <2>1, <2>6, ThenScript DEF Runs
  <2>8. QED
    BY <2>6, <2>7
<1>13. CASE DriveRaised
  <2>1. todo' = Then(FailSteps(t), <<>>)
    BY <1>2, <1>13 DEF DriveRaised, Drive, Then, t
  <2>2. Runs(FailSteps(t), state, wf) /\ Script(FailSteps(t))
    BY <1>3, <1>4, <1>9
  <2>3. QED
    BY <1>7, <2>1, <2>2, ThenScript
<1>14. CASE DriveUnfinished
  <2>1. todo' = Then(Then(CompleteSteps(c), FailSteps(t)), <<>>)
    BY <1>2, <1>14 DEF DriveUnfinished, Drive, Then, t, c
  <2>2. Runs(Then(CompleteSteps(c), FailSteps(t)), state, wf)
    BY <1>5, <1>6, <1>9
  <2>3. todo' = Then(CompleteSteps(c), FailSteps(t))
    BY <1>7, <2>1, <2>2, ThenScript DEF Runs
  <2>4. QED
    BY <2>2, <2>3
<1>15. QED
  BY <1>11, <1>12, <1>13, <1>14 DEF Drives

LEMMA IterateRuns ==
    ASSUME TypeOK, TodoInv, Runs(todo, state, wf), PerformIterate
    PROVE  Runs(todo', state, wf)
<1>1. todo # <<>> /\ Head(todo).op = "iterate"
  BY DEF PerformIterate, At
<1>2. PICK t \in Calm, n \in Nat \ {0} : todo = <<Iterating(t, n)>>
  BY <1>1, HeadFacts, EndingShape DEF HeadFact, TypeOK, Launching, Driving
<1>3. /\ t \in Task /\ Head(todo).root = t /\ Head(todo).n = n /\ Tail(todo) = <<>>
  BY <1>2, CalmIsTask DEF Iterating
<1>4. state[t] = "running"
  <2>1. Fits(Head(todo), Tail(todo), state, wf)
    BY <1>1, RunsOn
  <2>2. QED
    BY <1>1, <1>3, <2>1 DEF Fits
<1>5. state \in Stands /\ Script(<<>>)
  BY StandsNow, EmptyScript DEF TypeOK
<1> DEFINE more == n <= Len(Node[t].iterations)
           c == Node[t].iterations[n]
           before == IF n = 1 THEN {} ELSE {Node[t].iterations[n - 1]}
           x == [op |-> "add", task |-> c, on |-> before]
           add == IF state[c] = "absent" THEN <<x>> ELSE <<>>
           open == <<Move(c, "ready")>>
           y == [op |-> "submit", task |-> c]
           z == [op |-> "drive", root |-> t, n |-> n]
           out == <<y, z>>
           go == Then(Then(Then(add, open), StartSteps(c, t)), out)
<1>6. todo' = Then(IF more /\ state[c] \in {"absent", "pending"} THEN go ELSE FailSteps(t), <<>>)
  BY <1>3 DEF PerformIterate, Then
<1>7. Runs(FailSteps(t), state, wf) /\ Then(FailSteps(t), <<>>) = FailSteps(t)
  BY <1>3, <1>4, <1>5, ResultRuns, ThenScript
<1>8. ASSUME more, state[c] \in {"absent", "pending"} PROVE Runs(go, state, wf)
  <2>1. c \in Task \ {t}
    <3>1. Node[t].iterations \in Seq(Task \ {t})
      BY <1>3, RuntimeAssumption
    <3>2. QED
      BY <1>8, <3>1
  <2>2. /\ x.op = "add" /\ x.task = c /\ y.op = "submit" /\ y.task = c
        /\ z.op = "drive" /\ z.root = t
        /\ Node[z.root].iterations[z.n] = c
    OBVIOUS
  <2>3. \/ state[c] = "absent" /\ add = <<x>>
        \/ state[c] = "pending" /\ add = <<>>
    BY <1>8
  <2> DEFINE e == <<>>
             u1 == Put(state, c, "pending")
             u2 == Put(u1, c, "ready")
             u3 == Put(u2, c, "running")
  <2> HIDE DEF c
  <2>4. u1 \in Stands /\ u1[c] = "pending" /\ u1[t] = "running"
    <3>1. "pending" \in TaskState /\ c \in Task /\ c # t
      BY <2>1 DEF TaskState
    <3>2. u1 \in Stands /\ u1[c] = "pending"
      BY <1>5, <3>1, PutFacts
    <3>3. u1[t] = "running"
      BY <1>3, <1>4, <1>5, <3>1, PutElse
    <3>4. QED
      BY <3>2, <3>3
  <2> HIDE DEF u1
  <2>5. u2 \in Stands /\ u2[c] = "ready" /\ u2[t] = "running"
    <3>1. "ready" \in TaskState /\ c \in Task /\ c # t
      BY <2>1 DEF TaskState
    <3>2. u2 \in Stands /\ u2[c] = "ready"
      BY <2>4, <3>1, PutFacts
    <3>3. u2[t] = "running"
      BY <1>3, <2>4, <3>1, PutElse
    <3>4. QED
      BY <3>2, <3>3
  <2> HIDE DEF u2
  <2>6. u3[c] = "running" /\ u3[t] = "running"
    <3>1. "running" \in TaskState /\ c \in Task /\ c # t
      BY <2>1 DEF TaskState
    <3>2. u3[c] = "running"
      BY <2>5, <3>1, PutFacts
    <3>3. u3[t] = "running"
      BY <1>3, <2>5, <3>1, PutElse
    <3>4. QED
      BY <3>2, <3>3
  <2> HIDE DEF u3
  <2>7. out = Lead(y, Lead(z, e))
    BY LeadTuple
  <2>8. \A v : Runs(e, v, wf)
    BY RunsNothing
  <2> HIDE DEF c, x, y, z, out, add, e
  <2>9. Runs(Lead(z, e), u3, wf)
    <3>1. z.op # "each" /\ Fits(z, e, u3, wf) /\ AfterWf(z, wf) = wf
      BY <2>2, <2>6 DEF Fits, AfterWf, Hard
    <3>2. QED
      BY <2>8, <3>1, RunsFront
  <2>10. Runs(out, u3, wf)
    BY <2>2, <2>7, <2>9, RunsEasy
  <2>17. Cares(c, out) /\ \A r \in Task : Cares(r, out) => r \in {c, t}
    <3>1. Script(Lead(z, e)) /\ Script(e)
      BY <1>5, <2>9 DEF Runs, e
    <3>2. Cares(c, out)
      BY <2>2, <2>7, <3>1, CaresSoon
    <3>3. \A r : Cares(r, out) <=> Among(r, y) \/ Among(r, z) \/ Cares(r, e)
      BY <2>7, <3>1, CaresLead
    <3>4. \A r : ~Cares(r, e)
      BY CaresNothing DEF e
    <3>5. QED
      BY <2>2, <3>2, <3>3, <3>4 DEF Among, Tends
  <2>11. Runs(Then(StartSteps(c, t), out), u2, wf) /\ Script(out)
    BY <2>1, <2>5, <2>10, <2>17, StartRuns DEF u3, Runs
  <2>12. Runs(Then(open, Then(StartSteps(c, t), out)), u1, wf)
    <3>1. Runs(Lead(Move(c, "ready"), Then(StartSteps(c, t), out)), u1, wf)
      BY <2>4, <2>11, RunsMove DEF CanTransitionTask, u2
    <3>2. QED
      BY <2>11, <3>1, ThenOne DEF Runs
  <2>13. Runs(Then(add, Then(open, Then(StartSteps(c, t), out))), state, wf)
    <3> DEFINE rest == Then(open, Then(StartSteps(c, t), out))
    <3>1. Runs(rest, u1, wf) /\ Script(rest)
      BY <2>12 DEF Runs
    <3> HIDE DEF rest
    <3>2. CASE state[c] = "absent" /\ add = <<x>>
      <4>1. x.op # "each" /\ Fits(x, rest, state, wf) /\ AfterWf(x, wf) = wf
        BY <2>2 DEF Fits, AfterWf, Hard
      <4>2. After(x, state) = u1
        BY <2>2, <3>2 DEF After, Hard, Put, u1
      <4>3. Runs(Lead(x, rest), state, wf)
        BY <3>1, <4>1, <4>2, RunsFront
      <4>4. QED
        BY <3>1, <3>2, <4>3, ThenOne DEF rest
    <3>3. CASE state[c] = "pending" /\ add = <<>>
      <4>1. u1 = state
        BY <1>5, <3>3 DEF u1, Put, Stands
      <4>2. Then(<<>>, rest) = rest
        BY <3>1, <1>5, ThenScript
      <4>3. QED
        BY <3>1, <3>3, <4>1, <4>2 DEF rest
    <3>4. QED
      BY <2>3, <3>2, <3>3
  <2>14. Script(add) /\ Script(open) /\ Script(StartSteps(c, t))
    BY <1>5, <2>3, ThenOne, ThenTwo DEF StartSteps
  <2> HIDE DEF open
  <2>15. go = Then(add, Then(open, Then(StartSteps(c, t), out)))
    BY <2>11, <2>14, ThenFour
  <2>16. QED
    BY <2>13, <2>15
<1> HIDE DEF go, more, c
<1>9. Runs(go, state, wf) => Then(go, <<>>) = go
  BY <1>5, ThenScript DEF Runs
<1>10. QED
  BY <1>6, <1>7, <1>8, <1>9

=============================================================================
