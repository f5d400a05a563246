-------------------------------- MODULE Batch --------------------------------
(***************************************************************************)
(* command_batch of scripts/delegate.py: a scheduler in memory over a pool *)
(* of threads, each of which executes one delegate run (module DirectRun). *)
(* The main thread goes round a loop: look at the tokens used, pass over   *)
(* the tasks that are blocked, launch, persist, wait, collect.  A signal   *)
(* may break the loop off at any of these steps.  Runs that are no tasks   *)
(* of the batch are other delegates at work in the same repository.        *)
(***************************************************************************)
EXTENDS DirectRun, Sequences, SequencesExt, Functions

CONSTANTS
    Manifest,     \* the tasks in the order of the manifest
    Deps,         \* [task -> the tasks it depends on]
    Isolated,     \* the tasks with a worktree of their own
    MaxWorkers,
    Cost,         \* [task -> the tokens its run reports, if it reports]
    StopAfter,    \* stop_after_total_tokens
    MaySignal     \* whether the batch may be interrupted (a bound)

Tasks == ToSet(Manifest)

\* load_manifest refuses a manifest that is empty, names a task twice, or has a cycle
ASSUME BatchAssumption ==
    /\ Threaded = Tasks
    /\ Manifest \in Seq(Tasks) /\ Manifest # <<>>
    /\ \A i, j \in DOMAIN Manifest : Manifest[i] = Manifest[j] => i = j
    /\ Deps \in [Tasks -> SUBSET Tasks]
    /\ \A ts \in SUBSET Tasks : ts # {} => \E t \in ts : Deps[t] \cap ts = {}
    /\ Isolated \subseteq Tasks
    /\ \A t \in Isolated : Sandbox[t] = "workspace-write"
    /\ MaxWorkers \in Nat \ {0} /\ StopAfter \in Nat \ {0}
    /\ Cost \in [Tasks -> Nat]

VARIABLES
    status,       \* states[task]["status"]
    usage,        \* states[task]["usage"], as a total
    running,      \* the dictionary of futures
    main,         \* the step of the main thread
    cursor,       \* how far its pass over the manifest is
    queue,        \* the tasks it is about to launch, as places of the manifest
    completed,    \* the futures the last wait returned
    changed,
    exhausted,    \* budget_exhausted
    saved,        \* batch-status.json
    result        \* how command_batch came back

batchVars == <<status, usage, running, main, cursor, queue, completed, changed,
               exhausted, saved, result>>
vars == <<runVars, batchVars>>

Init ==
    /\ RunInit
    /\ status = [t \in Tasks |-> "pending"]
    /\ usage = [t \in Tasks |-> 0]
    /\ running = {} /\ completed = {}
    /\ main = "observe" /\ cursor = 1 /\ queue = {}
    /\ changed = FALSE /\ exhausted = FALSE
    /\ saved = [overall |-> "running", tasks |-> status]
    /\ result = "none"

Failed == {"failed", "skipped", "interrupted"}
Used == FoldFunctionOnSet(+, 0, usage, Tasks)
Settled == \A t \in Tasks : status[t] \notin {"pending", "running"}
Pending == {t \in Tasks : status[t] = "pending"}

\* the main thread's own steps leave the runs alone unless they say otherwise
Alone == UNCHANGED runVars

-----------------------------------------------------------------------------
OverBudget == Used >= StopAfter

SkipOverBudget ==
    /\ main = "observe" /\ OverBudget
    /\ \E t \in Pending : status' = [status EXCEPT ![t] = "skipped"]
    /\ changed' = TRUE /\ exhausted' = TRUE
    /\ UNCHANGED <<usage, running, main, cursor, queue, completed, saved, result>>
    /\ Alone

Observed ==
    /\ main = "observe" /\ (OverBudget => Pending = {})
    /\ main' = "block" /\ cursor' = 1
    /\ UNCHANGED <<status, usage, running, queue, completed, changed, exhausted, saved, result>>
    /\ Alone

\* one pass in the order of the manifest, over states that it changes itself
Blocked(i) ==
    /\ status[Manifest[i]] = "pending"
    /\ \E d \in Deps[Manifest[i]] : status[d] \in Failed
BlockedFrom(c) == {i \in c..Len(Manifest) : Blocked(i)}

SkipBlocked ==
    /\ main = "block"
    /\ \E i \in BlockedFrom(cursor) :
          /\ \A j \in BlockedFrom(cursor) : i <= j
          /\ status' = [status EXCEPT ![Manifest[i]] = "skipped"]
          /\ cursor' = i + 1
    /\ changed' = TRUE
    /\ UNCHANGED <<usage, running, main, queue, completed, exhausted, saved, result>>
    /\ Alone

FreeSlots == MaxWorkers - Cardinality(running)
SharedWriter(t) == Sandbox[t] = "workspace-write" /\ t \notin Isolated

\* a mutant, for ImplementsAcceptance: it is enough that none is pending
ReadyBehind(t) == status[t] = "pending" /\ \A d \in Deps[t] : status[d] # "pending"

Ready(t) == status[t] = "pending" /\ \A d \in Deps[t] : status[d] = "succeeded"

\* what this turn launches: tasks that may run beside others as far as there
\* are slots, or one shared writer when nothing else runs; the first of them
First(n, places) == {i \in places : Cardinality({j \in places : j < i}) < n}
ToLaunch ==
    LET ready == {i \in DOMAIN Manifest : Ready(Manifest[i])}
        writers == {i \in ready : SharedWriter(Manifest[i])}
        parallel == ready \ writers
    IN IF FreeSlots = 0 \/ \E t \in running : SharedWriter(t) THEN {}
       ELSE IF parallel # {} THEN First(FreeSlots, parallel)
       ELSE IF running = {} THEN First(1, writers)
       ELSE {}

Passed ==
    /\ main = "block" /\ BlockedFrom(cursor) = {}
    /\ queue' = ToLaunch
    /\ main' = "launch"
    /\ UNCHANGED <<status, usage, running, cursor, completed, changed, exhausted, saved, result>>
    /\ Alone

\* a task is prepared first: its dependencies' results are read, which the
\* file system may refuse, and an isolated one gets a worktree, which git may
Preparation(t) == t \in Isolated \/ Deps[t] # {}

Launch ==
    /\ main = "launch"
    /\ \E i \in queue :
          LET t == Manifest[i]
          IN /\ \A j \in queue : i <= j
             /\ queue' = queue \ {i}
             /\ \/ /\ status' = [status EXCEPT ![t] = "running"]
                   /\ running' = running \cup {t}
                   /\ Submit(t)
                \/ /\ Preparation(t) /\ ~SharedWriter(t)
                   /\ status' = [status EXCEPT ![t] = "failed"]
                   /\ UNCHANGED running /\ Alone
    /\ changed' = TRUE
    /\ UNCHANGED <<usage, main, cursor, completed, exhausted, saved, result>>

\* for a shared writer, which is prepared when nothing runs, nothing catches the
\* error: it leaves command_batch, with the records as they are
LaunchRaises ==
    /\ main = "launch" /\ running = {}
    /\ \E i \in queue : SharedWriter(Manifest[i]) /\ Preparation(Manifest[i])
    /\ main' = "returned" /\ result' = "raised"
    /\ UNCHANGED <<status, usage, running, cursor, queue, completed, changed, exhausted, saved>>
    /\ Alone

Save(overall) == saved' = [overall |-> overall, tasks |-> status]

\* after launching: persist if anything changed; with nothing running, either
\* all is settled or the scheduler gives up
Launched ==
    /\ main = "launch" /\ queue = {}
    /\ IF changed THEN Save("running") ELSE UNCHANGED saved
    /\ changed' = FALSE
    /\ \/ running # {} /\ main' = "wait" /\ UNCHANGED result
       \/ /\ running = {} /\ Settled
          /\ main' = "finish" /\ UNCHANGED result
       \/ /\ running = {} /\ ~Settled
          /\ main' = "returned" /\ result' = "stalled"
    /\ UNCHANGED <<status, usage, running, cursor, queue, completed, exhausted>>
    /\ Alone

Over == {t \in running : place[t] \in Ended}

Wait ==
    /\ main = "wait" /\ Over # {}
    /\ completed' = Over
    /\ main' = "collect"
    /\ UNCHANGED <<status, usage, running, cursor, queue, changed, exhausted, saved, result>>
    /\ Alone

\* a mutant, for StallIsExplained: an exception in the thread leaves the task as it is
CollectQuietly ==
    /\ main = "collect"
    /\ \E t \in completed :
          /\ completed' = completed \ {t}
          /\ running' = running \ {t}
          /\ IF place[t] = "returned"
             THEN /\ status' = [status EXCEPT ![t] = verdict[t]]
                  /\ \E n \in {0, Cost[t]} : usage' = [usage EXCEPT ![t] = n]
             ELSE UNCHANGED <<status, usage>>
    /\ UNCHANGED <<main, cursor, queue, changed, exhausted, saved, result>>
    /\ Alone

\* the run's usage is read from its status only when it came back with an exit
\* code; a worktree that cannot be finalised fails the task
Collect ==
    /\ main = "collect"
    /\ \E t \in completed :
          /\ completed' = completed \ {t}
          /\ running' = running \ {t}
          /\ \/ status' = [status EXCEPT ![t] =
                    IF place[t] = "returned" THEN verdict[t] ELSE "failed"]
             \/ t \in Isolated /\ status' = [status EXCEPT ![t] = "failed"]
          /\ IF place[t] = "returned"
             THEN \E n \in {0, Cost[t]} : usage' = [usage EXCEPT ![t] = n]
             ELSE UNCHANGED usage
    /\ UNCHANGED <<main, cursor, queue, changed, exhausted, saved, result>>
    /\ Alone

Collected ==
    /\ main = "collect" /\ completed = {}
    /\ Save("running")
    /\ main' = "observe"
    /\ UNCHANGED <<status, usage, running, cursor, queue, completed, changed, exhausted, result>>
    /\ Alone

Overall ==
    IF exhausted THEN "budget_exhausted"
    ELSE IF \A t \in Tasks : status[t] = "succeeded" THEN "succeeded" ELSE "failed"

Finish ==
    /\ main = "finish"
    /\ Save(Overall) /\ result' = Overall
    /\ main' = "returned"
    /\ UNCHANGED <<status, usage, running, cursor, queue, completed, changed, exhausted>>
    /\ Alone

-----------------------------------------------------------------------------
(* A signal (one: the handling itself is not interrupted): the handler sets *)
(* the cancel event, the executor's exit ends the processes in the registry *)
(* and waits for the threads, and only then are the tasks given up.         *)
Signal ==
    /\ MaySignal /\ ~cancelled
    /\ main \in {"observe", "block", "launch", "wait", "collect", "finish"}
    /\ main' = "terminate" /\ cancelled' = TRUE
    /\ completed' = active \cap Tasks   \* the list taken under ACTIVE_LOCK
    /\ UNCHANGED <<status, usage, running, cursor, queue, changed, exhausted, saved, result>>
    /\ UNCHANGED <<place, proc, held, active, verdict, reporterVars>>

\* where the main thread asks a future for its result it takes the exception of
\* the signal for one of the task, and goes on
SignalSwallowed ==
    /\ MaySignal /\ ~cancelled
    /\ main = "collect"
    /\ \E t \in completed :
          /\ completed' = completed \ {t}
          /\ running' = running \ {t}
          /\ status' = [status EXCEPT ![t] = "failed"]
    /\ cancelled' = TRUE
    /\ UNCHANGED <<usage, main, cursor, queue, changed, exhausted, saved, result>>
    /\ UNCHANGED <<place, proc, held, active, verdict, reporterVars>>

\* past the statement that catches it, it ends the program with the records as they are
SignalLate ==
    /\ MaySignal /\ ~cancelled
    /\ main = "finish"
    /\ main' = "returned" /\ result' = "cut" /\ cancelled' = TRUE
    /\ UNCHANGED <<status, usage, running, cursor, queue, completed, changed, exhausted, saved>>
    /\ UNCHANGED <<place, proc, held, active, verdict, reporterVars>>

TerminateListed ==
    /\ main = "terminate"
    /\ \E t \in completed :
          /\ completed' = completed \ {t}
          /\ IF proc[t] = "alive" THEN Terminate(t) ELSE Alone
    /\ UNCHANGED <<status, usage, running, main, cursor, queue, changed, exhausted, saved, result>>

\* the pool's threads, those included that started a process only now
Submitted == {t \in Tasks : place[t] # "idle"}

\* a mutant, for NothingOutlivesTheBatch: ending the processes has to do
JoinedListed == \A t \in Submitted : proc[t] # "alive"

Joined == \A t \in Submitted : place[t] \in Ended

Join ==
    /\ main = "terminate" /\ completed = {} /\ Joined
    /\ main' = "abandon"
    /\ UNCHANGED <<status, usage, running, cursor, queue, completed, changed, exhausted, saved, result>>
    /\ Alone

Abandon ==
    /\ main = "abandon"
    /\ \E t \in Tasks :
          \/ status[t] = "running" /\ status' = [status EXCEPT ![t] = "interrupted"]
          \/ status[t] = "pending" /\ status' = [status EXCEPT ![t] = "skipped"]
    /\ UNCHANGED <<usage, running, main, cursor, queue, completed, changed, exhausted, saved, result>>
    /\ Alone

Abandoned ==
    /\ main = "abandon"
    /\ Settled
    /\ Save("interrupted") /\ result' = "interrupted"
    /\ main' = "returned"
    /\ UNCHANGED <<status, usage, running, cursor, queue, completed, changed, exhausted>>
    /\ Alone

-----------------------------------------------------------------------------
MainStep ==
    \/ SkipOverBudget \/ Observed \/ SkipBlocked \/ Passed
    \/ Launch \/ LaunchRaises \/ Launched
    \/ Wait \/ Collect \/ Collected \/ Finish
    \/ TerminateListed \/ Join \/ Abandon \/ Abandoned

Others == Run \ Tasks

Next ==
    \/ MainStep
    \/ Signal \/ SignalSwallowed \/ SignalLate
    \/ \E r \in Run :
          (RunStep(r) \/ Heartbeat(r) \/ ProcessEnds(r)) /\ UNCHANGED batchVars
    \/ \E r \in Others : (Submit(r) \/ Interrupt(r)) /\ UNCHANGED batchVars

Spec == Init /\ [][Next]_vars

(* Every thread goes on, a heartbeat's write comes to an end, and so does a  *)
(* model process.  Between two writes a heartbeat waits for its interval, so *)
(* it does not keep the write lock from the run for ever.                    *)
Fairness ==
    /\ WF_vars(MainStep)
    /\ \A r \in Run :
          /\ WF_vars(RunStep(r) /\ UNCHANGED batchVars)
          /\ SF_vars(Persist(r) /\ UNCHANGED batchVars)
          /\ WF_vars(WriteCaught(r) /\ UNCHANGED batchVars)
          /\ WF_vars(ProcessEnds(r) /\ UNCHANGED batchVars)
FairSpec == Spec /\ Fairness

-----------------------------------------------------------------------------
(* command_batch comes back only when its runs are over, however it comes    *)
(* back (BatchExecutor.__exit__): no process, lock or registry entry of its  *)
(* tasks is left, although a thread may start its process after the list of  *)
(* processes to end was taken.                                               *)
NothingOutlivesTheBatch ==
    result # "none" => \A t \in Tasks : proc[t] # "alive" /\ t \notin held \cup active

(* "batch scheduler stalled" has two causes only: a task that could not be   *)
(* prepared (its worktree, its dependencies' results) while nothing else     *)
(* ran, or a manifest that names a task before one it depends on, so that    *)
(* one pass over it does not skip them both.                                 *)
StallIsExplained ==
    result = "stalled" =>
        \/ \E t \in Tasks : status[t] = "failed" /\ place[t] = "idle"
        \/ \E i, j \in DOMAIN Manifest :
              /\ i < j /\ Manifest[j] \in Deps[Manifest[i]]
              /\ status[Manifest[i]] = "pending" /\ status[Manifest[j]] = "skipped"

(* Three records agree: a run that came to an end says so in its            *)
(* status.json, and no heartbeat caught before is left to say otherwise;     *)
(* what batch-status.json calls succeeded has said so itself; and a batch    *)
(* that came to an end left every task with a verdict and its own over them, *)
(* unless it stalled, an error left it or a signal cut off its last write.   *)
RecordsAgree ==
    /\ \A r \in Run : place[r] \in {"returned", "raised"} /\ report[r] # "none" =>
          file[r] = verdict[r] /\ caught[r] \in {"none", verdict[r]}
    /\ \A t \in Tasks : saved.tasks[t] = "succeeded" => file[t] = "succeeded"
    /\ result \notin {"none", "stalled", "raised", "cut"} =>
          /\ saved.overall = result
          /\ \A t \in Tasks : saved.tasks[t] \notin {"pending", "running"}

(* Every batch comes back (with fair threads, and processes that end). *)
BatchReturns == <>(main = "returned")

(* The batch promises what the orchestrator promises: a task is launched     *)
(* once, over dependencies that succeeded, and verdicts are not taken back.  *)
Verdict(s) == CASE s = "succeeded" -> "accepted" [] s \in Failed -> "dropped" [] OTHER -> "open"
A == INSTANCE Acceptance WITH
        Task <- Tasks,
        MaxTries <- [t \in Tasks |-> 1],
        verdict <- [t \in Tasks |-> Verdict(status[t])],
        tries <- [t \in Tasks |-> IF place[t] = "idle" THEN 0 ELSE 1],
        needs <- Deps,
        closed <- result = "succeeded"
ImplementsAcceptance == A!Spec

=============================================================================
