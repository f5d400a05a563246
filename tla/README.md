# delegate-codex-agent in TLA+

The orchestrator of this repository (`orchestrator_agent/`) runs a *workflow*: a
graph of tasks, most of them agents (Codex processes), whose results must be
accepted before the tasks that depend on them may start. It keeps its state in a
journal so that a run can be resumed after a crash, limits tokens, workers and
expensive models, and takes requests from an operator while it runs. Beside it
the script `scripts/delegate.py` runs single tasks and batches of them, without a
journal. The modules here describe both; TLC checks them on small workflows,
batches and histories. For instances of every size TLAPS proves the contract of
the journal, that the main loop with its workers and its recovery keeps it, what
the journal's files keep through crashes, that the main loop starts work
only while it may and gives up no live worker, the scheduling, the mutual
exclusion and the records of batches, and the promises of the cache and the gates.

Paths without a directory are under `src/orchestrator_agent/`; "the plan" is
`src/docs/plans/2026-07-13-budget-aware-orchestrator.md`.

## The system

| part | state it keeps | operations | talks to |
|---|---|---|---|
| task and workflow states (`models.py`) | none; two transition tables | `can_transition_*` | consulted by the store for every event |
| durable state (`store.py`) | workflow state, task records, budget counters, idempotency keys | one per event type: transition, add, update, reserve, release, record usage | called by the scheduler, recovery, the main loop and worker threads, under one thread lock |
| journal files (`store.py`) | `events.jsonl`, `snapshot.json`, the flock | load, acquire, append, release | several processes: one scheduler, any number of readers |
| scheduler (`scheduler.py`) | none of its own | `refresh_ready`, `start`, `complete`, `accept*`, `reject`, `fail`, `budget_exhausted`, `maybe_retry`, `manual_retry`, `block`, `cancel` | each is one or more appends |
| recovery (`recovery.py`) | none | `reconcile` | reads pids, appends |
| main loop (`workflow.py`) | `running`, `_processes`, `_cancelled` | `run`, `_handle_control`, one method per node kind | all of the above, a thread pool |
| worker threads (`workflow._run_one`, `worker.py`) | a process, its usage | spawn, report, finish | append usage and the pid; their future is collected by the main loop |
| control inbox (`store.py`) | `control/inbox`, `control/processed` | submit (any process), consume (main loop) | the main loop's handlers |
| result cache (`cache.py`) | two files per fingerprint, shared by the workflows of a directory | `task_fingerprint`, `get`, `put` | `_try_cache` and the collection of a result |
| gates, retry classes, hooks (`gates.py`, `retry.py`, `hooks.py`) | none | `run_checks`, `classify_failure`, `run_hooks` | the main loop, for a worker's result and for a cached one |
| conditions (`conditions.py`) | none | `resolve_pointer`, `evaluate_condition` | condition, map and repeat nodes |
| writer integration (`integration.py`) | a plan file, the repository | build a plan, approve it, apply it | git; after a workflow |
| task batches (`delegate.command_batch`) | `states`, `running`, `batch-status.json` | the loop of the main thread, a pool of threads, signals | one direct run per task |
| direct runs (`delegate.execute_run`, `command_resume`) | `ACTIVE_PROCESSES`, a lock per worktree, `status.json` | wait for the lock, start, watch, report, end | other delegates in the same repository; a heartbeat thread of its own |
| artifacts, status, budget facade | none | hash, format | - |

What is hard here: an operation of the scheduler is several durable appends, and
the process may die between any two; worker threads append in between; a worker
process outlives the runtime; requests come at any moment and are delivered at
least once; the loop decides on a copy of the state; the journal's files and the
cache's are read without a lock; a signal reaches the main thread of a batch
between any two of its steps while its threads go on; two threads write one
status file; a plan is reviewed while the repository and the plan file change. The list of hazards, each with its line and the properties that
would catch it, is in `PROJECT.json`.

What makes each part correct: the *store* keeps counters and records consistent
and never loses what it acknowledged; the *scheduler* opens a task only over
accepted dependencies and retries boundedly; *recovery* gives up only what is
dead; the *main loop* ends with a verdict that leaves nothing to do, keeps the
limits, honours requests, and leaves no reservation behind; *workers* are at
most one per task; the *cache* serves only what was made of the inputs asked for
and accepted by its own workflow, and the *files of a task* hold what its gates
passed; a *batch* schedules like the orchestrator, comes back, and leaves no
process; a *direct run* that writes is alone in its worktree and its records
agree; *integration* applies what was approved, in an order that the
dependencies and the changed paths allow.

## The modules

    TaskStates <- Store <- Ledger <- LedgerMC          the contract of the journal
                    ^        |  \--- LedgerProofs      ... and its proofs
                    |        +-----> Acceptance        what it amounts to
                    |
                  Runtime <- RuntimeProps <- RuntimeMC the main loop, on the same state
                                 |  \--- RuntimeProofs <- RuntimeLedgerProofs <- RuntimeScriptProofs
                                 |                                             <- RuntimeAppendProofs
                                 +-----> Ledger        (as a refinement)
    EventLog <- (refinement) - Journal <- JournalMC    the files below Store
                                  \--- JournalProofs

    DirectRun <- Batch <- BatchMC                      delegates outside a workflow
                   |  \--- BatchProofs
                   +-----> Acceptance                  (as a refinement)
    Results <- ResultsMC, ResultsProofs                the cache, the gates, one task's result
    Integration <- IntegrationMC                       plans and their application

* **TaskStates** is `models.py`: both tables as relations.
* **Store** is the state a workflow has on disk and one operator per journal
  event. Of a task's record it keeps `state`, `depends_on`, `attempt` and
  `reserved_tokens`. A child a map may add is `"absent"` before. Idempotency keys
  are records with the fields the strings are formatted from.
* **Ledger** puts the callers' conditions in front of the events: one action per
  append of `scheduler.py`, `recovery.py` and `workflow.py`, in any order. It is
  deliberately weaker than the code, which fixes the order; every prefix of the
  code's appends is a behaviour, so a crash needs no action of its own.
* **Acceptance** is the promise without any machinery: verdicts, tries, needs.
* **Runtime** is `WorkflowRuntime.run`. `pc` is the place in the loop. A handler
  reads the state, fixes the appends and side effects it will make and puts them
  in `todo`; they are performed one per step, so that worker threads, requests
  and crashes fall between them. A step whose effect depends on what is there at
  that moment (`block`, `release`, the second look of approve and reject) reads
  the state when it is performed, as the code does. Loops over a dictionary of
  tasks are `Each`, in any order. `procs` are the live operating system
  processes, `pid` is what the journal says of them.
* **RuntimeProps** states the properties of Runtime, and **RuntimeMC** holds the
  small workflows.
* **Journal** is the store's file handling: the two reads of a load, the lock,
  and an append in its steps (write, end of the line, publication in memory,
  snapshot). An event is a number, and the state is the sequence of the events
  applied, which is the most a property could tell apart. A load replays the lines
  after its snapshot: their numbers increase without a gap, so they are the last
  `Later` of the readable ones. **EventLog** is the log it implements.

* **DirectRun** is `execute_run` (and `command_run` and `command_resume`, which
  take the same steps) with the worktree lock, the process, the reporter and its
  heartbeat. `place` is where a run is. A reporter's change of phase is made in
  memory (`report`) and reaches `file` when the write lock is free; until then
  the run's thread waits (`unsaved`).
* **Batch** composes DirectRun's runs with the main thread of `command_batch`:
  `main` is its step, `running` the futures, `saved` the file. The order of the
  manifest matters, and is kept: the pass that skips blocked tasks changes what
  it reads. A signal breaks off the loop at any step, is swallowed where a
  future's result is asked for, or arrives too late to be caught. Runs that are no
  tasks of the batch are other delegates in the same repository.
* **Results** follows one read-only agent task per workflow from the look into the
  cache to its end, over files that all workflows share, with the reads of `get`
  and the writes of `put` as steps of their own. `inputs` is the version of what a
  fingerprint covers, and changes at any time.
* **Integration** is the planner, as operators on the writers' dependencies (the
  search with its set of writers already met, and the layers), and the
  application of a plan as steps between which plans, approvals and commits are
  made.

Mutants (marked `\* a mutant`) are plausible bugs; each stands beside the
definition it changes, is used by no specification, and shows that a property
depends on that definition.

### Abstractions in Runtime

* A failure's class and fingerprint are one value: the code derives the
  fingerprint from a payload that contains the class, so two failures with the
  same fingerprint have the same class. `retry_on` and `escalate_on` are sets of
  them. Which failure a worker has is chosen freely.
* The gates' verdict, a worker's exhaustion of its hard limit and an exception in
  its thread are the members of `Outcomes`, chosen when a future is collected;
  a hook may deny when the node is `hooked`; a cache may hit when it is `cached`;
  a worktree may fail when it is a `writer`; the input of a map or a reducer may be
  unusable, and a check may reject or raise, when it is `faulty`.
* A condition always evaluates the same way (its input is an accepted result),
  and which way is unknown: `branch`.
* A repeat node runs its workers with the worker actions, while the main thread
  waits at the step `drive`. Whether the condition on a child's result matches,
  asks for another iteration, or ends the node (no progress, or an error) is free.
* A crash kills the main thread and the worker threads between two steps and
  leaves the worker processes alive. Afterwards they may end at any time.
* The limit on sol tasks is the one on terra tasks again, and is left out.

### Abstractions in the other modules

* Batch and DirectRun: a run's usage is one number, read or not when the run comes
  back; a task may not be prepared (its worktree, or the reading of its dependencies'
  results), or its worktree not be finalised; a `result.json` that is no JSON any more
  is not looked at, since a run writes it whole; a process ends well or
  badly, and its result may be unusable. Terminating a process ends it, within
  its grace period or by force. A batch sees one signal (`MaySignal`); a second
  one during the termination is not modelled. Failing writes of the status files
  are left out. `Beating` are the runs whose heartbeat is looked at.
* Results: a fingerprint is the version of the inputs it was taken of, and a digest
  is the bytes it was taken of, so neither collides. A result is known by the
  inputs and the workflow it was made by. All of a command check and a diff is
  whether it passes; an approval never does, since the runtime grants none.
  The exception of a worker thread is left to Runtime, and so is a cancel.
* Integration: a path is looked at independently of the others, so one stands for
  all. A patch holds what its worktree had changed when the plan was built. Scopes
  and bases are one bit. Git may refuse any patch, and any check may fail.

## The runs

`MaxCrashes`, `MaxSubmits`, `UsageBound`, `MaxEvents`, `MaxTorn`, `MaySignal`,
`Beating`, `MaxHead` and `MaxPlans` bound the model only; `MaxAttempts`, `Limit`,
`MaxWorkers`, `MaxTerra` and `StopAfter` are parameters of the program. Every
specification may stop for good (a run has ended and nobody starts another one),
so deadlock is not checked; that a run goes on is what the liveness properties say.

| run | what it asks | workflow and bounds |
|---|---|---|
| LedgerMC | the contract: gating, finality, counters, Acceptance | a static task and one a map may add, reservations of 2 against 5, two attempts of one; a leaked and a live reservation fit together and a third does not |
| JournalOneScheduler | what a line cut by a crash or a failed write does; as long as the files can be opened they are a log that only grows and the lock's holder is current | 1 scheduler, 2 readers, 4 events, 2 crashes, one line cut for good: it can be the last when the files are loaded, and the next append is glued to it |
| JournalDamaged | a load is exact or refused | 2 schedulers, crashes and torn lines |
| RuntimeRestart | the loop's appends are within the contract and none is refused; a live worker on record keeps its task | two agents, one with two attempts and two fingerprints, a retry request, two crashes: a recovery that is itself cut short, and the run after it |
| RuntimeFanOut | a reducer sees every child; what runs is watched | a, map b adding c, reducer d, one crash; at most one task runs at a time |
| RuntimeKinds | the terra limit, retries that make no progress, one branch of a condition, what a repeat node is accepted on, that a run ends, and the contract of the journal | an agent that may escalate, a condition on it, on its branches a second such agent and a check, and beside them a terra agent and a repeat node of two iterations after it, for one terra slot and three tokens: two agents never fit together, and a child that asks for all three is refused once any were used; fair, no crash |
| BatchAlone | a batch leaves no process, lock or registry entry however it comes back; it stalls for two known causes only; Acceptance | two readers, a writer with a worktree of its own and a shared writer behind it that the manifest lists first; two threads, a limit of two tokens, a signal at any moment |
| BatchAmongOthers | a writer is alone in its worktree; status files agree and never go back; the batch returns | a reader and after it a shared writer with a heartbeat, beside another delegate that writes in the repository and may be interrupted; fair |
| Results | what a hit is; that the accepted result is the one served; what a failure is called | two workflows with two attempts each over two versions of the inputs, a command check and a diff check; the cache starts empty or with the result of an earlier workflow; crashes, damage, edits and failing writes without a bound |
| Integration | what is planned, in which order it is applied, that nothing else is | three writers with every dependency relation, cycles and an unknown writer included, and every set of owners of a path; two plans, one commit |
| RuntimeControls | requests at any moment: one worker per task, nothing left behind, verdicts are final, starts only while running, a cancel is honoured | an approval before an agent, six kinds of request, fair, no crash |

`GatedByAcceptance`, `AttemptsBounded` and the other invariants of Ledger hold
of Runtime because of `ImplementsLedger`: every
step of the loop, its workers and its recovery is a step of Ledger or changes
nothing it knows of. RuntimeRestart, RuntimeFanOut and RuntimeKinds check that, and
RuntimeLedgerProofs proves it. `AttemptsBounded`, `ReservationsWithinLimit` and
Ledger's `TypeOK` are proved for every instance and have no run.

Why the bounds are enough. Two crashes let a recovery be cut short and the run
after it be looked at. Three tasks in a line are the shortest chain in which a
dependency is neither a task's own nor the last. In BatchAlone four tasks fill two
threads, leave some waiting, and have both kinds of writer; one that is listed
before its dependency is the one order the pass gets wrong. Two workflows are all
that a reader of the cache can be between, since a writer replaces one file at a
time and a third would replace it by something of the same kind; two versions
of the inputs are a right one and a wrong one. Three writers are the fewest of
which one depends on another through a third.

### Where the code does not keep what is written

| run | counterexample |
|---|---|
| StalledChain | in a chain of four whose head is rejected the run stalls before the last task is blocked, although the plan (:344) has dependents marked blocked |

The models show further gaps between the code and its documents or a reader's
expectation. They limit where a property is checked, and how each shows is said
with it.

The journal and the runtime:

* a torn last line is ignored on load, as the plan says (:238), but not cut off, so
  the next append is glued to it and every later load is refused (`store.py:240`).
  `CutLineIsSurvived` is what remains: no load is refused before that append. An
  acknowledged event in the glued line cannot be read again, so
  `HolderIsCurrent` and `JournalIsALog` speak of files that can be opened;
* a scheduler that loaded while another one ran, and acquires the lock after it
  left, overwrites the snapshot with old state (`store.py:191`); so
  `HolderIsCurrent` and `JournalIsALog` are checked with one scheduler;
* a cancel between the submission of a worker thread and the registration of its
  process finds nothing to terminate, and the process starts in a cancelled
  workflow (`workflow.py:598`, plan :460); RuntimeControls reaches such states;
* a request is carried out before it is recorded as processed, and the handler
  does not look at its id: a retry that is submitted twice, or found again after
  a crash, starts two attempts (`store.py:587`, plan :463);
* recovery runs only while the workflow is recorded as running: after a crash that
  leaves one live and one dead worker, the first restart interrupts the dead one's
  task and gives up, and the second skips recovery and leaves the other task
  running with no worker (`workflow.py:689`, plan :440); RuntimeRestart with
  `RunningIsWatched` shows it, so that is a property of RuntimeFanOut, where at
  most one task runs at a time;
* a crash between a verdict and its release leaves the reservation for ever
  (`scheduler.py:133`); so `NothingLeftBehind` speaks of runs without a crash;
* a crash between a condition's acceptance and the block of the branch not taken
  lets both branches through (`workflow.py:222`); so `OneBranch` is checked
  without a crash;
* a crash between the start of a process and the record of its pid makes recovery
  take the live worker for missing (`workflow.py:458`); so `LiveWorkerKeepsItsTask`
  speaks of workers on record and `OneWorkerPerTask` is checked without a crash;
* a worker of a repeat node that raises leaves its child running with a
  reservation (`workflow.py:391`); so `NothingLeftBehind`, `RunningIsWatched` and
  `VerdictIsFinal` are checked without a repeat node;
* a reservation that the budget refuses ends the run with an exception
  (`workflow.py:774`): the workers still out finish, and nobody collects their results,
  so that their tasks stay running with their reservations; NothingStaysBehind excepts
  such a run, and in RuntimeControls the reservations fit;
* a reducer with `allow_partial` and a rejected child never becomes ready
  (`scheduler.py:33-42`); so RuntimeFanOut has a whole reducer;
* the iterations of a repeat node ask for no model slot (`workflow.py:376-389`), so
  a template on terra may exceed `max_terra_tasks`; `TerraBounded` is checked where
  iterations are not on terra;
* a reducer waits for the children of its `source` only if that map names it in
  `reduce` (`schema.py:235-239` asks for the dependency alone, `workflow.py:312`
  extends the dependencies of the named one); the reducer of RuntimeFanOut is named.

Batches and direct runs:

* the batch stalls, and leaves `batch-status.json` at "running", when a task
  cannot be prepared (its worktree is not made, or the result of a dependency cannot be
  read) in a pass that launches nothing else (`delegate.py:1127`), or when
  the manifest lists a task before one that is skipped in the same pass
  (`delegate.py:1101`); `StallIsExplained` allows these two causes and no other;
* the exception of a shared writer that cannot be prepared is caught by nobody and leaves
  `command_batch` with the status "running" (`delegate.py:1137`): `LaunchRaises`,
  which `RecordsAgree` excepts like the stall;
* a signal that arrives while the main thread asks a future for its result is
  taken for the failure of that task (`delegate.py:1160`): the batch goes on with
  its cancel event set and ends as failed, or as budget_exhausted, and not as interrupted;
* a signal after the loop leaves the batch's status as it was (`delegate.py:1182`);
  `RecordsAgree` excepts it as well. A second signal while the first is
  handled does the same, and is not modelled.

The cache and the gates:

* a worker that exits with 0 and leaves its result file unwritten, in the directory
  of an attempt that a refused cached result was copied to, has that result taken for
  its own and cached under the key of the inputs now (`workflow.py:176`, `:481`);
  with `Silent = TRUE` `HitIsGenuine` is violated, so the property is checked,
  and proved, for workers that write their result;
* when the fingerprint cannot be taken at the launch, the one of an earlier look stays
  (`workflow.py:772`), and the result enters the cache under it; such runs are
  `blind` and excepted in `Genuine`;
* the key is of the inputs at the launch, and an agent that reads the repository
  later may have seen others;
* of two interleaved puts the files of the later may be mixed with those of the
  earlier: a miss until the next put;
* an `approval` check on an agent always rejects, since `run_checks` is never told
  of an approval; and a hook's denial leaves the failure class of an earlier
  attempt in the record, so `FailureNamesItsGate` speaks of what the gates refused.

Integration:

* a failure keeps the patches applied before it, and nothing rolls them back;
* the commit is compared once, and an earlier integration that was not committed
  is not seen (`integration.py:289`); two plans made from one commit may so both be
  applied, with writers of one path that do not depend on each other;
* the approved digest covers the paths of the patches and not their contents
  (`integration.py:262`), and the plan does not say when a patch was made.

### Fairness

`FairSpec` has weak fairness of the main thread and of every worker thread. The
main thread is a Python thread that never waits without a timeout except for the
end of the pool, and a worker's process is assumed to end: the code has no
timeout for it except the token limit, so this is an assumption about agents,
and without it no run ends. Nothing is assumed of requests, of crashes, of a new
run being started, or of usage reports. `RunReturns` is checked where nobody
pauses and nothing waits for an approval, because there the loop polls for ever.

`Batch.FairSpec` has weak fairness of the main thread and of every run's thread,
of a heartbeat's write, and of the end of a model process: `execute_run` has no
timeout for it, so this again is an assumption about agents. Only the write of a
run's own status is strongly fair: it waits for a lock that the heartbeat takes
again and again, but with its interval, of seconds, in between, while the lock is
held for one write. Nothing is assumed of a heartbeat's awakening, of a signal, or
of other delegates being started. `BatchReturns` needs no more: the lock of the
worktree is polled, and whoever holds it is fair too.

## The proofs

`LedgerProofs` proves, for every set of tasks, every dependency relation, every
limit and every number of attempts, what is listed first; `JournalProofs`, for any
number of processes, events, crashes and torn writes; `RuntimeProofs`,
`RuntimeLedgerProofs`, `RuntimeScriptProofs` and `RuntimeAppendProofs`, for every workflow of nodes of every
kind, and any number of requests, crashes and usage reports; `BatchProofs`, for every
set of runs, every manifest and any number of other delegates; and `ResultsProofs`, for every set of workflows,
versions of inputs and lists of checks:

| module | theorem | property |
|---|---|---|
| LedgerProofs | TypeCorrect | `TypeOK` |
| | AttemptsAreBounded | `AttemptsBounded` |
| | AcceptanceGates | `GatedByAcceptance` |
| | SuccessIsSettled | `SucceededIsSettled` |
| | SettledTasksRest | `SettledForGood` |
| | ReservationsFit | `ReservationsWithinLimit` |
| | BudgetCovers | `BudgetCoversTasks` |
| | JournalImplementsAcceptance | `ImplementsAcceptance` |
| JournalProofs | LoadIsExactAlways | `LoadIsExact` |
| | CutLineSurvived | `CutLineIsSurvived` |
| | HolderUpToDate | `HolderIsCurrent` |
| | FilesAreALog | `JournalIsALog` |
| RuntimeProofs | RuntimeTypeCorrect | `TypeOK` of RuntimeProps |
| | LiveWorkerKeepsIt | `LiveWorkerKeepsItsTask` |
| | OneWorkerAtATime | `OneWorkerPerTask` |
| | StartsInRunOnly | `StartsOnlyWhileRunning` |
| RuntimeLedgerProofs | RuntimeImplementsLedger | `ImplementsLedger` |
| | RuntimeKeepsTheContract | Ledger's invariants and action properties, of Runtime |
| | RuntimeImplementsAcceptance | Ledger's `ImplementsAcceptance`, of Runtime |
| RuntimeScriptProofs | TerraIsBounded | `TerraBounded` |
| | NoRetryWithoutProgress | `SameFailureStopsRetrying` |
| | OnlyOneBranch | `OneBranch` |
| | ReducersSeeEveryChild | `ReduceSeesEveryChild` |
| | RepeatsEndOnTheirResult | `RepeatEndsOnItsResult` |
| RuntimeAppendProofs | AppendsAreAccepted | `AppendsAccepted` |
| | RunningHasAWorker | `RunningIsWatched` |
| | VerdictsAreFinal | `VerdictIsFinal` |
| | NothingStaysBehind | `NothingLeftBehind` |
| BatchProofs | WritersWorkAlone | `WriterWorksAlone` |
| | StatusGoesForward | `StatusNeverGoesBack` |
| | RecordsAgreeAlways | `RecordsAgree` |
| | NothingIsLeft | `NothingOutlivesTheBatch` |
| | StallExplained | `StallIsExplained` |
| | BatchImplementsAcceptance | `ImplementsAcceptance` of Batch |
| ResultsProofs | HitsAreGenuine | `HitIsGenuine` |
| | DependentsReadTheResult | `AcceptedIsServed` |
| | ClassIsOfFirstFailure | `FailureNamesItsGate` |

The assumptions are those the modules declare: `StoreAssumption` and
`LedgerAssumption` (the workflow's nodes depend on nodes, and reservations and
attempt limits are positive, which `schema.py` validates), `TaskAssumption` (a
workflow has finitely many task ids: those of a file, of the items of its maps, and of
at most `max_iterations` iterations; the sum over them needs it), `JournalAssumption`,
`RunAssumption` and `BatchAssumption` (a manifest that names each task once, is not
empty and has no cycle, and options in their ranges, which `load_manifest` and the
option parser establish), `ResultsAssumption`, `RuntimeAssumption` (the types
of a node's fields) and `GraphAssumption`, which RuntimeLedgerProofs and the modules
after it use. The
last says that a reducer depends on its source (`schema.py:235-239`), and a map's
reducer and a condition's branches on the map and the condition
(`schema.py:311-330`), that only agents have a model (`schema.py:118-121`), so that a
task on terra is one, and that what a repeat node iterates is an agent
(`schema.py:254-255`), which validation establishes; and that a task made while the
workflow runs is no other task's. The code makes its id of the node's id and a key or
a number (`workflow.py:305`, `:379`), and what is generated twice is added once; but
nothing keeps a manifest from using such an id for a task of its own, so this is a
premise about workflows. Twelve theorems have a hypothesis
of their own, each the condition under which the code keeps the property at all:
HitsAreGenuine, that no worker is silent; OneWorkerAtATime, that nothing crashes;
and CutLineSurvived, HolderUpToDate and FilesAreALog `OneWriter`: one scheduler at
most, since a second one that loaded too early (`store.py:191`) writes what it remembers;
TerraIsBounded, that no iteration is on terra,
since `_run_repeat` asks for no slot; and NoRetryWithoutProgress, that nobody asks
for a retry, which `manual_retry` grants whatever the fingerprint is (and that there
are finitely many fingerprints, so that a number of them is defined);
OnlyOneBranch, that nothing crashes; and ReducersSeeEveryChild, that a reducer over
generated tasks is named in `reduce` of the map that makes them, since only those
are made to wait for the children (`workflow.py:297-316`); RunningHasAWorker and
VerdictsAreFinal, that nothing crashes and that the workers of repeat nodes do not
raise (`ChildrenReport`, for `workflow.py:391`); and NothingStaysBehind, these two, that
no exception comes after `complete` (the outcome "unfinished", for
`workflow.py:899`), and that the run was not ended by the exception of a refused
reservation, after which the results of the other workers are collected by nobody.
The section above says what happens otherwise.

The argument for the contract. Ledger has some twenty actions, but they change the state in five
ways only: a task is added (`Adds`), takes further dependencies (`Awaits`), moves
along the table (`Moves`), starts an attempt (`Starts`), or the budget changes.
`EventShape` says that once, with what each caller established; each
invariant is then proved change by change.

* `AttemptsBounded` is not inductive: nothing in it stops a ready task from
  starting once more. `AttemptLeft` adds that whatever can become ready has an
  attempt left, which `maybe_retry` and `manual_retry` establish.
* `GatedByAcceptance` needs that acceptance is final (`AcceptedStays`, from the
  table) and that dependencies grow only while a task was never attempted; hence
  `Gated`, which adds that an absent task has no attempts.
* `BudgetCoversTasks` breaks between a reservation whose key is known already, which
  adds nothing, and the start that takes the task's tokens for granted. `Covered` adds
  to the sum that a task holds what the key of its next attempt reserved until that
  attempt starts. About the sum itself, a fold, LedgerProofs first says that it follows one
  changed summand (`SumFollows`) and is zero over zeros. Without an induction
  theorem for the prover these rest on a least counterexample among the subsets of the
  tasks, `LeastSubset`, and on there being a function that sums over every subset
  (`SumExists`), which the definition of the fold only chooses.
* The refinement needs all of these and `Tried`: what awaits a verdict was
  attempted, so that no task is accepted without a try.

The argument for the journal's files. `ShapeInv` says what a line may be and
`LockInv` that who holds the lock is writing. As long as the journal parses and its
numbers increase, `ExactInv` says, its lines are numbered from 1 without a gap, and
the snapshot and the memory of every process are states after some of its first
lines. A load takes the lines after its snapshot, which are therefore the rest
(`ReplayIsAll`). Once a line is garbled, or written by a stale scheduler, every
later load is refused, and `LoadIsExact` is about those that are not.
With `OneWriter`, `UpInv` adds that, unless a line is glued to a cut one, the journal
parses, and that what the scheduler has in memory is all of the readable lines, except
for the append in progress. A cut last line changes nothing in this, since it is
readable for nobody; the append after it glues it (`Glues`), which is never undone
(`GluedStays`), and then nothing is claimed but that loads are refused. So replaying
files that can be opened gives every event there is.

The argument for the main loop. An action of a handler is not only its next step:
what it will do is in `todo`, after steps of worker threads, requests and crashes.
So the invariant is about scripts. `Quiet(C, F)` are the steps that record
something of tasks in C; `TodoInv` says that `todo` is

* a script of such steps, for tasks that no worker runs and no live process is
  recorded for (`Calm`), and that are not in the list of ready tasks; or
* while the workflow is running, a script that ends in the start of an attempt: the
  launch and the hand-over to a worker thread, or an iteration of a repeat node; or
* such a hand-over alone, of a task that is already running.

That a submission follows its launch directly is what makes it inductive: with
the launch and the submission as independent steps of a script, a script could
submit a task that was never started. `WorkerInv` says of each task what its
thread, its recorded process and its record have to do with each other, and
`Watched` that before the first crash every live process is that of a thread that
watches it, for the attempt under way. A step of the main loop then either pops
one step, or writes a script in the one state in which it is allowed; and a step
of a worker, of the user or of a crash makes no task less calm unless it has a
worker already. `LiveWorkerKeepsItsTask` is in `WorkerInv`, `OneWorkerPerTask`
follows from `Watched`, and `StartsOnlyWhileRunning` from the last two kinds of
scripts, since no step of theirs changes the state of the workflow.

The argument for the refinement. That every step the main loop takes is one that
Ledger allows needs more of a script than which tasks it is about: between its being
written and being performed others append. Two observations make this tractable.

* Where a step needs the effect of another (a release its verdict, an escalation or
  a retry the release, a reservation the ready task, a launch its reservation), it
  comes right after it. `Scripts` are the sequences in which this is so (`Link`), and
  `FreeScripts` those that begin with a step that needs nothing; a loop's passes are
  free scripts, so any order of them is a script. `HeadNeeds` says that what the next
  step needs holds now: performing a step makes it true for the one behind it, and
  nobody else can take it away meanwhile, since workers and users only append usage
  and requests.
* What a step needs for as long as it waits is in the two sets of steps. A script
  that may retry (`RetrySteps`) starts no attempt, so an attempt left when it was
  written is left when the retry comes; one that starts attempts (`LaunchSteps`)
  retries nothing. Both only touch tasks outside the list of ready ones, and may open
  a task only if what it depends on is accepted (`Opens`), which is final.

Two scripts are of a kind of their own. The end of a run is one step, written when all
is accepted or blocked (`MayConclude`). The expansion of a map changes what other
tasks wait for while the map runs, so `Expanding` says how far it is: which children
are still to be added, and which reducers do not wait for them yet. For repeat nodes
`Iterates` says that an iteration comes after the acceptance of the one before, which
is final or ahead of it in the same script, and `TaskFacts` that tasks of the manifest
are there with their dependencies, and an iteration has no other than its predecessor.
`LedgerInv` is the four together. It uses what Ledger's own theorems say (its
`Gated`), since a step that refines Ledger so far keeps Ledger's invariant. Then
each operation of the store that `todo` may hold is the Ledger action of its
name, and all invariants and action properties of the contract, and its
refinement of Acceptance, are those of every run (`RuntimeKeepsTheContract`,
`RuntimeImplementsAcceptance`).

The argument for what a handler decided on. A handler reads the state once and its
script acts on that when other scripts, workers and crashes have been at it. A script
is therefore typed by the one choice it rests on, and every step shown to leave those
types what they are (`StepDone` for a step that is popped, `WrittenIn` for a script
that is written, `Beside` for the others' steps).

* `TerraBounded`: `TerraInv` says that of the tasks on terra, or escalated to it,
  `todo` starts at most one that was not attempted yet, and that one still has a slot (`Slots`, `SlotSteps`).
  The call of `_model_slot_available` that allowed it was made for this script, and
  nothing but this script takes a slot until it is over.
* `SameFailureStopsRetrying`: `FailInv` says that a task has a fingerprint on record
  when it waits for its second attempt, and from then on. `OfFailure` are the stages of
  the script that gets it there: clear the pid, move to the verdict, record the failure
  and its fingerprint, and only then, perhaps, retry. A retry is in a script only if
  the fingerprint on record was another when it was written; where there is one
  fingerprint this means none, so that the task had a single attempt. A crash between
  two of these steps leaves a task that is failed and not retried.
* `OneBranch`: `BranchInv` says that the script of a condition that decides owes a
  block to every task of the branch not taken (`Owed`), until that task is blocked
  or cancelled without an attempt (`Shut`), which is final. No other script can open
  it meanwhile, and until the condition is accepted nothing of either branch was
  attempted, since both wait for it (`Gated`). The step that takes one pass out of
  a loop (`each`) must not lose what is owed, which is what `OwedEach` is about.
* `ReduceSeesEveryChild`: `MapInv` says that a map is accepted only when all its
  reducers wait for all its children (`Linked`). Its script, however far it is, owes
  each reducer that does not wait for them yet the step that makes it (`Mapped`); after
  a crash the script is gone and the map is not accepted. Dependencies are never
  taken back, and what is attempted has its dependencies accepted (`Gated`).
* `RepeatEndsOnItsResult`: `RepInv` says that the iterations are there in order, each
  over the acceptance of all before it (`Row`), and which of the scripts of a repeat
  node `todo` may be: one that starts the iteration n and waits for it, written when
  no later one was ever added (`Driven`); one that records its acceptance and then
  that of the repeat node (`Concluded`); or, with the acceptance of the iteration on
  record, the rest of the latter. No other script adds an iteration or accepts a
  repeat node (`Alone`), and `_run_repeat` goes on to an iteration that is new or
  pending only, so that it can have no successor yet.

The argument for the store's answers. The scripts of the handlers, and what each
does to the states it meets, are at the end of RuntimeLedgerProofs; the loop that
performs them is the matter of RuntimeAppendProofs. That no append is refused
(`AppendsAccepted`) is more than the refinement says, since a refused append is no step
of Ledger.
It depends on all earlier appends of the script: the second verdict of
`_complete` is legal because the first was made. So `RunInv` says that `todo` *runs*
from the present states: `Lasting(P)` says of a set of scripts, each with the states it
meets, that no step leaves it - a step is one the tables allow there, and what
remains of the script, with the states after it, is in the set again -, and a script
runs if it is in some such set. This takes the place of an induction over the script.
For a script that is written, the set is built from its end, a step at a time
(`RunsNothing`, `RunsFront`), and for a loop any order of its passes will do, because
each leaves the states the others need as they are (`RunsLoop`). A script that runs goes
on running when its first step is made (`RunsOn`, `RunsPass`). Nobody else
moves a task or the workflow, so that what runs goes on running; and that no release
is larger than the counter is `BudgetCoversTasks`.

* `RunningIsWatched`: `WatchInv` says that until the first crash a running task has a
  worker or the script on its way takes care of it (`Cares`): it moves it on, submits
  it, or is the iteration of a repeat node that waits for it. A collected outcome
  always does, as does an iteration whose worker does not raise, and a recovery has
  nothing to do before the first crash. When the loop has ended either no
  task is running, or the workflow is, and the next run recovers it.
* `VerdictIsFinal`: `JudgeInv` follows one iteration of the loop from the pass that
  readies tasks. After it a pending task is over one that is not accepted
  (`Stuck`), or the pass is about to ready it; when tasks are launched each ready task
  is still on the list, being launched, waiting for an approval, or left alone because
  a worker is out; and if there was no progress, no worker is out and the workflow is
  running, nothing is left (`Judged`). This lasts until the run is off, since the
  verdict is the only thing appended.

* `NothingLeftBehind`: `LeftInv` is about what a script owes. A reservation is followed
  by the launch of its task, a state between two verdicts by the next move, and the
  verdict on an agent by the release (`Ordered`, of every script and of the passes of
  its loops: `Neat`). In `todo` this holds of every agent but one whose result is just
  taken from the cache, which starts without a reservation (`Tidy`). So a task
  that holds a reservation runs, is between two verdicts, or is over or ready with its
  release or its launch at the head of `todo` (`Owing`); no key of a reservation is
  ahead of the attempts but that of the task being launched, and a task whose release
  has been recorded for its attempt holds nothing (`Keyed`), so that the store takes
  no release for a repetition of another; and the workflow's counter is the sum of what
  the tasks hold (`Balanced`). Between handlers no script owes anything, and what runs
  has a worker by `WatchInv`, or nothing runs since the run has ended (`RestInv`).

`WatchInv`, `JudgeInv`, `LeftInv` and `RestInv` were also checked by TLC on the
instances of RuntimeControls, RuntimeFanOut, RuntimeRestart and RuntimeKinds (the last
without its failing workers); `RunInv` quantifies over sets of scripts and was not.

The argument for batches. A step changes no run, sets the cancel event, or is a
step of one run (`StepShape`), whatever the main thread does.

* `LockInv`: a process lives only while its run holds the lock and is at a place
  from which it cannot leave without ending the process, and those who hold
  locks on one worktree are compatible. `WriterWorksAlone` follows.
* `ReportInv`: what a place says about the status in memory; that the file is
  behind it by no more than the write the thread is waiting for; and that a
  snapshot a heartbeat is writing lies between the two. The last is what the
  write lock gives, and without it neither the file's order nor its last value is
  inductive.
* `BatchInv` adds the batch's records: a success it holds, in memory or on disk, is
  that of a run that returned, and such a run does not change any more.
* `FreeInv` and `JoinInv`: a run that has not started, waits, or has let go of its
  lock is in neither `held` nor `active`; each run of the batch that is neither
  unstarted nor over is among the futures; and the main thread gets past the point
  after which it may return only when none of those is left. With `LockInv`, which
  ties the process to the lock, `NothingOutlivesTheBatch` follows.
* `LoopInv` says what a task's status has to do with the futures and the tries, and
  that what is launched has its dependencies succeeded. With it a step of a batch
  is one of Acceptance or changes nothing that counts there.
* `StallInv`: the pass over the manifest leaves a pending task over a failed one
  only if it skipped the latter further on in the same pass. When the loop gives up,
  nothing runs and nothing was ready, or a task could not be prepared. Since there
  is no cycle, some pending task depends on no pending one (and `LeastIndex` says
  that what can be launched has a first place); such a task is over a failed one.

The argument for the cache. The digest on disk is at all times that of a genuine
result whose workflow is done with it (`MetaInv`), although the result beside it
may be newer, older or damaged. `get` hashes the file last. What it read before is
what it hashes, or the file has changed in between, and then it does not come
back to the digest that was read: who writes a result is not done with it yet
(`Runs`), and damage is no result. So what is served is what the digest vouches
for (`Reads`), and no later step takes that back, since acceptance is final.

The argument for the gates. The checks stop at the first that rejects; it exists,
since the indices of those that do have a least one (`LeastIndex`, from the
well-foundedness of the subsets of a finite set, which unlike induction takes no
operator). So no outcome but the last rejects (`Judged`), the class is that of the
last (`ClassNamesGate`), and acceptance means that every check was run. `EndInv`
carries this, and that a draft being collected is the result its gates judged, to
the end of the task.

Model-checked only:

* Integration, whose search and layers are recursive operators;
* the liveness properties, since fairness and ENABLED are beyond the prover.

## Not modelled

* Prompt assembly, status formatting, manifests of artifacts, argument parsing and
  the validation of specs, manifests of batches and workflows: functions of their
  input without state.
* `conditions.py` and the cycle check of `schema.py`, which are pure: their results
  are inputs of Runtime.
* The budget facade, which the runtime does not use.
* The hooks `before_integration` and `after_integration`: `hooks.py` names them, and
  no code runs them.
* A signal in a workflow run: the handler of `delegate.main` (SIGINT, SIGTERM, SIGHUP;
  `delegate.py:1275-1282`) raises KeyboardInterrupt in the main thread between any two
  steps of `run()`; the exit of the executor (`workflow.py:703`) then waits for the
  workers, whose results nobody collects. In the model only the exception of a refused
  reservation and a crash break `run()` off.
* Writes that fail for lack of space or rights, except those of the cache and the line
  of an append.
