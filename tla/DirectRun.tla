------------------------------ MODULE DirectRun ------------------------------
(***************************************************************************)
(* Delegate runs outside a workflow (scripts/delegate.py): execute_run,    *)
(* command_run and command_resume, the worktree lock they take, the model  *)
(* process each of them starts, and the reporter whose heartbeat thread    *)
(* writes the same status.json as the run itself.                          *)
(*                                                                         *)
(* A run is a thread of a batch (Threaded), which sees the batch's cancel  *)
(* event and registry of processes, or a process of its own, which takes   *)
(* signals itself.                                                         *)
(***************************************************************************)
EXTENDS Naturals, FiniteSets

CONSTANTS
    Run,
    Threaded,   \* the runs that are threads of a batch
    Sandbox,    \* [Run -> {"read-only", "workspace-write"}]
    Root,       \* the worktree each run works in
    Beating     \* the runs whose heartbeat is looked at

ASSUME RunAssumption ==
    /\ Threaded \subseteq Run /\ Beating \subseteq Run
    /\ Sandbox \in [Run -> {"read-only", "workspace-write"}]

VARIABLES
    place,      \* where each run is in execute_run
    proc,       \* its model process: none, alive, or how it ended
    held,       \* the runs that hold a lock on their worktree
    active,     \* ACTIVE_PROCESSES
    verdict,    \* the status a run ends with
    report,     \* the reporter's state in memory
    file,       \* status.json
    unsaved,    \* runs whose thread waits for the write lock to persist
    beat,       \* the heartbeat thread of each run
    caught,     \* the snapshot a heartbeat is writing
    cancelled   \* the batch's cancel event

runVars == <<place, proc, held, active, verdict, report, file, unsaved, beat, caught, cancelled>>
reporterVars == <<report, file, unsaved, beat, caught>>

Phase == {"none", "waiting_for_lock", "model_running", "finalizing"}
Status == {"succeeded", "failed", "interrupted"}
Place == {"idle", "queued", "waiting", "locked", "spawned", "watching", "finalizing",
          "leaving", "settling", "returned", "failing", "unlocking", "raised", "cut"}
Ended == {"returned", "raised", "cut"}

RunInit ==
    /\ place = [r \in Run |-> "idle"]
    /\ proc = [r \in Run |-> "none"]
    /\ held = {} /\ active = {} /\ unsaved = {}
    /\ verdict = [r \in Run |-> "none"]
    /\ report = [r \in Run |-> "none"]
    /\ file = [r \in Run |-> "none"]
    /\ beat = [r \in Run |-> "asleep"]
    /\ caught = [r \in Run |-> "none"]
    /\ cancelled = FALSE

-----------------------------------------------------------------------------
(* The reporter. *)

\* set_phase and finish change the state in memory first and then wait for
\* the write lock
Announce(r, phase) ==
    /\ report' = [report EXCEPT ![r] = phase]
    /\ unsaved' = unsaved \cup {r}
    /\ UNCHANGED <<file, beat, caught>>

\* a mutant, for RecordsAgree and StatusNeverGoesBack: a heartbeat does not keep the phases' writes out
WriteLockShared(r) == TRUE

WriteLockFree(r) == beat[r] # "writing"

Persist(r) ==
    /\ r \in unsaved
    /\ WriteLockFree(r)
    /\ file' = [file EXCEPT ![r] = report[r]]
    /\ unsaved' = unsaved \ {r}
    /\ UNCHANGED <<report, beat, caught, place, proc, held, active, verdict, cancelled>>

\* the wait of the heartbeat's loop ends and the reporter was not stopped
Wake(r) ==
    /\ r \in Beating /\ beat[r] = "asleep"
    /\ place[r] \notin {"idle", "queued", "unlocking"} \cup Ended
    /\ place[r] = "settling" => report[r] \notin Status
    /\ beat' = [beat EXCEPT ![r] = "awake"]
    /\ UNCHANGED <<report, file, unsaved, caught, place, proc, held, active, verdict, cancelled>>

\* the snapshot is taken with the write lock
Catch(r) ==
    /\ beat[r] = "awake"
    /\ beat' = [beat EXCEPT ![r] = "writing"]
    /\ caught' = [caught EXCEPT ![r] = report[r]]
    /\ UNCHANGED <<report, file, unsaved, place, proc, held, active, verdict, cancelled>>

WriteCaught(r) ==
    /\ beat[r] = "writing"
    /\ file' = [file EXCEPT ![r] = caught[r]]
    /\ beat' = [beat EXCEPT ![r] = "asleep"]
    /\ caught' = [caught EXCEPT ![r] = "none"]
    /\ UNCHANGED <<report, unsaved, place, proc, held, active, verdict, cancelled>>

Heartbeat(r) == Wake(r) \/ Catch(r) \/ WriteCaught(r)

-----------------------------------------------------------------------------
(* The run. *)

At(r, p) == place[r] = p /\ r \notin unsaved
Go(r, p) == place' = [place EXCEPT ![r] = p]
\* an exception goes to the handler that reports it
Throw(r, status) ==
    /\ Go(r, "failing")
    /\ verdict' = [verdict EXCEPT ![r] = status]

\* the packet is built and the run directory made, or an exception leaves
\* before there is a status to write
Begin(r) ==
    /\ At(r, "queued")
    /\ \/ /\ Go(r, "waiting")
          /\ report' = [report EXCEPT ![r] = "waiting_for_lock"]
          /\ file' = [file EXCEPT ![r] = "waiting_for_lock"]
       \/ /\ Go(r, "raised")
          /\ UNCHANGED <<report, file>>
    /\ UNCHANGED <<proc, held, active, verdict, unsaved, beat, caught, cancelled>>

Compatible(r, s) == Root[r] = Root[s] => Sandbox[r] = "read-only" /\ Sandbox[s] = "read-only"

SeesCancel(r) == r \in Threaded /\ cancelled

\* a mutant, for WriterWorksAlone: readers do not look at each other, nor at writers
TakeLockReading(r) ==
    /\ At(r, "waiting")
    /\ ~SeesCancel(r)
    /\ Sandbox[r] = "workspace-write" => \A s \in held : Compatible(r, s)
    /\ held' = held \cup {r}
    /\ Go(r, "locked")
    /\ UNCHANGED <<proc, active, verdict, reporterVars, cancelled>>

TakeLock(r) ==
    /\ At(r, "waiting")
    /\ ~SeesCancel(r)
    /\ \A s \in held : Compatible(r, s)
    /\ held' = held \cup {r}
    /\ Go(r, "locked")
    /\ UNCHANGED <<proc, active, verdict, reporterVars, cancelled>>

GiveUp(r) ==
    /\ At(r, "waiting")
    /\ SeesCancel(r)
    /\ Throw(r, "interrupted")
    /\ UNCHANGED <<proc, held, active, reporterVars, cancelled>>

Spawn(r) ==
    /\ At(r, "locked")
    /\ \/ Go(r, "spawned") /\ proc' = [proc EXCEPT ![r] = "alive"] /\ UNCHANGED verdict
       \/ Throw(r, "failed") /\ UNCHANGED proc
    /\ UNCHANGED <<held, active, reporterVars, cancelled>>

Register(r) ==
    /\ At(r, "spawned")
    /\ active' = active \cup {r}
    /\ Go(r, "watching")
    /\ Announce(r, "model_running")
    /\ UNCHANGED <<proc, held, verdict, cancelled>>

\* a process ends by itself, with a result or without
ProcessEnds(r) ==
    /\ proc[r] = "alive"
    /\ \E end \in {"ok", "bad"} : proc' = [proc EXCEPT ![r] = end]
    /\ UNCHANGED <<place, held, active, verdict, reporterVars, cancelled>>

Finalize(r) ==
    /\ At(r, "watching")
    /\ proc[r] # "alive"
    /\ Go(r, "finalizing")
    /\ Announce(r, "finalizing")
    /\ UNCHANGED <<proc, held, active, verdict, cancelled>>

\* a process that ended well must have left a result
Conclude(r) ==
    /\ At(r, "finalizing")
    /\ \/ /\ Go(r, "leaving")
          /\ verdict' = [verdict EXCEPT ![r] = IF proc[r] = "ok" THEN "succeeded" ELSE "failed"]
       \/ proc[r] = "ok" /\ Throw(r, "failed")
    /\ UNCHANGED <<proc, held, active, reporterVars, cancelled>>

\* the finally clause closes the lock and forgets the process
Unlock(r, next) ==
    /\ held' = held \ {r}
    /\ active' = active \ {r}
    /\ Go(r, next)

\* a mutant, for BatchReturns: the handle of the lock stays open
LeaveHolding(r) ==
    /\ At(r, "leaving")
    /\ active' = active \ {r}
    /\ Go(r, "settling")
    /\ UNCHANGED <<held, proc, verdict, reporterVars, cancelled>>

Leave(r) ==
    /\ At(r, "leaving")
    /\ Unlock(r, "settling")
    /\ UNCHANGED <<proc, verdict, reporterVars, cancelled>>

\* finish waits for the heartbeat, though not for ever, and then reports
Settle(r) ==
    /\ At(r, "settling")
    /\ IF report[r] = verdict[r]
       THEN Go(r, "returned") /\ UNCHANGED reporterVars
       ELSE Announce(r, verdict[r]) /\ UNCHANGED place
    /\ UNCHANGED <<proc, held, active, verdict, cancelled>>

\* the handler of the exception ends the process, if there is one, and
\* reports while the lock is still held
Fail(r) ==
    /\ At(r, "failing")
    /\ proc' = [proc EXCEPT ![r] = IF @ = "alive" THEN "bad" ELSE @]
    /\ Announce(r, verdict[r])
    /\ Go(r, "unlocking")
    /\ UNCHANGED <<held, active, verdict, cancelled>>

Raise(r) ==
    /\ At(r, "unlocking")
    /\ Unlock(r, "raised")
    /\ UNCHANGED <<proc, verdict, reporterVars, cancelled>>

\* a signal to a run in a process of its own; before the status is there, and
\* once the lock is being closed, it ends the run with the status as it is
Interrupt(r) ==
    /\ r \notin Threaded
    /\ \/ /\ place[r] \in {"waiting", "locked", "spawned", "watching", "finalizing"}
          /\ Throw(r, "interrupted")
          /\ UNCHANGED <<held, active>>
       \/ /\ place[r] \in {"queued", "leaving", "settling"}
          /\ Unlock(r, "cut")
          /\ UNCHANGED verdict
    /\ unsaved' = unsaved \ {r}
    /\ UNCHANGED <<proc, report, file, beat, caught, cancelled>>

\* the steps of execute_run; command_resume takes the same ones, with no cancel
\* event to look at
RunStep(r) ==
    \/ Begin(r) \/ TakeLock(r) \/ GiveUp(r) \/ Spawn(r) \/ Register(r)
    \/ Finalize(r) \/ Conclude(r) \/ Leave(r) \/ Settle(r) \/ Fail(r) \/ Raise(r)
    \/ Persist(r)

\* a run starts: submitted by a batch, or from the command line
Submit(r) ==
    /\ place[r] = "idle"
    /\ Go(r, "queued")
    /\ UNCHANGED <<proc, held, active, verdict, reporterVars, cancelled>>

\* the batch's registry is used to end a process
Terminate(r) ==
    /\ proc[r] = "alive"
    /\ proc' = [proc EXCEPT ![r] = "bad"]
    /\ UNCHANGED <<place, held, active, verdict, reporterVars, cancelled>>

-----------------------------------------------------------------------------
(* A shared writer works alone (worktree_lock, execute_run's finally): while *)
(* the process of a writing run is alive, no process of another run is in   *)
(* that worktree, whatever ended in whatever way before.                    *)
WriterWorksAlone ==
    \A r, s \in Run :
        r # s /\ proc[r] = "alive" /\ proc[s] = "alive" => Compatible(r, s)

Rank(s) == CASE s = "none" -> 0
             [] s = "waiting_for_lock" -> 1
             [] s = "model_running" -> 2
             [] s = "finalizing" -> 3
             [] s \in Status -> 4

(* status.json never goes back (ProgressReporter._persist): a heartbeat      *)
(* caught before a change of phase, or before the end, is not written after *)
(* it, although finish stops waiting for the heartbeat.                      *)
StatusNeverGoesBack == [][\A r \in Run : Rank(file'[r]) >= Rank(file[r])]_runVars

=============================================================================
