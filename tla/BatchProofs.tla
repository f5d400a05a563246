----------------------------- MODULE BatchProofs -----------------------------
(***************************************************************************)
(* Proofs about delegate runs (modules DirectRun and Batch), for every set *)
(* of runs, every batch, and every assignment of worktrees and sandboxes.  *)
(*                                                                         *)
(* To the runs, the batch's main thread is someone who submits them, ends  *)
(* their processes and sets the cancel event.  StepShape says so once; the *)
(* invariants are then proved step by step.                                *)
(*                                                                         *)
(* The second half is about the loop of command_batch: why it may stall,   *)
(* and that it promises what module Acceptance says.                       *)
(***************************************************************************)
EXTENDS Batch, FiniteSetTheorems, TLAPS

\* a non-empty set of numbers of an interval has a least one
LEMMA LeastIndex ==
    ASSUME NEW N \in Nat, NEW S \in SUBSET (1..N), S # {}
    PROVE  \E x \in S : \A y \in S : x <= y
<1> DEFINE Less == OpToRel(<, Nat)
<1>1. S \subseteq Nat
  OBVIOUS
<1>2. \A x, y \in S : y < x => <<y, x>> \in Less
  BY <1>1 DEF OpToRel
<1>3. IsWellFoundedOn(Less, Nat)
  BY NatLessThanWellFounded
<1> HIDE DEF Less
<1>4. PICK x \in S : \A y \in S : ~(<<y, x>> \in Less)
  BY <1>1, <1>3, WFMin
<1>5. \A y \in S : ~(y < x)
  BY <1>2, <1>4
<1>6. QED
  BY <1>1, <1>5

SetsCancel ==
    /\ cancelled' = TRUE
    /\ UNCHANGED <<place, proc, held, active, verdict, reporterVars>>

\* what is known of its argument is that the run changes its own state only
RunChange(r) ==
    \/ r \in Run /\ (RunStep(r) \/ Heartbeat(r) \/ ProcessEnds(r) \/ Interrupt(r))
    \/ Submit(r) \/ Terminate(r)

LEMMA StepShape ==
    ASSUME [Next]_vars
    PROVE  \/ UNCHANGED runVars
           \/ SetsCancel
           \/ \E r : RunChange(r)
<1>1. CASE Signal \/ SignalSwallowed \/ SignalLate
  BY <1>1 DEF Signal, SignalSwallowed, SignalLate, SetsCancel
<1>2. CASE Launch
  BY <1>2 DEF Launch, Alone, RunChange
<1>3. CASE TerminateListed
  BY <1>3 DEF TerminateListed, Alone, RunChange
<1>4. CASE \/ SkipOverBudget \/ Observed \/ SkipBlocked \/ Passed
           \/ LaunchRaises \/ Launched \/ Wait \/ Collect \/ Collected \/ Finish
           \/ Join \/ Abandon \/ Abandoned
  BY <1>4 DEF SkipOverBudget, Observed, SkipBlocked, Passed, LaunchRaises, Launched, Wait, Collect,
              Collected, Finish, Join, Abandon, Abandoned, Alone
<1>5. CASE \E r \in Run : (RunStep(r) \/ Heartbeat(r) \/ ProcessEnds(r)) /\ UNCHANGED batchVars
  BY <1>5 DEF RunChange
<1>6. CASE \E r \in Others : (Submit(r) \/ Interrupt(r)) /\ UNCHANGED batchVars
  BY <1>6 DEF RunChange, Others
<1>7. CASE UNCHANGED vars
  BY <1>7 DEF vars
<1>8. QED
  BY <1>1, <1>2, <1>3, <1>4, <1>5, <1>6, <1>7 DEF Next, MainStep

-----------------------------------------------------------------------------
(* The worktree lock.  A process lives only while its run holds the lock,   *)
(* and a run parts with the lock only where its process is over.            *)

Holding == {"locked", "spawned", "watching", "finalizing", "leaving"}

LockInv ==
    /\ place \in [Run -> Place]
    /\ proc \in [Run -> {"none", "alive", "ok", "bad"}]
    /\ held \subseteq Run
    /\ \A r \in Run : place[r] \in Holding => r \in held
    /\ \A r \in Run : proc[r] = "alive" =>
          r \in held /\ place[r] \in {"spawned", "watching", "failing"}
    /\ \A r, s \in held : r # s => Compatible(r, s)

LEMMA LockInit ==
    ASSUME Init
    PROVE  LockInv
BY DEF Init, RunInit, LockInv, Place, Holding

LEMMA LockStep ==
    ASSUME LockInv, [Next]_vars
    PROVE  LockInv'
<1> USE DEF LockInv, Holding, Place, Go, Compatible
<1>1. CASE UNCHANGED runVars \/ SetsCancel
  BY <1>1 DEF runVars, SetsCancel
<1>2. CASE \E r : RunChange(r)
  <2>1. PICK r : RunChange(r)
    BY <1>2
  <2>2. CASE Begin(r) \/ Submit(r) \/ Spawn(r) \/ Register(r)
    BY <2>2 DEF Begin, Submit, Spawn, Register, At, Throw, Announce
  <2>3. CASE r \in Run /\ TakeLock(r)
    <3>1. place[r] = "waiting" /\ held' = held \cup {r} /\ proc' = proc
      BY <2>3 DEF TakeLock, At
    <3>2. \A s \in held : Compatible(r, s) /\ Compatible(s, r)
      BY <2>3 DEF TakeLock
    <3>3. \A s, t \in held' : s # t => Compatible(s, t)'
      BY <3>1, <3>2
    <3>4. QED
      BY <2>3, <3>1, <3>3 DEF TakeLock, At
  <2>4. CASE GiveUp(r) \/ Finalize(r) \/ Conclude(r) \/ Settle(r)
    BY <2>4 DEF GiveUp, Finalize, Conclude, Settle, At, Throw, Announce
  <2>5. CASE Leave(r) \/ Raise(r)
    BY <2>5 DEF Leave, Raise, Unlock, At
  <2>6. CASE Fail(r)
    BY <2>6 DEF Fail, At, Announce
  <2>7. CASE Interrupt(r)
    BY <2>7 DEF Interrupt, Throw, Unlock
  <2>8. CASE ProcessEnds(r) \/ Terminate(r)
    BY <2>8 DEF ProcessEnds, Terminate
  <2>9. CASE Persist(r) \/ Heartbeat(r)
    BY <2>9 DEF Persist, Heartbeat, Wake, Catch, WriteCaught
  <2>10. QED
    BY <2>1, <2>2, <2>3, <2>4, <2>5, <2>6, <2>7, <2>8, <2>9 DEF RunChange, RunStep
<1>3. QED
  BY <1>1, <1>2, StepShape

(* A writer works alone in its worktree, whoever else takes that worktree's *)
(* lock, for any number of runs and batches' threads among them             *)
(* (worktree_lock and the exits of execute_run).                            *)
THEOREM WritersWorkAlone == Spec => []WriterWorksAlone
<1>1. Init => LockInv
  BY LockInit
<1>2. LockInv /\ [Next]_vars => LockInv'
  BY LockStep
<1>3. LockInv => WriterWorksAlone
  BY DEF LockInv, WriterWorksAlone
<1>4. QED
  BY <1>1, <1>2, <1>3, PTL DEF Spec

-----------------------------------------------------------------------------
(* The reporter.  What a run has reported follows its place; what is in     *)
(* status.json, or on its way there, is never ahead of it.                  *)

Reports(r) ==
    /\ place[r] \in {"idle", "queued"} =>
          report[r] = "none" /\ file[r] = "none" /\ beat[r] = "asleep"
    /\ place[r] \in {"waiting", "locked", "spawned"} => report[r] = "waiting_for_lock"
    /\ place[r] = "watching" => report[r] = "model_running"
    /\ place[r] \in {"finalizing", "leaving"} => report[r] = "finalizing"
    /\ place[r] = "failing" => report[r] \in Phase
    /\ place[r] = "settling" => report[r] \in {"finalizing", verdict[r]}
    /\ place[r] \in {"unlocking", "returned"} => report[r] = verdict[r]
    /\ place[r] = "raised" => report[r] \in {"none", verdict[r]}
    /\ place[r] \in {"failing", "leaving", "settling", "unlocking", "returned"} =>
          verdict[r] \in Status

Written(r) ==
    /\ Rank(file[r]) <= Rank(report[r])
    /\ IF beat[r] = "writing"
       THEN Rank(file[r]) <= Rank(caught[r]) /\ Rank(caught[r]) <= Rank(report[r])
       ELSE caught[r] = "none"
    /\ r \notin unsaved /\ place[r] # "cut" /\ report[r] \in Status =>
          file[r] = report[r] /\ caught[r] \in {"none", report[r]}
    /\ place[r] \in {"returned", "raised"} => r \notin unsaved

ReportInv ==
    /\ place \in [Run -> Place]
    /\ report \in [Run -> Phase \cup Status]
    /\ file \in [Run -> Phase \cup Status]
    /\ caught \in [Run -> Phase \cup Status]
    /\ verdict \in [Run -> {"none"} \cup Status]
    /\ beat \in [Run -> {"asleep", "awake", "writing"}]
    /\ \A r \in Run : Reports(r) /\ Written(r)

LEMMA RankBounds ==
    ASSUME NEW s \in Phase \cup Status
    PROVE  /\ Rank(s) \in 0..4
           /\ s \in Status => Rank(s) = 4
           /\ s \in Phase => Rank(s) < 4
           /\ Rank("none") = 0 /\ Rank("waiting_for_lock") = 1
           /\ Rank("model_running") = 2 /\ Rank("finalizing") = 3
BY DEF Rank, Phase, Status

LEMMA ReportInit ==
    ASSUME Init
    PROVE  ReportInv
BY DEF Init, RunInit, ReportInv, Reports, Written, Rank, Phase, Status, Place

\* a step of one run leaves the reports of the others as they are
LEMMA ReportStep ==
    ASSUME ReportInv, [Next]_vars
    PROVE  ReportInv' /\ \A r \in Run : Rank(file'[r]) >= Rank(file[r])
<1> USE DEF ReportInv, Place
<1>1. CASE UNCHANGED runVars \/ SetsCancel
  BY <1>1, RankBounds DEF runVars, SetsCancel, reporterVars, Reports, Written
<1>2. CASE \E r : RunChange(r)
  <2>1. PICK r : RunChange(r)
    BY <1>2
  <2>2. CASE Begin(r) \/ Submit(r)
    BY <2>1, <2>2, RankBounds
    DEF Begin, Submit, At, Go, Reports, Written, reporterVars, Phase, Status
  <2>3. CASE TakeLock(r) \/ GiveUp(r) \/ Spawn(r)
    BY <2>3, RankBounds
    DEF TakeLock, GiveUp, Spawn, At, Go, Throw, Reports, Written, reporterVars, Phase, Status
  <2>4. CASE Register(r) \/ Finalize(r)
    BY <2>4, RankBounds
    DEF Register, Finalize, Announce, At, Go, Reports, Written, Phase, Status
  <2>5. CASE Conclude(r) \/ Leave(r) \/ Raise(r)
    BY <2>5, RankBounds
    DEF Conclude, Leave, Raise, Unlock, Throw, At, Go, Reports, Written, reporterVars, Phase, Status
  <2>6. CASE r \in Run /\ (Settle(r) \/ Fail(r))
    <3>1. place[r] \in {"settling", "failing"} /\ verdict[r] \in Status /\ verdict' = verdict
      BY <2>6 DEF Settle, Fail, At, Reports
    <3>2. \A s \in Phase \cup Status : Rank(s) \in 0..4 /\ Rank(s) <= Rank(verdict[r])
      BY <3>1, RankBounds
    <3>3. CASE place' = [place EXCEPT ![r] = "returned"] /\ UNCHANGED reporterVars
      BY <2>6, <3>1, <3>2, <3>3, RankBounds
      DEF Settle, Fail, At, Go, Reports, Written, reporterVars, Phase, Status
    <3>4. CASE /\ Announce(r, verdict[r])
               /\ place' = place \/ place' = [place EXCEPT ![r] = "unlocking"]
      BY <2>6, <3>1, <3>2, <3>4, RankBounds
      DEF Settle, Fail, Announce, At, Go, Reports, Written, Phase, Status
    <3>5. QED
      BY <2>6, <3>3, <3>4 DEF Settle, Fail, Go
  <2>7. CASE Interrupt(r)
    BY <2>7, RankBounds
    DEF Interrupt, Unlock, Throw, At, Go, Reports, Written, reporterVars, Phase, Status
  <2>8. CASE ProcessEnds(r) \/ Terminate(r)
    BY <2>8, RankBounds DEF ProcessEnds, Terminate, Reports, Written, reporterVars
  <2>9. CASE Persist(r)
    <3>1. \A s \in Run : Rank(report[s]) \in 0..4
      BY RankBounds
    <3>2. \A s \in Run : s # r => file'[s] = file[s]
      BY <2>9 DEF Persist
    <3>3. r \in Run => file'[r] = report[r] /\ beat[r] # "writing"
      BY <2>9 DEF Persist, WriteLockFree
    <3>4. \A s \in Run : Rank(file[s]) \in 0..4 /\ Rank(file'[s]) >= Rank(file[s])
      BY <3>1, <3>2, <3>3, RankBounds DEF Written
    <3>5. \A s \in Run : Reports(s)' /\ Written(s)'
      BY <2>9, <3>1, <3>2, <3>3 DEF Persist, Reports, Written
    <3>6. QED
      BY <2>9, <3>4, <3>5 DEF Persist
  <2>10. CASE Heartbeat(r)
    BY <2>10, RankBounds
    DEF Heartbeat, Wake, Catch, WriteCaught, Reports, Written, Ended, Phase, Status
  <2>11. QED
    BY <2>1, <2>2, <2>3, <2>4, <2>5, <2>6, <2>7, <2>8, <2>9, <2>10 DEF RunChange, RunStep
<1>3. QED
  BY <1>1, <1>2, StepShape

(* status.json of a run never goes back to an earlier phase, nor from its   *)
(* end, whatever its heartbeat thread and its own thread write in turn      *)
(* (ProgressReporter._persist and finish).                                  *)
THEOREM StatusGoesForward == Spec => StatusNeverGoesBack
<1>1. Init => ReportInv
  BY ReportInit
<1>2. ReportInv /\ [Next]_vars => ReportInv'
  BY ReportStep
<1>3. ReportInv /\ [Next]_vars => [\A r \in Run : Rank(file'[r]) >= Rank(file[r])]_runVars
  BY ReportStep
<1>4. QED
  BY <1>1, <1>2, <1>3, PTL DEF Spec, StatusNeverGoesBack

-----------------------------------------------------------------------------
(* The records of the batch.  A success it writes down is that of a run     *)
(* which came back and will not change any more.                            *)

TaskStatus == {"pending", "running", "succeeded"} \cup Failed
Succeeded(t) == place[t] = "returned" /\ verdict[t] = "succeeded"

BatchInv ==
    /\ place \in [Run -> Place] /\ verdict \in [Run -> {"none"} \cup Status]
    /\ status \in [Tasks -> TaskStatus]
    /\ \A t \in Tasks : status[t] = "succeeded" => Succeeded(t)
    /\ \A t \in Tasks : saved.tasks[t] = "succeeded" => Succeeded(t)
    /\ main = "finish" => Settled
    /\ result # "none" => main = "returned"
    /\ result \notin {"none", "stalled", "raised", "cut"} =>
          /\ saved.overall = result
          /\ \A t \in Tasks : saved.tasks[t] \notin {"pending", "running"}

LEMMA TasksAreRuns == Tasks \subseteq Run
BY RunAssumption, BatchAssumption

LEMMA BatchInit ==
    ASSUME Init
    PROVE  BatchInv
BY DEF Init, RunInit, BatchInv, TaskStatus, Place

\* a run that succeeded has nothing left to do, and no run changes but itself
LEMMA RunsKeepSuccess ==
    ASSUME BatchInv, [Next]_vars
    PROVE  /\ place' \in [Run -> Place] /\ verdict' \in [Run -> {"none"} \cup Status]
           /\ \A r \in Run : Succeeded(r) => Succeeded(r)'
<1> USE DEF BatchInv, Place, Status, Succeeded
<1>1. CASE UNCHANGED runVars \/ SetsCancel
  BY <1>1 DEF runVars, SetsCancel
<1>2. CASE \E r : RunChange(r)
  <2>1. PICK r : RunChange(r)
    BY <1>2
  <2>2. CASE Begin(r) \/ Submit(r) \/ TakeLock(r) \/ GiveUp(r) \/ Spawn(r)
    BY <2>2 DEF Begin, Submit, TakeLock, GiveUp, Spawn, Throw, Go, At
  <2>3. CASE Register(r) \/ Finalize(r) \/ Conclude(r) \/ Leave(r)
    BY <2>3 DEF Register, Finalize, Conclude, Leave, Unlock, Throw, Go, At
  <2>4. CASE Settle(r) \/ Fail(r) \/ Raise(r) \/ Interrupt(r)
    BY <2>4 DEF Settle, Fail, Raise, Interrupt, Unlock, Throw, Go, At
  <2>5. CASE ProcessEnds(r) \/ Terminate(r) \/ Persist(r) \/ Heartbeat(r)
    BY <2>5 DEF ProcessEnds, Terminate, Persist, Heartbeat, Wake, Catch, WriteCaught
  <2>6. QED
    BY <2>1, <2>2, <2>3, <2>4, <2>5 DEF RunChange, RunStep
<1>3. QED
  BY <1>1, <1>2, StepShape

LEMMA BatchStep ==
    ASSUME ReportInv, BatchInv, [Next]_vars
    PROVE  BatchInv'
<1>0. /\ place' \in [Run -> Place] /\ verdict' \in [Run -> {"none"} \cup Status]
      /\ \A t \in Tasks : Succeeded(t) => Succeeded(t)'
  BY TasksAreRuns, RunsKeepSuccess
<1> USE <1>0 DEF BatchInv, TaskStatus, Failed, Status
<1>1. CASE SkipOverBudget \/ SkipBlocked \/ Launch \/ Abandon
  <2>1. /\ main' # "finish" /\ main # "returned"
        /\ saved' = saved /\ result' = result
    BY <1>1 DEF SkipOverBudget, SkipBlocked, Launch, Abandon
  <2>2. ASSUME NEW t, NEW s \in TaskStatus \ {"succeeded"}, status' = [status EXCEPT ![t] = s]
        PROVE  /\ status' \in [Tasks -> TaskStatus]
               /\ \A u \in Tasks : status'[u] = "succeeded" => status[u] = "succeeded"
    BY <2>2
  <2>3. CASE SkipOverBudget
    BY <2>1, <2>2, <2>3 DEF SkipOverBudget
  <2>4. CASE SkipBlocked
    BY <2>1, <2>2, <2>4 DEF SkipBlocked
  <2>5. CASE Launch
    BY <2>1, <2>2, <2>5 DEF Launch
  <2>6. CASE Abandon
    BY <2>1, <2>2, <2>6 DEF Abandon
  <2>7. QED
    BY <1>1, <2>3, <2>4, <2>5, <2>6
<1>2. CASE Observed \/ Passed \/ Wait \/ Join \/ TerminateListed \/ Signal \/ SignalLate
  BY <1>2 DEF Observed, Passed, Wait, Join, TerminateListed, Signal, SignalLate
<1>3. CASE LaunchRaises \/ Launched
  BY <1>3 DEF LaunchRaises, Launched, Save, Settled
<1>4. CASE Collect \/ SignalSwallowed
  <2>1. \A t \in Tasks : status'[t] = "succeeded" => status[t] = "succeeded" \/ Succeeded(t)
    BY <1>4 DEF Collect, SignalSwallowed, Succeeded
  <2>2. status' \in [Tasks -> TaskStatus]
    <3>1. CASE Collect
      <4>1. PICK t \in completed :
               \/ status' = [status EXCEPT ![t] =
                                IF place[t] = "returned" THEN verdict[t] ELSE "failed"]
               \/ status' = [status EXCEPT ![t] = "failed"]
        BY <3>1 DEF Collect
      <4>2. t \in Tasks /\ place[t] = "returned" => verdict[t] \in TaskStatus
        BY TasksAreRuns DEF ReportInv, Reports
      <4>3. QED
        BY <4>1, <4>2
    <3>2. CASE SignalSwallowed
      BY <3>2 DEF SignalSwallowed
    <3>3. QED
      BY <1>4, <3>1, <3>2
  <2>3. main = "collect" /\ main' = main /\ saved' = saved /\ result' = result
    BY <1>4 DEF Collect, SignalSwallowed
  <2>4. QED
    BY <2>1, <2>2, <2>3
<1>5. CASE Collected
  BY <1>5 DEF Collected, Save
<1>6. CASE Finish \/ Abandoned
  BY <1>6 DEF Finish, Abandoned, Save, Settled, Overall
<1>7. CASE UNCHANGED batchVars
  BY <1>7 DEF batchVars, Settled
<1>8. QED
  BY <1>1, <1>2, <1>3, <1>4, <1>5, <1>6, <1>7 DEF Next, MainStep, vars

(* The three records agree: a run's end in its status.json, a success in    *)
(* the batch's, and the batch's own verdict over settled tasks.             *)
THEOREM RecordsAgreeAlways == Spec => []RecordsAgree
<1>1. Init => ReportInv /\ BatchInv
  BY ReportInit, BatchInit
<1>2. ReportInv /\ BatchInv /\ [Next]_vars => (ReportInv /\ BatchInv)'
  BY ReportStep, BatchStep
<1>3. ReportInv /\ BatchInv => RecordsAgree
  <2> SUFFICES ASSUME ReportInv, BatchInv
               PROVE  RecordsAgree
    OBVIOUS
  <2>1. \A r \in Run : place[r] \in {"returned", "raised"} /\ report[r] # "none" =>
            file[r] = verdict[r] /\ caught[r] \in {"none", verdict[r]}
    BY DEF ReportInv, Reports, Written, Status
  <2>2. \A t \in Tasks : saved.tasks[t] = "succeeded" => file[t] = "succeeded"
    BY <2>1, TasksAreRuns DEF BatchInv, Succeeded, ReportInv, Reports, Status
  <2>3. QED
    BY <2>1, <2>2 DEF RecordsAgree, BatchInv
<1>4. QED
  BY <1>1, <1>2, <1>3, PTL DEF Spec

-----------------------------------------------------------------------------
(* The end of a batch.  A run that has not started or is over has nothing;  *)
(* of the batch's runs every other one is among the futures, and the main   *)
(* thread passes the point after which it may return only when there are    *)
(* none left, or when it has waited for all the threads.                    *)

AtRest(r) == place[r] \in {"idle"} \cup Ended

FreeInv ==
    /\ place \in [Run -> Place]
    /\ \A r \in Run : place[r] \in {"idle", "queued", "waiting", "settling"} \cup Ended =>
          r \notin held \cup active

JoinInv ==
    /\ main = "collect" => \A t \in completed \cap Tasks : place[t] \in Ended
    /\ \A t \in Tasks : AtRest(t) \/ t \in running
    /\ main \in {"finish", "abandon", "returned"} => \A t \in Tasks : AtRest(t)
    /\ result # "none" => main = "returned"

LEMMA FreeInit ==
    ASSUME Init
    PROVE  FreeInv /\ JoinInv
BY TasksAreRuns DEF Init, RunInit, FreeInv, JoinInv, AtRest, Place, Ended

LEMMA FreeStep ==
    ASSUME FreeInv, [Next]_vars
    PROVE  FreeInv'
<1> USE DEF FreeInv, Place, Ended, Go
<1>1. CASE UNCHANGED runVars \/ SetsCancel
  BY <1>1 DEF runVars, SetsCancel
<1>2. CASE \E r : RunChange(r)
  <2>1. PICK r : RunChange(r)
    BY <1>2
  <2>2. CASE Begin(r) \/ Submit(r) \/ TakeLock(r) \/ GiveUp(r) \/ Spawn(r) \/ Register(r)
    BY <2>2 DEF Begin, Submit, TakeLock, GiveUp, Spawn, Register, At, Throw
  <2>3. CASE Finalize(r) \/ Conclude(r) \/ Leave(r) \/ Settle(r)
    BY <2>3 DEF Finalize, Conclude, Leave, Settle, Unlock, At, Throw
  <2>4. CASE Fail(r) \/ Raise(r) \/ Interrupt(r)
    BY <2>4 DEF Fail, Raise, Interrupt, Unlock, At, Throw
  <2>5. CASE ProcessEnds(r) \/ Terminate(r) \/ Persist(r) \/ Heartbeat(r)
    BY <2>5 DEF ProcessEnds, Terminate, Persist, Heartbeat, Wake, Catch, WriteCaught
  <2>6. QED
    BY <2>1, <2>2, <2>3, <2>4, <2>5 DEF RunChange, RunStep
<1>3. QED
  BY <1>1, <1>2, StepShape

\* a run at rest is moved by its submission only
LEMMA RestStays ==
    ASSUME place \in [Run -> Place], NEW r \in Run,
           RunStep(r) \/ Heartbeat(r) \/ ProcessEnds(r) \/ Interrupt(r)
    PROVE  \A s \in Run : AtRest(s) => place'[s] = place[s]
<1> USE DEF AtRest, Place, Ended, Go
<1>1. CASE Begin(r) \/ TakeLock(r) \/ GiveUp(r) \/ Spawn(r) \/ Register(r) \/ Finalize(r)
  BY <1>1 DEF Begin, TakeLock, GiveUp, Spawn, Register, Finalize, At, Throw
<1>2. CASE Conclude(r) \/ Leave(r) \/ Settle(r) \/ Fail(r) \/ Raise(r) \/ Interrupt(r)
  BY <1>2 DEF Conclude, Leave, Settle, Fail, Raise, Interrupt, Unlock, At, Throw
<1>3. CASE Persist(r) \/ Heartbeat(r) \/ ProcessEnds(r)
  BY <1>3 DEF Persist, Heartbeat, Wake, Catch, WriteCaught, ProcessEnds
<1>4. QED
  BY <1>1, <1>2, <1>3 DEF RunStep

LEMMA JoinStep ==
    ASSUME FreeInv, JoinInv, [Next]_vars
    PROVE  JoinInv'
<1> USE DEF JoinInv, AtRest
<1>1. CASE \E r \in Run : (RunStep(r) \/ Heartbeat(r) \/ ProcessEnds(r)) /\ UNCHANGED batchVars
  BY <1>1, RestStays, TasksAreRuns DEF FreeInv, batchVars
<1>2. CASE \E r \in Others : (Submit(r) \/ Interrupt(r)) /\ UNCHANGED batchVars
  <2>1. PICK r \in Others : Submit(r) \/ Interrupt(r)
    BY <1>2
  <2>2. \A t \in Tasks : place'[t] = place[t]
    BY <2>1, TasksAreRuns DEF Submit, Interrupt, Throw, Unlock, Go, Others, FreeInv
  <2>3. QED
    BY <1>2, <2>2 DEF batchVars
<1>3. CASE Launch
  <2>1. CASE place' = place
    BY <1>3, <2>1 DEF Launch
  <2>2. ASSUME NEW t, Submit(t), running' = running \cup {t}
        PROVE  JoinInv'
    BY <1>3, <2>2, TasksAreRuns DEF Launch, Submit, Go, FreeInv
  <2>3. QED
    BY <1>3, <2>1, <2>2 DEF Launch, Alone, runVars
<1>4. CASE SkipOverBudget \/ Observed \/ SkipBlocked \/ Passed \/ LaunchRaises \/ Launched
  BY <1>4
  DEF SkipOverBudget, Observed, SkipBlocked, Passed, LaunchRaises, Launched, Alone, runVars
<1>5. CASE Wait \/ Collect \/ Collected \/ Finish
  BY <1>5 DEF Wait, Over, Collect, Collected, Finish, Alone, runVars
<1>6. CASE TerminateListed \/ Join \/ Abandon \/ Abandoned
  BY <1>6
  DEF TerminateListed, Terminate, Join, Joined, Submitted, Abandon, Abandoned, Alone, runVars
<1>7. CASE Signal \/ SignalSwallowed \/ SignalLate
  BY <1>7 DEF Signal, SignalSwallowed, SignalLate
<1>8. CASE UNCHANGED vars
  BY <1>8 DEF vars, batchVars, runVars
<1>9. QED
  BY <1>1, <1>2, <1>3, <1>4, <1>5, <1>6, <1>7, <1>8 DEF Next, MainStep

(* However command_batch comes back, by its verdict, a stall or a signal,   *)
(* no process, lock or registry entry of one of its tasks is left           *)
(* (BatchExecutor.__exit__), for any number of tasks and threads.           *)
THEOREM NothingIsLeft == Spec => []NothingOutlivesTheBatch
<1>1. Init => LockInv /\ FreeInv /\ JoinInv
  BY LockInit, FreeInit
<1>2. LockInv /\ FreeInv /\ JoinInv /\ [Next]_vars => (LockInv /\ FreeInv /\ JoinInv)'
  BY LockStep, FreeStep, JoinStep
<1>3. LockInv /\ FreeInv /\ JoinInv => NothingOutlivesTheBatch
  BY TasksAreRuns
  DEF LockInv, FreeInv, JoinInv, AtRest, Place, Ended, NothingOutlivesTheBatch
<1>4. QED
  BY <1>1, <1>2, <1>3, PTL DEF Spec

-----------------------------------------------------------------------------

\* where the loop is as long as no signal has broken it off
Looping == {"observe", "block", "launch", "wait", "collect", "finish"}

(* The dictionary of futures holds the tasks recorded as running; what is    *)
(* pending was never submitted, and what is about to be launched is ready.   *)
LoopInv ==
    /\ running \subseteq Tasks /\ queue \subseteq DOMAIN Manifest /\ cursor \in Nat \ {0}
    /\ main \in Looping \cup {"terminate", "abandon", "returned"}
    /\ main \in Looping => \A t \in Tasks : status[t] = "running" <=> t \in running
    /\ \A t \in Tasks : status[t] = "pending" => place[t] = "idle"
    /\ \A t \in running : place[t] # "idle"
    /\ main = "collect" => completed \subseteq running
    /\ main = "launch" => \A i \in queue : Ready(Manifest[i])

LEMMA ManifestIsAList ==
    /\ DOMAIN Manifest = 1..Len(Manifest) /\ Len(Manifest) \in Nat \ {0}
    /\ \A i \in DOMAIN Manifest : Manifest[i] \in Tasks
    /\ \A t \in Tasks : \E i \in DOMAIN Manifest : Manifest[i] = t
BY BatchAssumption DEF Tasks, ToSet

LEMMA ToLaunchIsReady ==
    /\ ToLaunch \subseteq DOMAIN Manifest
    /\ \A i \in ToLaunch : Ready(Manifest[i])
BY DEF ToLaunch, First

LEMMA LoopInit ==
    ASSUME Init
    PROVE  LoopInv
BY TasksAreRuns DEF Init, RunInit, LoopInv, Looping, Ready

\* of the steps, only a launch submits a task
LEMMA TriesStay ==
    ASSUME FreeInv, [Next]_vars, ~Launch
    PROVE  \A t \in Tasks : place'[t] = "idle" <=> place[t] = "idle"
<1> USE DEF FreeInv, Go
<1>1. CASE place' = place
  BY <1>1
<1>2. ASSUME NEW r \in Run, RunStep(r) \/ Heartbeat(r) \/ ProcessEnds(r)
      PROVE  \A t \in Tasks : place'[t] = "idle" <=> place[t] = "idle"
  <2>1. CASE Begin(r) \/ TakeLock(r) \/ GiveUp(r) \/ Spawn(r) \/ Register(r) \/ Finalize(r)
    BY <2>1, TasksAreRuns DEF Begin, TakeLock, GiveUp, Spawn, Register, Finalize, At, Throw
  <2>2. CASE Conclude(r) \/ Leave(r) \/ Settle(r) \/ Fail(r) \/ Raise(r)
    BY <2>2, TasksAreRuns DEF Conclude, Leave, Settle, Fail, Raise, Unlock, At, Throw
  <2>3. CASE Persist(r) \/ Heartbeat(r) \/ ProcessEnds(r)
    BY <2>3 DEF Persist, Heartbeat, Wake, Catch, WriteCaught, ProcessEnds
  <2>4. QED
    BY <1>2, <2>1, <2>2, <2>3 DEF RunStep
<1>3. ASSUME NEW r \in Others, Submit(r) \/ Interrupt(r)
      PROVE  \A t \in Tasks : place'[t] = "idle" <=> place[t] = "idle"
  BY <1>3, TasksAreRuns DEF Submit, Interrupt, Throw, Unlock, Others
<1>4. CASE MainStep
  BY <1>1, <1>4
  DEF MainStep, SkipOverBudget, Observed, SkipBlocked, Passed, LaunchRaises, Launched, Wait,
      Collect, Collected, Finish, TerminateListed, Terminate, Join, Abandon, Abandoned, Alone, runVars
<1>5. CASE Signal \/ SignalSwallowed \/ SignalLate
  BY <1>1, <1>5 DEF Signal, SignalSwallowed, SignalLate
<1>6. CASE UNCHANGED vars
  BY <1>1, <1>6 DEF vars, runVars
<1>7. QED
  BY <1>2, <1>3, <1>4, <1>5, <1>6 DEF Next

LEMMA LaunchStep ==
    ASSUME LoopInv, FreeInv, BatchInv, Launch
    PROVE  \E t \in Tasks :
              /\ Ready(t)
              /\ \/ /\ status' = [status EXCEPT ![t] = "running"]
                    /\ running' = running \cup {t} /\ place' = [place EXCEPT ![t] = "queued"]
                 \/ /\ status' = [status EXCEPT ![t] = "failed"]
                    /\ UNCHANGED <<running, place>>
              /\ \A i \in queue' : Manifest[i] # t
<1>1. PICK i \in queue :
         /\ queue' = queue \ {i}
         /\ \/ /\ status' = [status EXCEPT ![Manifest[i]] = "running"]
               /\ running' = running \cup {Manifest[i]}
               /\ Submit(Manifest[i])
            \/ /\ status' = [status EXCEPT ![Manifest[i]] = "failed"]
               /\ UNCHANGED running /\ Alone
  BY DEF Launch
<1>2. i \in DOMAIN Manifest /\ Manifest[i] \in Tasks /\ Ready(Manifest[i])
  BY <1>1, ManifestIsAList DEF LoopInv, Launch
<1>3. \A j \in queue' : Manifest[j] # Manifest[i]
  BY <1>1, <1>2, BatchAssumption DEF LoopInv
<1>4. QED
  BY <1>1, <1>2, <1>3 DEF Submit, Go, Alone, runVars

LEMMA LoopStep ==
    ASSUME LoopInv, FreeInv, ReportInv, BatchInv, [Next]_vars
    PROVE  LoopInv'
<1> USE DEF LoopInv, Looping, TaskStatus, Failed
<1>0. status \in [Tasks -> TaskStatus]
  BY DEF BatchInv
<1>1. CASE Launch
  <2>1. PICK t \in Tasks :
           /\ Ready(t)
           /\ \/ /\ status' = [status EXCEPT ![t] = "running"]
                 /\ running' = running \cup {t} /\ place' = [place EXCEPT ![t] = "queued"]
              \/ /\ status' = [status EXCEPT ![t] = "failed"]
                 /\ UNCHANGED <<running, place>>
           /\ \A i \in queue' : Manifest[i] # t
    BY <1>1, LaunchStep
  <2>2. main = "launch" /\ UNCHANGED <<main, cursor>> /\ queue' \subseteq queue
    BY <1>1 DEF Launch
  <2>3. \A i \in queue' : Ready(Manifest[i])'
    <3>1. \A u \in Tasks : u # t => status'[u] = status[u]
      BY <1>0, <2>1
    <3>2. status[t] = "pending" /\ Deps \in [Tasks -> SUBSET Tasks]
      BY <2>1, BatchAssumption DEF Ready
    <3>3. QED
      BY <2>1, <2>2, <3>1, <3>2, ManifestIsAList DEF Ready
  <2>4. place' = place \/ place' = [place EXCEPT ![t] = "queued"]
    BY <2>1
  <2>5. \A u \in Tasks : status'[u] = "pending" => place'[u] = "idle"
    BY <1>0, <2>1, <2>4, TasksAreRuns DEF FreeInv
  <2>6. \A u \in running' : place'[u] # "idle"
    BY <1>0, <2>1, TasksAreRuns DEF FreeInv
  <2>7. status[t] = "pending"
    BY <2>1 DEF Ready
  <2>8. running' \subseteq Tasks /\ queue' \subseteq DOMAIN Manifest
    BY <2>1, <2>2
  <2>9. \A u \in Tasks : status'[u] = "running" <=> u \in running'
    BY <1>0, <2>1, <2>2, <2>7
  <2>10. QED
    BY <2>2, <2>3, <2>5, <2>6, <2>8, <2>9
<1>2. ASSUME ~Launch
      PROVE  LoopInv'
  <2>0. \A t \in Tasks : place'[t] = "idle" <=> place[t] = "idle"
    BY <1>2, TriesStay
  <2>1. CASE SkipOverBudget \/ SkipBlocked
    <3>1. PICK t \in Tasks : status[t] = "pending" /\ status' = [status EXCEPT ![t] = "skipped"]
      <4>1. CASE SkipOverBudget
        BY <4>1 DEF SkipOverBudget, Pending
      <4>2. CASE SkipBlocked
        <5>1. PICK i \in cursor..Len(Manifest) :
                 Blocked(i) /\ status' = [status EXCEPT ![Manifest[i]] = "skipped"]
          BY <4>2 DEF SkipBlocked, BlockedFrom
        <5>2. Manifest[i] \in Tasks
          BY <5>1, ManifestIsAList
        <5>3. QED
          BY <5>1, <5>2 DEF Blocked
      <4>3. QED
        BY <2>1, <4>1, <4>2
    <3>2. /\ UNCHANGED <<running, queue, main>> /\ main \in {"observe", "block"}
          /\ cursor' \in Nat \ {0}
      BY <2>1, ManifestIsAList DEF SkipOverBudget, SkipBlocked, BlockedFrom
    <3>3. QED
      BY <1>0, <2>0, <3>1, <3>2
  <2>2. CASE Observed \/ LaunchRaises \/ Launched \/ Collected \/ Finish
    BY <2>0, <2>2 DEF Observed, LaunchRaises, Launched, Collected, Finish
  <2>3. CASE Passed
    BY <2>0, <2>3, ToLaunchIsReady DEF Passed, Ready
  <2>4. CASE Wait
    BY <2>0, <2>4 DEF Wait, Over
  <2>5. CASE Collect \/ SignalSwallowed
    <3>1. PICK t \in completed :
             /\ completed' = completed \ {t} /\ running' = running \ {t}
             /\ \/ status' = [status EXCEPT ![t] = "failed"]
                \/ place[t] = "returned" /\ status' = [status EXCEPT ![t] = verdict[t]]
      BY <2>5 DEF Collect, SignalSwallowed
    <3>2. main = "collect" /\ UNCHANGED <<queue, main, cursor>>
      BY <2>5 DEF Collect, SignalSwallowed
    <3>3. t \in Tasks /\ t \in running
      BY <3>1, <3>2
    <3>4. place[t] = "returned" => verdict[t] \in Status
      BY <3>3, TasksAreRuns DEF ReportInv, Reports
    <3>5. QED
      BY <1>0, <2>0, <3>1, <3>2, <3>3, <3>4 DEF Status
  <2>6. CASE Signal \/ SignalLate \/ TerminateListed \/ Join \/ Abandoned
    BY <2>0, <2>6 DEF Signal, SignalLate, TerminateListed, Join, Abandoned
  <2>7. CASE Abandon
    <3>1. PICK t \in Tasks : \/ status' = [status EXCEPT ![t] = "interrupted"]
                             \/ status' = [status EXCEPT ![t] = "skipped"]
      BY <2>7 DEF Abandon
    <3>2. main = "abandon" /\ UNCHANGED <<running, queue, main, cursor>>
      BY <2>7 DEF Abandon
    <3>3. QED
      BY <1>0, <2>0, <3>1, <3>2
  <2>8. CASE UNCHANGED batchVars
    BY <2>0, <2>8 DEF batchVars, Ready
  <2>9. QED
    BY <1>2, <2>1, <2>2, <2>3, <2>4, <2>5, <2>6, <2>7, <2>8 DEF Next, MainStep, vars
<1>3. QED
  BY <1>1, <1>2

-----------------------------------------------------------------------------
(* Why a batch stalls.  The pass over the manifest leaves behind a pending   *)
(* task over a failed one only if it skipped the latter further on; and as   *)
(* long as nothing runs, either nothing was ready when it was over or a task *)
(* could not be prepared.  Some pending task depends on no other pending     *)
(* one, for there is no cycle: it is one the pass left behind.               *)
PassedUpTo(c) ==
    \A i \in DOMAIN Manifest : i < c /\ status[Manifest[i]] = "pending" =>
        \A d \in Deps[Manifest[i]] : status[d] \in Failed =>
            status[d] = "skipped" /\ \E j \in DOMAIN Manifest : i < j /\ Manifest[j] = d
Unprepared == \E t \in Tasks : status[t] = "failed" /\ place[t] = "idle"
NothingReady == \A t \in Tasks : ~Ready(t)

StallInv ==
    /\ main = "block" => PassedUpTo(cursor)
    /\ main = "launch" => Unprepared \/ PassedUpTo(Len(Manifest) + 1)
    /\ main = "launch" /\ running = {} /\ queue = {} => Unprepared \/ NothingReady
    /\ StallIsExplained

LEMMA FirstIsThere ==
    ASSUME NEW N \in Nat, NEW places \in SUBSET (1..N), places # {}, NEW n \in Nat \ {0}
    PROVE  First(n, places) # {}
<1>1. PICK i \in places : \A j \in places : i <= j
  BY LeastIndex
<1>2. {j \in places : j < i} = {}
  <2>1. places \subseteq Int
    OBVIOUS
  <2>2. \A j \in places : ~(j < i)
    BY <1>1, <2>1
  <2>3. QED
    BY <2>2
<1>3. i \in First(n, places)
  BY <1>2, FS_EmptySet DEF First
<1>4. QED
  BY <1>3

LEMMA NothingToLaunch ==
    ASSUME running = {}, ToLaunch = {}
    PROVE  NothingReady
<1> DEFINE ready == {i \in DOMAIN Manifest : Ready(Manifest[i])}
           writers == {i \in ready : SharedWriter(Manifest[i])}
           parallel == ready \ writers
<1>1. FreeSlots \in Nat \ {0}
  BY FS_EmptySet, BatchAssumption DEF FreeSlots
<1>2. writers \in SUBSET (1..Len(Manifest)) /\ parallel \in SUBSET (1..Len(Manifest))
  BY ManifestIsAList
<1>3. ToLaunch = IF parallel # {} THEN First(FreeSlots, parallel) ELSE First(1, writers)
  BY <1>1 DEF ToLaunch
<1>4. parallel = {} /\ writers = {}
  <2> HIDE DEF writers, parallel
  <2>1. parallel # {} => First(FreeSlots, parallel) # {}
    BY <1>1, <1>2, FirstIsThere, ManifestIsAList
  <2>2. writers # {} => First(1, writers) # {}
    <3>1. 1 \in Nat \ {0}
      OBVIOUS
    <3>2. QED
      BY <1>2, <3>1, FirstIsThere, ManifestIsAList
  <2>3. QED
    BY <1>3, <2>1, <2>2
<1>5. ready = {}
  BY <1>4
<1>6. QED
  BY <1>5, ManifestIsAList DEF NothingReady

LEMMA SkipStep ==
    ASSUME LoopInv, BatchInv, main = "block" => PassedUpTo(cursor), SkipBlocked
    PROVE  PassedUpTo(cursor)'
<1>1. PICK k \in BlockedFrom(cursor) :
         /\ \A j \in BlockedFrom(cursor) : k <= j
         /\ status' = [status EXCEPT ![Manifest[k]] = "skipped"]
         /\ cursor' = k + 1
  BY DEF SkipBlocked
<1>2. k \in DOMAIN Manifest /\ Manifest[k] \in Tasks /\ status \in [Tasks -> TaskStatus]
      /\ cursor \in Nat /\ main = "block"
  BY <1>1, ManifestIsAList DEF BlockedFrom, BatchInv, LoopInv, SkipBlocked
<1> SUFFICES ASSUME NEW i \in DOMAIN Manifest, i < k + 1, status'[Manifest[i]] = "pending",
                    NEW d \in Deps[Manifest[i]], status'[d] \in Failed
             PROVE  status'[d] = "skipped" /\ \E j \in DOMAIN Manifest : i < j /\ Manifest[j] = d
  BY <1>1 DEF PassedUpTo
<1>3. Manifest[i] \in Tasks /\ d \in Tasks
  BY BatchAssumption, ManifestIsAList
<1>4. i # k /\ status[Manifest[i]] = "pending" /\ i < k /\ i \in Nat /\ k \in Nat
  BY <1>1, <1>2, <1>3, ManifestIsAList
<1>5. CASE d = Manifest[k]
  BY <1>1, <1>2, <1>3, <1>4, <1>5
<1>6. CASE d # Manifest[k]
  <2>1. status'[d] = status[d] /\ Blocked(i)
    BY <1>1, <1>2, <1>3, <1>4, <1>6 DEF Blocked
  <2>2. i < cursor
    BY <1>1, <1>2, <1>4, <2>1, ManifestIsAList DEF BlockedFrom
  <2>3. QED
    BY <1>2, <1>4, <2>1, <2>2 DEF PassedUpTo
<1>7. QED
  BY <1>5, <1>6

LEMMA GivingUp ==
    ASSUME LoopInv, BatchInv, main \in Looping, running = {}, ~Settled,
           PassedUpTo(Len(Manifest) + 1), NothingReady
    PROVE  \E i, j \in DOMAIN Manifest :
              /\ i < j /\ Manifest[j] \in Deps[Manifest[i]]
              /\ status[Manifest[i]] = "pending" /\ status[Manifest[j]] = "skipped"
<1>1. \A t \in Tasks : status[t] # "running"
  BY DEF LoopInv
<1>2. Pending # {} /\ Pending \in SUBSET Tasks
  BY <1>1 DEF Settled, Pending
<1>3. PICK t \in Pending : Deps[t] \cap Pending = {}
  BY <1>2, BatchAssumption
<1>4. t \in Tasks /\ Deps[t] \subseteq Tasks /\ status[t] = "pending"
  BY <1>2, <1>3, BatchAssumption DEF Pending
<1>5. PICK d \in Deps[t] : status[d] # "succeeded"
  BY <1>4 DEF NothingReady, Ready
<1>6. status[d] \in Failed
  BY <1>1, <1>3, <1>4, <1>5 DEF BatchInv, TaskStatus, Pending
<1>7. PICK i \in DOMAIN Manifest : Manifest[i] = t
  BY <1>4, ManifestIsAList
<1>8. i < Len(Manifest) + 1
  BY ManifestIsAList
<1>9. QED
  BY <1>4, <1>5, <1>6, <1>7, <1>8 DEF PassedUpTo

LEMMA StallStep ==
    ASSUME LoopInv, FreeInv, BatchInv, StallInv, [Next]_vars
    PROVE  StallInv'
<1> USE DEF StallInv, StallIsExplained
<1>1. CASE Launch
  <2>1. PICK t \in Tasks :
           /\ Ready(t)
           /\ \/ /\ status' = [status EXCEPT ![t] = "running"]
                 /\ running' = running \cup {t} /\ place' = [place EXCEPT ![t] = "queued"]
              \/ /\ status' = [status EXCEPT ![t] = "failed"]
                 /\ UNCHANGED <<running, place>>
           /\ \A i \in queue' : Manifest[i] # t
    BY <1>1, LaunchStep
  <2>2. /\ main = "launch" /\ UNCHANGED <<main, result>> /\ result = "none"
        /\ status[t] = "pending" /\ place[t] = "idle" /\ status \in [Tasks -> TaskStatus]
        /\ place \in [Run -> Place] /\ t \in Run
    BY <1>1, <2>1, TasksAreRuns DEF Launch, Ready, LoopInv, BatchInv
  <2>3. Unprepared => Unprepared'
    BY <2>1, <2>2, BatchAssumption, TasksAreRuns DEF Unprepared
  <2>4. CASE running' = running \cup {t} /\ status' = [status EXCEPT ![t] = "running"]
    <3>1. PassedUpTo(Len(Manifest) + 1) => PassedUpTo(Len(Manifest) + 1)'
      BY <2>2, <2>4, BatchAssumption, ManifestIsAList DEF PassedUpTo, Failed
    <3>2. QED
      BY <2>2, <2>3, <2>4, <3>1
  <2>5. CASE status' = [status EXCEPT ![t] = "failed"] /\ UNCHANGED place
    <3>1. Unprepared'
      BY <2>2, <2>5 DEF Unprepared
    <3>2. QED
      BY <2>2, <3>1
  <2>6. QED
    BY <2>1, <2>4, <2>5
<1>2. ASSUME ~Launch
      PROVE  StallInv'
  <2>0. \A t \in Tasks : place'[t] = "idle" <=> place[t] = "idle"
    BY <1>2, TriesStay
  <2>1. CASE SkipBlocked
    BY <2>1, SkipStep DEF SkipBlocked, BatchInv
  <2>2. CASE Observed
    BY <2>2, ManifestIsAList DEF Observed, PassedUpTo, BatchInv
  <2>3. CASE Passed
    <3>1. /\ main = "block" /\ main' = "launch" /\ BlockedFrom(cursor) = {} /\ queue' = ToLaunch
          /\ UNCHANGED <<status, running, result>> /\ result = "none"
      BY <2>3 DEF Passed, BatchInv
    <3>2. PassedUpTo(Len(Manifest) + 1)'
      BY <3>1, ManifestIsAList DEF PassedUpTo, LoopInv, BlockedFrom, Blocked
    <3>3. running' = {} /\ queue' = {} => NothingReady'
      BY <3>1, NothingToLaunch DEF NothingReady, Ready
    <3>4. QED
      BY <3>1, <3>2, <3>3
  <2>4. CASE Launched
    <3>1. /\ main = "launch" /\ queue = {} /\ UNCHANGED <<status, running>>
          /\ main' \in {"wait", "finish", "returned"} /\ result = "none"
      BY <2>4 DEF Launched, BatchInv
    <3>2. CASE running = {} /\ ~Settled
      <4>1. Unprepared => Unprepared'
        BY <2>0, <3>1 DEF Unprepared
      <4>2. Unprepared \/ (NothingReady /\ PassedUpTo(Len(Manifest) + 1))
        BY <3>1, <3>2
      <4>3. QED
        BY <3>1, <3>2, <4>1, <4>2, GivingUp DEF Looping, Unprepared
    <3>3. CASE UNCHANGED result
      BY <3>1, <3>3
    <3>4. QED
      BY <2>4, <3>2, <3>3 DEF Launched
  <2>5. CASE \/ SkipOverBudget \/ LaunchRaises \/ Wait \/ Collect \/ Collected \/ Finish \/ TerminateListed
             \/ Join \/ Abandon \/ Abandoned \/ Signal \/ SignalSwallowed \/ SignalLate
    <3>1. main \notin {"returned"} /\ main' \notin {"block", "launch"}
      BY <2>5
      DEF SkipOverBudget, LaunchRaises, Wait, Collect, Collected, Finish, TerminateListed, Join, Abandon,
          Abandoned, Signal, SignalSwallowed, SignalLate
    <3>2. result' # "stalled"
      BY <2>5, <3>1
      DEF SkipOverBudget, LaunchRaises, Wait, Collect, Collected, Finish, TerminateListed, Join, Abandon,
          Abandoned, Signal, SignalSwallowed, SignalLate, BatchInv, Overall
    <3>3. QED
      BY <3>1, <3>2
  <2>6. CASE UNCHANGED batchVars
    BY <2>0, <2>6 DEF batchVars, Unprepared, NothingReady, PassedUpTo, Ready
  <2>7. QED
    BY <1>2, <2>1, <2>2, <2>3, <2>4, <2>5, <2>6 DEF Next, MainStep, vars
<1>3. QED
  BY <1>1, <1>2

(* A scheduler that stalls does so for one of two reasons: a task could not  *)
(* be prepared while nothing else ran, or the manifest names a task before   *)
(* one it depends on (the "batch scheduler stalled" exit of command_batch).  *)
THEOREM StallExplained == Spec => []StallIsExplained
<1>1. Init => FreeInv /\ ReportInv /\ BatchInv /\ LoopInv /\ StallInv
  <2>1. Init => StallInv
    BY DEF Init, StallInv, StallIsExplained
  <2>2. QED
    BY <2>1, FreeInit, ReportInit, BatchInit, LoopInit
<1>2. FreeInv /\ ReportInv /\ BatchInv /\ LoopInv /\ StallInv /\ [Next]_vars
        => (FreeInv /\ ReportInv /\ BatchInv /\ LoopInv /\ StallInv)'
  BY FreeStep, ReportStep, BatchStep, LoopStep, StallStep
<1>3. StallInv => StallIsExplained
  BY DEF StallInv
<1>4. QED
  BY <1>1, <1>2, <1>3, PTL DEF Spec

-----------------------------------------------------------------------------
(* The batch implements Acceptance: a launch is a try, or, where the task    *)
(* cannot be prepared, drops it; a collected run is accepted or   *)
(* dropped; what is passed over or given up is dropped; and the end of a     *)
(* batch in which everything succeeded closes the graph.                     *)
LEMMA AcceptanceStep ==
    ASSUME LoopInv, FreeInv, ReportInv, BatchInv, [Next]_vars
    PROVE  [A!Next]_(A!acceptanceVars)
<1> USE DEF Verdict, Failed, A!Next, A!acceptanceVars
<1>0. status \in [Tasks -> TaskStatus] /\ (result # "none" => main = "returned")
  BY DEF BatchInv
<1>1. CASE Launch
  <2>1. PICK t \in Tasks :
           /\ Ready(t)
           /\ \/ /\ status' = [status EXCEPT ![t] = "running"]
                 /\ running' = running \cup {t} /\ place' = [place EXCEPT ![t] = "queued"]
              \/ /\ status' = [status EXCEPT ![t] = "failed"]
                 /\ UNCHANGED <<running, place>>
           /\ \A i \in queue' : Manifest[i] # t
    BY <1>1, LaunchStep
  <2>2. /\ result = "none" /\ result' = "none" /\ status[t] = "pending" /\ place[t] = "idle"
        /\ \A d \in Deps[t] : status[d] = "succeeded" /\ d \in Tasks
        /\ place \in [Run -> Place] /\ t \in Run
    BY <1>0, <1>1, <2>1, TasksAreRuns, BatchAssumption DEF Launch, Ready, LoopInv, BatchInv
  <2>3. CASE status' = [status EXCEPT ![t] = "running"] /\ place' = [place EXCEPT ![t] = "queued"]
    <3>1. A!Try(t)
      <4>1. [u \in Tasks |-> Verdict(status'[u])] = [u \in Tasks |-> Verdict(status[u])]
        BY <1>0, <2>2, <2>3
      <4>2. [u \in Tasks |-> IF place'[u] = "idle" THEN 0 ELSE 1]
              = [[u \in Tasks |-> IF place[u] = "idle" THEN 0 ELSE 1] EXCEPT ![t] = @ + 1]
        <5>1. \A u \in Tasks : place'[u] = IF u = t THEN "queued" ELSE place[u]
          BY <2>2, <2>3, TasksAreRuns
        <5>2. [u \in Tasks |-> IF place[u] = "idle" THEN 0 ELSE 1][t] + 1 = 1
          BY <2>2
        <5>3. QED
          BY <2>2, <5>1, <5>2
      <4>3. \A d \in Deps[t] : Verdict(status[d]) = "accepted"
        BY <2>2
      <4>4. QED
        BY <2>2, <4>1, <4>2, <4>3 DEF A!Try
    <3>2. QED
      BY <2>2, <3>1
  <2>4. CASE status' = [status EXCEPT ![t] = "failed"] /\ UNCHANGED place
    <3>1. A!Drop(t)
      BY <1>0, <2>2, <2>4 DEF A!Drop
    <3>2. QED
      BY <2>2, <3>1
  <2>5. QED
    BY <2>1, <2>3, <2>4
<1>2. ASSUME ~Launch
      PROVE  [A!Next]_(A!acceptanceVars)
  <2>0. [t \in Tasks |-> IF place'[t] = "idle" THEN 0 ELSE 1]
          = [t \in Tasks |-> IF place[t] = "idle" THEN 0 ELSE 1]
    BY <1>2, TriesStay
  <2>1. ASSUME NEW t \in Tasks, status[t] \in {"pending", "running"}, result = "none",
               result' = "none", NEW s \in Failed, status' = [status EXCEPT ![t] = s]
        PROVE  [A!Next]_(A!acceptanceVars)
    <3>1. A!Drop(t)
      BY <1>0, <2>0, <2>1 DEF A!Drop
    <3>2. QED
      BY <2>1, <3>1
  <2>2. CASE SkipOverBudget
    BY <1>0, <2>1, <2>2 DEF SkipOverBudget, Pending
  <2>3. CASE SkipBlocked
    <3>1. PICK i \in cursor..Len(Manifest) :
             Blocked(i) /\ status' = [status EXCEPT ![Manifest[i]] = "skipped"]
      BY <2>3 DEF SkipBlocked, BlockedFrom
    <3>2. Manifest[i] \in Tasks
      BY <3>1, ManifestIsAList DEF LoopInv
    <3>3. QED
      BY <1>0, <2>1, <2>3, <3>1, <3>2 DEF SkipBlocked, Blocked
  <2>4. CASE Collect \/ SignalSwallowed
    <3>1. PICK t \in completed :
             \/ status' = [status EXCEPT ![t] = "failed"]
             \/ place[t] = "returned" /\ status' = [status EXCEPT ![t] = verdict[t]]
      BY <2>4 DEF Collect, SignalSwallowed
    <3>2. main = "collect" /\ result = "none" /\ result' = "none"
      BY <1>0, <2>4 DEF Collect, SignalSwallowed
    <3>3. t \in Tasks /\ status[t] = "running"
      BY <3>1, <3>2 DEF LoopInv, Looping
    <3>4. CASE place[t] = "returned" /\ status' = [status EXCEPT ![t] = "succeeded"]
      <4>1. A!Accept(t)
        <5>1. [u \in Tasks |-> Verdict(status'[u])]
                = [[u \in Tasks |-> Verdict(status[u])] EXCEPT ![t] = "accepted"]
          BY <1>0, <3>3, <3>4
        <5>2. QED
          BY <2>0, <3>2, <3>3, <3>4, <5>1 DEF A!Accept
      <4>2. QED
        BY <3>2, <3>3, <4>1
    <3>5. place[t] = "returned" => verdict[t] \in Status
      BY <3>3, TasksAreRuns DEF ReportInv, Reports
    <3>6. QED
      BY <2>1, <3>1, <3>2, <3>3, <3>4, <3>5 DEF Status
  <2>5. CASE Abandon
    <3>1. result = "none" /\ result' = "none"
      BY <1>0, <2>5 DEF Abandon
    <3>2. QED
      BY <2>1, <2>5, <3>1 DEF Abandon
  <2>6. CASE Finish
    <3>1. result = "none" /\ result' = Overall /\ UNCHANGED status
      BY <1>0, <2>6 DEF Finish
    <3>2. CASE Overall = "succeeded"
      <4>1. \E t \in Tasks : status[t] = "succeeded"
        <5>1. Manifest[1] \in Tasks
          BY ManifestIsAList
        <5>2. QED
          BY <3>2, <5>1 DEF Overall
      <4>2. A!Close
        BY <2>0, <3>1, <3>2, <4>1 DEF A!Close
      <4>3. QED
        BY <4>2
    <3>3. QED
      BY <2>0, <3>1, <3>2
  <2>7. CASE Observed \/ Passed \/ Wait \/ Collected \/ TerminateListed \/ Join \/ Signal
    BY <2>0, <2>7 DEF Observed, Passed, Wait, Collected, TerminateListed, Join, Signal
  <2>8. CASE LaunchRaises \/ Launched \/ Abandoned \/ SignalLate
    <3>1. UNCHANGED status /\ main # "returned" /\ result' # "succeeded"
      BY <1>0, <2>8 DEF LaunchRaises, Launched, Abandoned, SignalLate
    <3>2. QED
      BY <1>0, <2>0, <3>1
  <2>9. CASE UNCHANGED batchVars
    BY <2>0, <2>9 DEF batchVars
  <2>10. QED
    BY <1>2, <2>2, <2>3, <2>4, <2>5, <2>6, <2>7, <2>8, <2>9 DEF Next, MainStep, vars
<1>3. QED
  BY <1>1, <1>2

(* For every manifest, any number of workers and any other delegates beside  *)
(* it, the batch launches a task once, over dependencies that succeeded, and *)
(* takes no verdict back (command_batch).                                    *)
THEOREM BatchImplementsAcceptance == Spec => ImplementsAcceptance
<1>1. Init => A!Init
  BY TasksAreRuns, BatchAssumption DEF Init, RunInit, A!Init, Verdict, Failed
<1>2. Init => FreeInv /\ ReportInv /\ BatchInv /\ LoopInv
  BY FreeInit, ReportInit, BatchInit, LoopInit
<1>3. FreeInv /\ ReportInv /\ BatchInv /\ LoopInv /\ [Next]_vars
        => (FreeInv /\ ReportInv /\ BatchInv /\ LoopInv)'
  BY FreeStep, ReportStep, BatchStep, LoopStep
<1>4. QED
  BY <1>1, <1>2, <1>3, AcceptanceStep, PTL DEF Spec, ImplementsAcceptance, A!Spec

=============================================================================
