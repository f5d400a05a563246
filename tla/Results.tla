------------------------------- MODULE Results -------------------------------
(***************************************************************************)
(* How a read-only agent task comes by its result: the result cache that   *)
(* the workflows of a directory share (cache.py), the gates every result   *)
(* passes (gates.py), the class of a failed attempt (retry.py) and the way *)
(* the runtime ties them together (workflow.py: _try_cache, the launch,    *)
(* _run_one and the collection of its outcome).                            *)
(*                                                                         *)
(* Each workflow has one such task, and all of them ask for the same work: *)
(* a fingerprint tells apart only the version of the inputs it was taken   *)
(* of. A digest stands for the bytes it was taken of. A variable of a task *)
(* is kept until the code reads it for the last time.                      *)
(***************************************************************************)
EXTENDS Naturals, Sequences, FiniteSets

CONSTANTS
    Workflow,
    Inputs,       \* versions of what a fingerprint covers: spec, commit, AGENTS.md, dependencies
    Checks,       \* the node's checks, in their order
    MaxAttempts,  \* its max_attempts
    Silent        \* may a worker exit with 0 and leave its -o file unwritten?

NoKey == "none"

ASSUME ResultsAssumption ==
    /\ NoKey \notin Workflow
    /\ Checks \in Seq({"command", "diff_scope", "approval"})
    /\ MaxAttempts \in Nat \ {0}
    /\ Silent \in BOOLEAN

VARIABLES
    inputs,    \* the version on disk now
    text,      \* <fingerprint>.result.json
    meta,      \* the digest in <fingerprint>.json
    step,      \* where the task of each workflow is
    looked,    \* the fingerprint _try_cache works with
    key,       \* _cache_fingerprints
    digest,    \* the digest get read
    seen,      \* the result get read
    attempt,
    making,    \* the result the worker writes when it succeeds
    draft,     \* attempt-<n>/result.json of the attempt that runs or comes next
    answer,    \* the result the gates judge, which the task records
    gates,     \* their outcomes
    failure,   \* the failure_class it ends with
    copy       \* tasks/<task>/result.json, which dependents read

vars == <<inputs, text, meta, step, looked, key, digest, seen, attempt, making,
          draft, answer, gates, failure, copy>>
cacheVars == <<text, meta>>
readVars == <<looked, digest, seen>>
runVars == <<attempt, making, draft, answer, gates, failure, copy>>

None == [kind |-> "none"]
Junk == [kind |-> "junk"]            \* a file damaged on disk that still parses
Malformed == [kind |-> "malformed"]  \* a result that is missing or does not match the schema
Made(version, blind, w) ==
    [kind |-> "made", from |-> version, blind |-> blind, by |-> w]
\* the result a workflow that is over has left in the cache
Earlier(k) == Made(k, FALSE, NoKey)

Init ==
    /\ inputs \in Inputs
    /\ text \in {[k \in Inputs |-> IF k \in kept THEN Earlier(k) ELSE None] : kept \in {{}, {inputs}}}
    /\ meta = text
    /\ step = [w \in Workflow |-> "ready"]
    /\ looked = [w \in Workflow |-> NoKey] /\ key = [w \in Workflow |-> NoKey]
    /\ digest = [w \in Workflow |-> None] /\ seen = [w \in Workflow |-> None]
    /\ attempt = [w \in Workflow |-> 0]
    /\ making = [w \in Workflow |-> None] /\ draft = [w \in Workflow |-> None]
    /\ answer = [w \in Workflow |-> None] /\ copy = [w \in Workflow |-> None]
    /\ gates = [w \in Workflow |-> << >>]
    /\ failure = [w \in Workflow |-> "none"]

Go(w, there) == step' = [step EXCEPT ![w] = there]
Forget(w) ==
    /\ looked' = [looked EXCEPT ![w] = NoKey]
    /\ digest' = [digest EXCEPT ![w] = None]
    /\ seen' = [seen EXCEPT ![w] = None]

-----------------------------------------------------------------------------
(* The gates. *)

\* how the node's checks can turn out: nothing in the runtime grants an approval
Turnouts == {p \in [1..Len(Checks) -> BOOLEAN] :
                \A i \in 1..Len(Checks) : Checks[i] = "approval" => ~p[i]}

Gate(type, ok) == [type |-> type, ok |-> ok]
SchemaGate(result) == <<Gate("result_schema", result # Malformed)>>

\* a mutant, for FailureNamesItsGate: the checks go on after one that rejects
RunEveryCheck(result, passes) ==
    IF result = Malformed
    THEN SchemaGate(result)
    ELSE SchemaGate(result) \o [i \in 1..Len(Checks) |-> Gate(Checks[i], passes[i])]

RunChecks(result, passes) ==
    LET stop == CHOOSE n \in 0..Len(Checks) :
                    /\ \A i \in 1..(n - 1) : passes[i]
                    /\ n < Len(Checks) => n > 0 /\ ~passes[n]
    IN IF result = Malformed \/ Checks = << >>
       THEN SchemaGate(result)
       ELSE SchemaGate(result) \o [i \in 1..stop |-> Gate(Checks[i], passes[i])]

Accepted(outcomes) == \A i \in 1..Len(outcomes) : outcomes[i].ok
Rejecting(outcomes) == {outcomes[i].type : i \in {j \in 1..Len(outcomes) : ~outcomes[j].ok}}

ClassOf(outcomes) ==
    CASE "transport" \in Rejecting(outcomes) -> "transport"
      [] "result_schema" \in Rejecting(outcomes) -> "invalid_result"
      [] "diff_scope" \in Rejecting(outcomes) -> "scope"
      [] "approval" \in Rejecting(outcomes) -> "integration"
      [] OTHER -> "verification"

-----------------------------------------------------------------------------
(* _try_cache. *)

\* the fingerprint is taken, or one of the files it covers cannot be read
Look(w) ==
    /\ step[w] = "ready"
    /\ \/ Go(w, "metadata") /\ looked' = [looked EXCEPT ![w] = inputs]
       \/ Go(w, "launching") /\ UNCHANGED looked
    /\ UNCHANGED <<inputs, cacheVars, key, digest, seen, runVars>>

Miss(w) ==
    /\ Go(w, "launching")
    /\ key' = [key EXCEPT ![w] = looked[w]]
    /\ Forget(w)

\* get reads the metadata, then the result, then the result once more for its digest
ReadMetadata(w) ==
    /\ step[w] = "metadata"
    /\ IF meta[looked[w]] = None \/ text[looked[w]] = None
       THEN Miss(w)
       ELSE /\ Go(w, "result")
            /\ digest' = [digest EXCEPT ![w] = meta[looked[w]]]
            /\ UNCHANGED <<looked, key, seen>>
    /\ UNCHANGED <<inputs, cacheVars, runVars>>

ReadResult(w) ==
    /\ step[w] = "result"
    /\ IF text[looked[w]] = None
       THEN Miss(w)
       ELSE /\ Go(w, "rehashing")
            /\ seen' = [seen EXCEPT ![w] = text[looked[w]]]
            /\ UNCHANGED <<looked, key, digest>>
    /\ UNCHANGED <<inputs, cacheVars, runVars>>

\* a hit is written to the task before its gates have seen it
Serve(w) ==
    /\ Go(w, "served")
    /\ draft' = [draft EXCEPT ![w] = seen[w]]
    /\ copy' = [copy EXCEPT ![w] = seen[w]]
    /\ UNCHANGED <<readVars, key>>

Rehash(w) ==
    /\ step[w] = "rehashing"
    /\ IF text[looked[w]] = digest[w]
       THEN Serve(w)
       ELSE Miss(w) /\ UNCHANGED <<draft, copy>>
    /\ UNCHANGED <<inputs, cacheVars, attempt, making, answer, gates, failure>>

\* the gates and the task_completed hook decide: the task is accepted with
\* the result, or the task is launched after all
CheckHit(w) ==
    /\ step[w] = "served"
    /\ \E passes \in Turnouts, allowed \in BOOLEAN :
          LET outcomes == RunChecks(seen[w], passes) IN
          IF Accepted(outcomes) /\ allowed
          THEN /\ Go(w, "accepted")
               /\ answer' = [answer EXCEPT ![w] = seen[w]]
               /\ gates' = [gates EXCEPT ![w] = outcomes]
               /\ attempt' = [attempt EXCEPT ![w] = @ + 1]
               /\ draft' = [draft EXCEPT ![w] = None]
          ELSE Go(w, "launching") /\ UNCHANGED <<answer, gates, attempt, draft>>
    /\ Forget(w)
    /\ UNCHANGED <<inputs, cacheVars, key, making, failure, copy>>

-----------------------------------------------------------------------------
(* The run of a worker. *)

\* a mutant, for HitIsGenuine: the fingerprint _try_cache took is kept
LaunchAsLooked(w) ==
    /\ step[w] = "launching"
    /\ Go(w, "running")
    /\ attempt' = [attempt EXCEPT ![w] = @ + 1]
    /\ making' = [making EXCEPT ![w] = Made(inputs, FALSE, w)]
    /\ UNCHANGED <<inputs, cacheVars, readVars, key, draft, answer, gates, failure, copy>>

\* the fingerprint is taken anew; when it cannot be, the one of an earlier
\* look or attempt stays, and the run is blind
Launch(w) ==
    /\ step[w] = "launching"
    /\ Go(w, "running")
    /\ attempt' = [attempt EXCEPT ![w] = @ + 1]
    /\ \E blind \in BOOLEAN :
          /\ key' = IF blind THEN key ELSE [key EXCEPT ![w] = inputs]
          /\ making' = [making EXCEPT ![w] = Made(inputs, blind, w)]
    /\ UNCHANGED <<inputs, cacheVars, readVars, draft, answer, gates, failure, copy>>

\* what the attempt's result.json holds when the worker exits with 0
Drafts(w) == {making[w], Malformed} \cup
             (IF Silent THEN {IF draft[w] = None THEN Malformed ELSE draft[w]} ELSE {})

\* _run_one: the worker ends and the gates judge what it wrote
Finish(w) ==
    /\ step[w] = "running"
    /\ Go(w, "collecting")
    /\ \/ \E result \in Drafts(w), passes \in Turnouts :
             /\ draft' = [draft EXCEPT ![w] = result]
             /\ answer' = [answer EXCEPT ![w] = result]
             /\ gates' = [gates EXCEPT ![w] = RunChecks(result, passes)]
       \/ /\ gates' \in {[gates EXCEPT ![w] = <<Gate(why, FALSE)>>] : why \in {"budget", "transport"}}
          /\ UNCHANGED <<draft, answer>>
    /\ making' = [making EXCEPT ![w] = None]
    /\ UNCHANGED <<inputs, cacheVars, readVars, key, attempt, failure, copy>>

\* a rejected task is retried, in a directory of its own, or is not
Retry(w) ==
    \/ /\ attempt[w] < MaxAttempts
       /\ Go(w, "ready")
       /\ gates' = [gates EXCEPT ![w] = << >>]
       /\ UNCHANGED failure
    \/ /\ Go(w, "rejected")
       /\ failure' = [failure EXCEPT ![w] = ClassOf(gates[w])]
       /\ UNCHANGED gates

\* a mutant, for AcceptedIsServed: tasks/<task>/result.json is not replaced
KeepCopy(w) == copy' = copy

TakeCopy(w) == copy' = [copy EXCEPT ![w] = draft[w]]

\* the main loop: accept and go on to the cache, or reject and perhaps retry
Collect(w) ==
    /\ step[w] = "collecting"
    /\ \/ /\ Rejecting(gates[w]) = {"budget"}
          /\ Go(w, "budget_exhausted")
          /\ failure' = [failure EXCEPT ![w] = "budget"]
          /\ UNCHANGED <<answer, gates, copy>>
       \/ /\ Accepted(gates[w])
          /\ \/ Go(w, IF key[w] = NoKey THEN "accepted" ELSE "putting") /\ TakeCopy(w)
             \/ Go(w, "blocked_by_hook") /\ UNCHANGED copy
          /\ UNCHANGED <<answer, gates, failure>>
       \/ /\ ~Accepted(gates[w]) /\ Rejecting(gates[w]) # {"budget"}
          /\ Retry(w)
          /\ answer' = [answer EXCEPT ![w] = None]
          /\ UNCHANGED copy
    /\ draft' = [draft EXCEPT ![w] = None]
    /\ UNCHANGED <<inputs, cacheVars, readVars, key, attempt, making>>

\* put: the result first, then the metadata; either write may fail
PutResult(w) ==
    /\ step[w] = "putting"
    /\ \/ Go(w, "sealing") /\ text' = [text EXCEPT ![key[w]] = answer[w]]
       \/ Go(w, "accepted") /\ UNCHANGED text
    /\ UNCHANGED <<inputs, meta, readVars, key, runVars>>

PutMetadata(w) ==
    /\ step[w] = "sealing"
    /\ Go(w, "accepted")
    /\ \/ meta' = [meta EXCEPT ![key[w]] = answer[w]]
       \/ UNCHANGED meta
    /\ key' = [key EXCEPT ![w] = NoKey]
    /\ UNCHANGED <<inputs, text, readVars, runVars>>

-----------------------------------------------------------------------------
(* Around them. *)

\* the runtime dies: a task that ran is retried by the next one or ends, and
\* the fingerprints it had in memory are gone
Crash(w) ==
    /\ step[w] \notin {"accepted", "rejected", "budget_exhausted", "blocked_by_hook", "interrupted"}
    /\ key' = [key EXCEPT ![w] = NoKey]
    /\ Forget(w)
    /\ IF step[w] \in {"running", "collecting"}
       THEN /\ \/ attempt[w] < MaxAttempts /\ Go(w, "ready")
               \/ Go(w, "interrupted")
            /\ draft' = [draft EXCEPT ![w] = None]
            /\ making' = [making EXCEPT ![w] = None]
            /\ answer' = [answer EXCEPT ![w] = None]
            /\ gates' = [gates EXCEPT ![w] = << >>]
       ELSE /\ Go(w, IF step[w] \in {"putting", "sealing"} THEN "accepted" ELSE "ready")
            /\ UNCHANGED <<draft, making, answer, gates>>
    /\ UNCHANGED <<inputs, cacheVars, attempt, failure, copy>>

\* the user edits what the fingerprints cover
Edit ==
    /\ \E version \in Inputs \ {inputs} : inputs' = version
    /\ UNCHANGED <<cacheVars, step, readVars, key, runVars>>

\* a result of the cache is damaged
Damage(k) ==
    /\ text[k] # None
    /\ text' = [text EXCEPT ![k] = Junk]
    /\ UNCHANGED <<inputs, meta, step, readVars, key, runVars>>

Runtime(w) ==
    \/ Look(w) \/ ReadMetadata(w) \/ ReadResult(w) \/ Rehash(w) \/ CheckHit(w)
    \/ Launch(w) \/ Finish(w) \/ Collect(w) \/ PutResult(w) \/ PutMetadata(w)

Next ==
    \/ \E w \in Workflow : Runtime(w) \/ Crash(w)
    \/ \E k \in Inputs : Damage(k)
    \/ Edit

Spec == Init /\ [][Next]_vars

-----------------------------------------------------------------------------
(* Properties. *)

\* A result of the cache is returned for a fingerprint only when a worker that
\* was launched with inputs of that fingerprint made it and its own workflow has
\* accepted it, however the writes of other workflows, edits of the inputs and
\* damage to the files fall between the reads of get.  A run whose fingerprint
\* could not be taken (workflow.py:772) is the one exception the code makes.
Genuine(result, k) ==
    /\ result.kind = "made"
    /\ result.blind \/ result.from = k
Vouched(result) ==
    result.by \in Workflow => step[result.by] = "accepted" /\ answer[result.by] = result
HitIsGenuine ==
    \A w \in Workflow : step[w] = "served" =>
        Genuine(seen[w], looked[w]) /\ Vouched(seen[w])

\* What the dependents of an accepted task read in tasks/<task>/result.json is
\* the result the task has recorded and its own gates have passed, though a
\* cached result that the gates then refused may have been written there first.
AcceptedIsServed ==
    \A w \in Workflow : step[w] \in {"putting", "sealing", "accepted"} =>
        /\ copy[w] = answer[w]
        /\ Accepted(gates[w])
        /\ Len(gates[w]) = Len(Checks) + 1

\* The class a retry policy goes by names the check that stopped the attempt,
\* the first that rejected it, and no later one.
ClassOfCheck(type) ==
    CASE type = "transport" -> "transport"
      [] type = "result_schema" -> "invalid_result"
      [] type = "diff_scope" -> "scope"
      [] type = "approval" -> "integration"
      [] type = "command" -> "verification"
FirstRejecting(outcomes) ==
    outcomes[CHOOSE i \in 1..Len(outcomes) : ~outcomes[i].ok /\ \A j \in 1..(i - 1) : outcomes[j].ok]
FailureNamesItsGate ==
    \A w \in Workflow : step[w] = "rejected" =>
        failure[w] = ClassOfCheck(FirstRejecting(gates[w]).type)

=============================================================================
