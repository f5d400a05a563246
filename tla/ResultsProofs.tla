---------------------------- MODULE ResultsProofs ----------------------------
(***************************************************************************)
(* Proofs about the result cache and the gates (module Results), for every *)
(* number of workflows, versions of the inputs, checks and attempts; what  *)
(* concerns the cache, as long as a worker that exits with 0 has written   *)
(* its result.                                                             *)
(*                                                                         *)
(* The digest on disk is always that of a genuine result.  What get read   *)
(* is that result, or the file does not hold it any more, and then it      *)
(* never will again: who writes a result to the cache has not vouched for  *)
(* it yet.                                                                 *)
(***************************************************************************)
EXTENDS Results, WellFoundedInduction, TLAPS

\* a non-empty set of numbers of an interval has a least one
LEMMA LeastIndex ==
    ASSUME NEW N \in Nat, NEW S \in SUBSET (1..N), S # {}
    PROVE  \E x \in S : \A y \in S : x <= y
<1> DEFINE Less == OpToRel(<, Nat)
<1>1. S \subseteq Nat
  OBVIOUS
<1>2. \A x, y \in S : y < x => <<y, x>> \in Less
  BY <1>1 DEF OpToRel
<1>3. IsWellFoundedOn(Less, Nat)
  BY NatLessThanWellFounded
<1> HIDE DEF Less
<1>4. PICK x \in S : \A y \in S : ~(<<y, x>> \in Less)
  BY <1>1, <1>3, WFMin
<1>5. \A y \in S : ~(y < x)
  BY <1>2, <1>4
<1>6. QED
  BY <1>1, <1>5

\* the result of the attempt that runs, made with the inputs of its fingerprint
Own(w, result) ==
    /\ Genuine(result, key[w])
    /\ result.by = w

TypeInv ==
    /\ inputs \in Inputs
    /\ DOMAIN step = Workflow
    /\ DOMAIN text = Inputs /\ DOMAIN meta = Inputs
    /\ DOMAIN looked = Workflow /\ DOMAIN key = Workflow /\ DOMAIN digest = Workflow
    /\ DOMAIN seen = Workflow /\ DOMAIN making = Workflow /\ DOMAIN answer = Workflow
    /\ DOMAIN gates = Workflow

MetaInv ==
    \A k \in Inputs : meta[k] # None => Genuine(meta[k], k) /\ Vouched(meta[k])

Reads(w) ==
    /\ step[w] \in {"metadata", "result", "rehashing", "served"} => looked[w] \in Inputs
    /\ step[w] \in {"result", "rehashing"} => Genuine(digest[w], looked[w]) /\ Vouched(digest[w])
    /\ step[w] = "rehashing" => seen[w] = digest[w] \/ text[looked[w]] # digest[w]
    /\ step[w] = "served" => Genuine(seen[w], looked[w]) /\ Vouched(seen[w])

Runs(w) ==
    /\ step[w] = "running" => Own(w, making[w])
    /\ step[w] = "collecting" /\ Accepted(gates[w]) => Own(w, answer[w])
    /\ step[w] \in {"putting", "sealing"} => Own(w, answer[w])

CacheInv == TypeInv /\ MetaInv /\ \A w \in Workflow : Reads(w) /\ Runs(w)

LEMMA CacheInit ==
    ASSUME Init
    PROVE  CacheInv
<1> USE DEF Init
<1>1. TypeInv
  <2>1. PICK kept \in {{}, {inputs}} :
           text = [j \in Inputs |-> IF j \in kept THEN Earlier(j) ELSE None]
    OBVIOUS
  <2>2. DOMAIN text = Inputs /\ DOMAIN meta = Inputs
    <3>1. DOMAIN text = Inputs
      BY <2>1, Zenon
    <3>2. QED
      BY <3>1
  <2>3. inputs \in Inputs /\ DOMAIN step = Workflow
    OBVIOUS
  <2>4. DOMAIN looked = Workflow /\ DOMAIN key = Workflow /\ DOMAIN digest = Workflow
    OBVIOUS
  <2>5. DOMAIN seen = Workflow /\ DOMAIN making = Workflow
    OBVIOUS
  <2>6. DOMAIN answer = Workflow /\ DOMAIN gates = Workflow
    OBVIOUS
  <2>7. QED
    BY <2>2, <2>3, <2>4, <2>5, <2>6, Zenon DEF TypeInv
<1>2. MetaInv
  <2> SUFFICES ASSUME NEW k \in Inputs, meta[k] # None
               PROVE  Genuine(meta[k], k) /\ Vouched(meta[k])
    BY DEF MetaInv
  <2>1. meta[k] = Earlier(k)
    <3>1. PICK kept \in {{}, {inputs}} :
             text = [j \in Inputs |-> IF j \in kept THEN Earlier(j) ELSE None]
      OBVIOUS
    <3>2. meta = text
      OBVIOUS
    <3>3. QED
      BY <3>1, <3>2, Zenon
  <2>2. /\ Earlier(k).kind = "made" /\ Earlier(k).from = k /\ Earlier(k).by = NoKey
    BY DEF Earlier, Made
  <2>3. NoKey \notin Workflow
    BY ResultsAssumption
  <2>4. Genuine(meta[k], k)
    BY <2>1, <2>2 DEF Genuine
  <2>5. Vouched(meta[k])
    BY <2>1, <2>2, <2>3 DEF Vouched
  <2>6. QED
    BY <2>4, <2>5
<1>3. \A w \in Workflow : Reads(w) /\ Runs(w)
  BY DEF Reads, Runs
<1>4. QED
  BY <1>1, <1>2, <1>3 DEF CacheInv

-----------------------------------------------------------------------------
(* A step leaves the domains of the functions as they are, and a malformed  *)
(* result never gets past the gates.                                        *)

LEMMA TypeStep ==
    ASSUME TypeInv, [Next]_vars
    PROVE  TypeInv'
<1> USE DEF TypeInv, Go, Forget, Miss, Serve, cacheVars, readVars, runVars
<1>1. CASE UNCHANGED vars
  BY <1>1 DEF vars
<1>2. CASE Edit \/ \E k \in Inputs : Damage(k)
  BY <1>2 DEF Edit, Damage
<1>3. ASSUME NEW w \in Workflow, Look(w) \/ ReadMetadata(w) \/ ReadResult(w) \/ Rehash(w)
      PROVE  TypeInv'
  BY <1>3 DEF Look, ReadMetadata, ReadResult, Rehash
<1>4. ASSUME NEW w \in Workflow, CheckHit(w)
      PROVE  TypeInv'
  BY <1>4 DEF CheckHit
<1>5. ASSUME NEW w \in Workflow, Launch(w)
      PROVE  TypeInv'
  BY <1>5 DEF Launch
<1>6. ASSUME NEW w \in Workflow, Finish(w)
      PROVE  TypeInv'
  BY <1>6 DEF Finish
<1>7. ASSUME NEW w \in Workflow, Collect(w)
      PROVE  TypeInv'
  BY <1>7 DEF Collect, Retry, TakeCopy
<1>8. ASSUME NEW w \in Workflow, PutResult(w) \/ PutMetadata(w)
      PROVE  TypeInv'
  BY <1>8 DEF PutResult, PutMetadata
<1>9. ASSUME NEW w \in Workflow, Crash(w)
      PROVE  TypeInv'
  BY <1>9 DEF Crash
<1>10. QED
  BY <1>1, <1>2, <1>3, <1>4, <1>5, <1>6, <1>7, <1>8, <1>9 DEF Next, Runtime

LEMMA MalformedIsRejected ==
    ASSUME NEW passes
    PROVE  ~Accepted(RunChecks(Malformed, passes))
<1>1. RunChecks(Malformed, passes) = <<[type |-> "result_schema", ok |-> FALSE]>>
  BY DEF RunChecks, SchemaGate, Gate
<1>2. QED
  BY <1>1 DEF Accepted

\* What a workflow does changes nothing of another one's.
LEMMA Frame ==
    ASSUME TypeInv, NEW w \in Workflow, Runtime(w) \/ Crash(w), NEW v \in Workflow, v # w
    PROVE  /\ step'[v] = step[v] /\ looked'[v] = looked[v] /\ key'[v] = key[v]
           /\ digest'[v] = digest[v] /\ seen'[v] = seen[v] /\ making'[v] = making[v]
           /\ answer'[v] = answer[v] /\ gates'[v] = gates[v]
<1> USE DEF TypeInv, Go, Miss, Forget, Serve, readVars, runVars
<1>1. CASE Look(w)
  BY <1>1 DEF Look
<1>2. CASE ReadMetadata(w) \/ ReadResult(w)
  BY <1>2 DEF ReadMetadata, ReadResult
<1>3. CASE Rehash(w)
  BY <1>3 DEF Rehash
<1>4. CASE CheckHit(w)
  BY <1>4 DEF CheckHit
<1>5. CASE Launch(w)
  BY <1>5 DEF Launch
<1>6. CASE Finish(w)
  BY <1>6 DEF Finish
<1>7. CASE Collect(w)
  BY <1>7 DEF Collect, Retry
<1>8. CASE PutResult(w) \/ PutMetadata(w)
  BY <1>8 DEF PutResult, PutMetadata
<1>9. CASE Crash(w)
  BY <1>9 DEF Crash
<1>10. QED
  BY <1>1, <1>2, <1>3, <1>4, <1>5, <1>6, <1>7, <1>8, <1>9 DEF Runtime

\* A workflow that has accepted a result stands by it.
LEMMA VouchedStep ==
    ASSUME TypeInv, [Next]_vars
    PROVE  \A x : Vouched(x) => Vouched(x)'
<1> SUFFICES ASSUME NEW x, Vouched(x), x.by \in Workflow
             PROVE  step'[x.by] = "accepted" /\ answer'[x.by] = x
  BY DEF Vouched
<1>1. step[x.by] = "accepted" /\ answer[x.by] = x
  BY DEF Vouched
<1>2. CASE \E w \in Workflow : Runtime(w) \/ Crash(w)
  <2>1. PICK w \in Workflow : Runtime(w) \/ Crash(w)
    BY <1>2
  <2>2. step[w] # "accepted"
    BY <2>1 DEF Runtime, Look, ReadMetadata, ReadResult, Rehash, CheckHit, Launch, Finish,
       Collect, PutResult, PutMetadata, Crash
  <2>3. QED
    BY <1>1, <2>1, <2>2, Frame
<1>3. QED
  BY <1>1, <1>2 DEF Next, vars, Edit, Damage, runVars

-----------------------------------------------------------------------------
(* The steps of one workflow keep its own invariants. *)

LEMMA MetaStep ==
    ASSUME CacheInv, [Next]_vars
    PROVE  MetaInv'
<1>1. \A x : Vouched(x) => Vouched(x)'
  BY VouchedStep DEF CacheInv
<1>2. CASE meta' = meta
  BY <1>1, <1>2 DEF CacheInv, MetaInv, Genuine, Vouched
<1>3. ASSUME NEW w \in Workflow, PutMetadata(w), meta' # meta
      PROVE  MetaInv'
  <2>1. meta' = [meta EXCEPT ![key[w]] = answer[w]]
    BY <1>3 DEF PutMetadata
  <2>2. Genuine(answer[w], key[w]) /\ answer[w].by = w
    BY <1>3 DEF CacheInv, Runs, Own, PutMetadata
  <2>3. answer' = answer /\ step' = [step EXCEPT ![w] = "accepted"]
    BY <1>3 DEF PutMetadata, Go, runVars, CacheInv, TypeInv
  <2>4. \A y : y = answer[w] => Vouched(y)'
    BY <2>2, <2>3 DEF Vouched, CacheInv, TypeInv
  <2>5. QED
    BY <1>1, <2>1, <2>2, <2>4 DEF CacheInv, TypeInv, MetaInv, Genuine, Vouched
<1>4. QED
  BY <1>2, <1>3 DEF Next, Runtime, vars, Edit, Damage, Look, ReadMetadata, ReadResult, Rehash,
     CheckHit, Launch, Finish, Collect, PutResult, Crash, cacheVars

LEMMA RunsStep ==
    ASSUME ~Silent, CacheInv, NEW w \in Workflow, Runtime(w) \/ Crash(w)
    PROVE  Runs(w)'
<1> USE DEF CacheInv, TypeInv, Runs, Go, Miss, Forget, Serve, runVars
<1>1. CASE Look(w) \/ ReadMetadata(w) \/ ReadResult(w) \/ Rehash(w)
  BY <1>1 DEF Look, ReadMetadata, ReadResult, Rehash
<1>2. CASE CheckHit(w)
  BY <1>2 DEF CheckHit
<1>3. CASE Launch(w)
  <2>1. PICK blind \in BOOLEAN :
           /\ key' = IF blind THEN key ELSE [key EXCEPT ![w] = inputs]
           /\ making' = [making EXCEPT ![w] = Made(inputs, blind, w)]
    BY <1>3 DEF Launch
  <2>2. step'[w] = "running"
    BY <1>3 DEF Launch
  <2>3. Own(w, making[w])'
    BY <2>1, <2>2 DEF Own, Genuine, Made
  <2>4. QED
    BY <2>2, <2>3
<1>4. CASE Finish(w)
  <2>1. step'[w] = "collecting" /\ key' = key
    BY <1>4 DEF Finish
  <2>2. ASSUME NEW result \in Drafts(w), NEW passes \in Turnouts,
               answer' = [answer EXCEPT ![w] = result],
               gates' = [gates EXCEPT ![w] = RunChecks(result, passes)]
        PROVE  Accepted(gates'[w]) => Own(w, answer[w])'
    <3>1. answer'[w] = result /\ gates'[w] = RunChecks(result, passes)
      BY <2>2
    <3>2. CASE result = Malformed
      BY <3>1, <3>2, MalformedIsRejected
    <3>3. CASE result = making[w]
      BY <3>1, <3>3, <1>4, <2>1 DEF Finish, Own, Genuine
    <3>4. QED
      BY <3>2, <3>3 DEF Drafts
  <2>3. ASSUME NEW why \in {"budget", "transport"},
               gates' = [gates EXCEPT ![w] = <<Gate(why, FALSE)>>]
        PROVE  ~Accepted(gates'[w])
    BY <2>3 DEF Accepted, Gate
  <2>4. QED
    BY <1>4, <2>1, <2>2, <2>3 DEF Finish
<1>5. CASE Collect(w)
  BY <1>5 DEF Collect, Retry, Own, Genuine
<1>6. CASE PutResult(w) \/ PutMetadata(w)
  BY <1>6 DEF PutResult, PutMetadata, Own, Genuine
<1>7. CASE Crash(w)
  BY <1>7 DEF Crash
<1>8. QED
  BY <1>1, <1>2, <1>3, <1>4, <1>5, <1>6, <1>7 DEF Runtime

LEMMA ReadsStep ==
    ASSUME CacheInv, NEW w \in Workflow, Runtime(w) \/ Crash(w), \A x : Vouched(x) => Vouched(x)'
    PROVE  Reads(w)'
<1> USE DEF CacheInv, TypeInv, Reads, Go, Miss, Forget, cacheVars, runVars, readVars
<1>1. CASE Look(w)
  BY <1>1 DEF Look
<1>2. CASE ReadMetadata(w)
  BY <1>2 DEF ReadMetadata, MetaInv, Genuine, Vouched
<1>3. CASE ReadResult(w)
  BY <1>3 DEF ReadResult, Genuine, Vouched
<1>4. CASE Rehash(w)
  BY <1>4 DEF Rehash, Serve, Genuine
<1>5. CASE CheckHit(w) \/ Launch(w) \/ Finish(w) \/ Collect(w)
  <2>1. PICK there \in {"accepted", "launching", "running", "collecting", "budget_exhausted",
                        "putting", "blocked_by_hook", "ready", "rejected"} : Go(w, there)
    BY <1>5 DEF CheckHit, Launch, Finish, Collect, Retry
  <2>2. QED
    BY <2>1
<1>6. CASE PutResult(w) \/ PutMetadata(w) \/ Crash(w)
  BY <1>6 DEF PutResult, PutMetadata, Crash
<1>7. QED
  BY <1>1, <1>2, <1>3, <1>4, <1>5, <1>6 DEF Runtime

\* What a workflow does changes nothing for another one, but for the results
\* it puts in the cache, and those are no result that was read before.
LEMMA OthersStep ==
    ASSUME CacheInv, NEW w \in Workflow, Runtime(w) \/ Crash(w), \A x : Vouched(x) => Vouched(x)',
           NEW v \in Workflow, v # w
    PROVE  Reads(v)' /\ Runs(v)'
<1>1. /\ step'[v] = step[v] /\ looked'[v] = looked[v] /\ key'[v] = key[v]
      /\ digest'[v] = digest[v] /\ seen'[v] = seen[v] /\ making'[v] = making[v]
      /\ answer'[v] = answer[v] /\ gates'[v] = gates[v]
  BY Frame DEF CacheInv
<1>2. Runs(v)'
  BY <1>1 DEF CacheInv, Runs, Own, Genuine
<1>3. step[v] = "rehashing" => seen[v] = digest[v] \/ text'[looked[v]] # digest[v]
  <2>1. CASE text' = text
    BY <2>1 DEF CacheInv, Reads
  <2>2. CASE step[w] = "putting" /\ text' = [text EXCEPT ![key[w]] = answer[w]]
    <3>1. answer[w].by = w
      BY <2>2 DEF CacheInv, Runs, Own
    <3>2. step[v] = "rehashing" => digest[v].by # w
      BY <2>2 DEF CacheInv, Reads, Vouched
    <3>3. QED
      BY <2>2, <3>1, <3>2 DEF CacheInv, TypeInv, Reads
  <2>3. QED
    BY <2>1, <2>2 DEF Runtime, Look, ReadMetadata, ReadResult, Rehash, CheckHit, Launch,
       Finish, Collect, PutResult, PutMetadata, Crash, cacheVars
<1>4. Reads(v)'
  BY <1>1, <1>3 DEF CacheInv, Reads, Genuine, Vouched
<1>5. QED
  BY <1>2, <1>4

LEMMA CacheStep ==
    ASSUME ~Silent, CacheInv, [Next]_vars
    PROVE  CacheInv'
<1>1. TypeInv' /\ MetaInv'
  BY TypeStep, MetaStep DEF CacheInv
<1>2. \A x : Vouched(x) => Vouched(x)'
  BY VouchedStep DEF CacheInv
<1>3. SUFFICES ASSUME NEW v \in Workflow PROVE Reads(v)' /\ Runs(v)'
  BY <1>1 DEF CacheInv
<1>4. CASE \E w \in Workflow : Runtime(w) \/ Crash(w)
  BY <1>2, <1>4, ReadsStep, RunsStep, OthersStep
<1>5. CASE Edit \/ UNCHANGED vars
  BY <1>2, <1>5 DEF CacheInv, Reads, Runs, Own, Genuine, Vouched, Edit, vars, cacheVars, readVars, runVars
<1>6. CASE \E k \in Inputs : Damage(k)
  <2>1. PICK k \in Inputs : text' = [text EXCEPT ![k] = Junk]
    BY <1>6 DEF Damage
  <2>2. /\ UNCHANGED <<step, readVars, key, making, answer, gates>>
    BY <1>6 DEF Damage, runVars
  <2>3. Runs(v)'
    BY <2>2 DEF CacheInv, Runs, Own, Genuine
  <2>4. step[v] = "rehashing" => digest[v].kind = "made" /\ Junk.kind = "junk"
    BY DEF CacheInv, Reads, Genuine, Junk
  <2>5. Reads(v)'
    BY <1>2, <2>1, <2>2, <2>4 DEF CacheInv, TypeInv, Reads, Genuine, Vouched, readVars
  <2>6. QED
    BY <2>3, <2>5
<1>7. QED
  BY <1>4, <1>5, <1>6 DEF Next

\* A hit of the cache is a result a worker made from the inputs of the task's
\* fingerprint, whatever other workflows write, the user edits, or is damaged
\* while it is read (cache.py:131, workflow.py:766).
THEOREM HitsAreGenuine ==
    ASSUME ~Silent
    PROVE  Spec => []HitIsGenuine
<1>1. CacheInv => HitIsGenuine
  BY DEF CacheInv, Reads, HitIsGenuine
<1>2. Init => CacheInv
  BY CacheInit
<1>3. CacheInv /\ [Next]_vars => CacheInv'
  BY CacheStep
<1>4. QED
  BY <1>1, <1>2, <1>3, PTL DEF Spec

-----------------------------------------------------------------------------
(* What the gates say.  The checks stop at the first that rejects, which    *)
(* exists because the indices of those that do have a least element; hence  *)
(* no outcome but the last can be a rejection.                              *)

Judged(outcomes) ==
    /\ Len(outcomes) \in Nat \ {0}
    /\ \A i \in 1..(Len(outcomes) - 1) : outcomes[i].ok
    /\ \A i \in 1..Len(outcomes) :
          /\ outcomes[i].ok \in BOOLEAN
          /\ outcomes[i].type \in {"command", "diff_scope", "approval",
                                   "result_schema", "budget", "transport"}
    /\ Accepted(outcomes) => Len(outcomes) = Len(Checks) + 1

Stops(n, passes) ==
    /\ \A i \in 1..(n - 1) : passes[i]
    /\ n < Len(Checks) => n > 0 /\ ~passes[n]

LEMMA OneGate ==
    ASSUME NEW type \in {"result_schema", "budget", "transport"}, NEW ok \in BOOLEAN,
           ok => Checks = << >>
    PROVE  /\ Judged(<<Gate(type, ok)>>)
           /\ Accepted(<<Gate(type, ok)>>) <=> ok
<1> DEFINE outcomes == <<Gate(type, ok)>>
<1>1. Len(outcomes) = 1 /\ outcomes[1].type = type /\ outcomes[1].ok = ok
  BY DEF Gate
<1>2. Checks = << >> => Len(Checks) = 0
  OBVIOUS
<1> HIDE DEF outcomes
<1>3. Accepted(outcomes) <=> ok
  BY <1>1 DEF Accepted
<1>4. Judged(outcomes)
  BY <1>1, <1>2, <1>3 DEF Judged
<1>5. QED
  BY <1>3, <1>4 DEF outcomes

LEMMA ChecksStop ==
    ASSUME NEW passes \in Turnouts, Checks # << >>
    PROVE  \E n \in 0..Len(Checks) : Stops(n, passes)
<1> DEFINE Fails == {i \in 1..Len(Checks) : ~passes[i]}
<1>1. Len(Checks) \in Nat /\ passes \in [1..Len(Checks) -> BOOLEAN]
  BY ResultsAssumption DEF Turnouts
<1>2. CASE Fails = {}
  BY <1>1, <1>2 DEF Stops
<1>3. CASE Fails # {}
  <2>1. Fails \in SUBSET (1..Len(Checks))
    OBVIOUS
  <2>2. PICK n \in Fails : \A i \in Fails : n <= i
    <3> HIDE DEF Fails
    <3> QED
      BY <1>1, <1>3, <2>1, LeastIndex
  <2>3. QED
    BY <1>1, <2>2 DEF Stops
<1>4. QED
  BY <1>2, <1>3

LEMMA ChecksJudge ==
    ASSUME NEW result, NEW passes \in Turnouts
    PROVE  Judged(RunChecks(result, passes))
<1> DEFINE outcomes == RunChecks(result, passes)
<1>1. /\ Checks \in Seq({"command", "diff_scope", "approval"}) /\ Len(Checks) \in Nat
      /\ passes \in [1..Len(Checks) -> BOOLEAN]
  BY ResultsAssumption DEF Turnouts
<1>2. CASE result = Malformed
  <2>1. outcomes = <<Gate("result_schema", FALSE)>>
    BY <1>2 DEF RunChecks, SchemaGate
  <2>2. QED
    BY <2>1, OneGate
<1>3. CASE result # Malformed /\ Checks = << >>
  <2>1. outcomes = <<Gate("result_schema", TRUE)>>
    BY <1>3 DEF RunChecks, SchemaGate
  <2>2. QED
    BY <1>3, <2>1, OneGate
<1>4. CASE result # Malformed /\ Checks # << >>
  <2> DEFINE stop == CHOOSE n \in 0..Len(Checks) : Stops(n, passes)
             checked == [i \in 1..stop |-> Gate(Checks[i], passes[i])]
  <2>1. stop \in 0..Len(Checks) /\ Stops(stop, passes)
    BY <1>4, ChecksStop
  <2>2. outcomes = <<Gate("result_schema", TRUE)>> \o checked
    BY <1>4 DEF RunChecks, SchemaGate, Stops
  <2> HIDE DEF stop
  <2>3. /\ checked \in Seq([type : {"command", "diff_scope", "approval"}, ok : BOOLEAN])
        /\ Len(checked) = stop
    BY <1>1, <2>1 DEF Gate
  <2> HIDE DEF outcomes
  <2>4. /\ Len(outcomes) = stop + 1
        /\ outcomes[1] = Gate("result_schema", TRUE)
        /\ \A i \in 2..(stop + 1) : outcomes[i] = Gate(Checks[i - 1], passes[i - 1])
    <3> HIDE DEF checked
    <3>1. /\ Len(outcomes) = stop + 1
          /\ outcomes[1] = Gate("result_schema", TRUE)
          /\ \A i \in 2..(stop + 1) : outcomes[i] = checked[i - 1]
      BY <2>1, <2>2, <2>3 DEF Gate
    <3>2. \A i \in 2..(stop + 1) : checked[i - 1] = Gate(Checks[i - 1], passes[i - 1])
      BY <2>1 DEF checked
    <3>3. QED
      BY <3>1, <3>2
  <2>5. \A i \in 1..(stop + 1) :
           /\ outcomes[i].ok <=> (i = 1 \/ passes[i - 1])
           /\ outcomes[i].type \in {"command", "diff_scope", "approval", "result_schema"}
           /\ outcomes[i].ok \in BOOLEAN
    <3> SUFFICES ASSUME NEW i \in 1..(stop + 1)
                 PROVE  /\ outcomes[i].ok <=> (i = 1 \/ passes[i - 1])
                        /\ outcomes[i].type \in {"command", "diff_scope", "approval", "result_schema"}
                        /\ outcomes[i].ok \in BOOLEAN
      OBVIOUS
    <3>1. CASE i = 1
      <4>1. outcomes[i].type = "result_schema" /\ outcomes[i].ok = TRUE
        BY <2>4, <3>1 DEF Gate
      <4>2. QED
        BY <3>1, <4>1
    <3>2. CASE i # 1
      <4>1. i - 1 \in 1..Len(Checks)
        BY <1>1, <2>1, <3>2
      <4>2. Checks[i - 1] \in {"command", "diff_scope", "approval"} /\ passes[i - 1] \in BOOLEAN
        BY <1>1, <4>1
      <4>3. outcomes[i] = Gate(Checks[i - 1], passes[i - 1])
        BY <2>1, <2>4, <3>2
      <4>4. QED
        BY <3>2, <4>2, <4>3 DEF Gate
    <3>3. QED
      BY <3>1, <3>2
  <2>6. \A i \in 1..stop : outcomes[i].ok
    BY <2>1, <2>5 DEF Stops
  <2>7. stop < Len(Checks) => ~outcomes[stop + 1].ok
    BY <2>1, <2>5 DEF Stops
  <2>8. Accepted(outcomes) => Len(outcomes) = Len(Checks) + 1
    BY <1>1, <2>1, <2>4, <2>7 DEF Accepted
  <2>9. Judged(outcomes)
    BY <2>1, <2>4, <2>5, <2>6, <2>8 DEF Judged
  <2>10. QED
    BY <2>9 DEF outcomes
<1>5. QED
  BY <1>2, <1>3, <1>4

\* of outcomes of which only the last can reject, the class is that of the last
LEMMA ClassNamesGate ==
    ASSUME NEW outcomes, Judged(outcomes), ~Accepted(outcomes), Rejecting(outcomes) # {"budget"}
    PROVE  ClassOf(outcomes) = ClassOfCheck(FirstRejecting(outcomes).type)
<1> DEFINE last == Len(outcomes)
<1>1. /\ last \in Nat \ {0} /\ ~outcomes[last].ok
      /\ \A i \in 1..last : i # last => outcomes[i].ok
  BY DEF Judged, Accepted
<1>2. Rejecting(outcomes) = {outcomes[last].type}
  BY <1>1 DEF Rejecting
<1>3. FirstRejecting(outcomes) = outcomes[last]
  <2>1. \A i \in 1..last : (~outcomes[i].ok /\ \A j \in 1..(i - 1) : outcomes[j].ok) <=> i = last
    BY <1>1
  <2>2. QED
    BY <1>1, <2>1 DEF FirstRejecting
<1>4. outcomes[last].type \in {"command", "diff_scope", "approval", "result_schema", "transport"}
  BY <1>1, <1>2 DEF Judged
<1>5. QED
  BY <1>2, <1>3, <1>4 DEF ClassOf, ClassOfCheck

-----------------------------------------------------------------------------
(* What a task ends with. *)

Ends(w) ==
    /\ step[w] = "served" => copy[w] = seen[w]
    /\ step[w] = "collecting" =>
          /\ Judged(gates[w])
          /\ Accepted(gates[w]) => draft[w] = answer[w]
    /\ step[w] \in {"putting", "sealing", "accepted"} =>
          /\ copy[w] = answer[w]
          /\ Accepted(gates[w])
          /\ Len(gates[w]) = Len(Checks) + 1
    /\ step[w] = "rejected" =>
          failure[w] = ClassOfCheck(FirstRejecting(gates[w]).type)

EndInv ==
    /\ TypeInv
    /\ DOMAIN draft = Workflow /\ DOMAIN copy = Workflow /\ DOMAIN failure = Workflow
    /\ \A w \in Workflow : Ends(w)

LEMMA EndInit ==
    ASSUME Init
    PROVE  EndInv
<1>1. TypeInv
  BY CacheInit DEF CacheInv
<1>2. QED
  BY <1>1 DEF Init, EndInv, Ends

LEMMA EndDomains ==
    ASSUME EndInv, [Next]_vars
    PROVE  (DOMAIN draft = Workflow /\ DOMAIN copy = Workflow /\ DOMAIN failure = Workflow)'
<1> USE DEF EndInv, runVars
<1>1. CASE UNCHANGED vars
  BY <1>1 DEF vars
<1>2. CASE Edit \/ \E k \in Inputs : Damage(k)
  BY <1>2 DEF Edit, Damage
<1>3. ASSUME NEW w \in Workflow, Look(w) \/ ReadMetadata(w) \/ ReadResult(w) \/ Rehash(w) \/ CheckHit(w)
      PROVE  (DOMAIN draft = Workflow /\ DOMAIN copy = Workflow /\ DOMAIN failure = Workflow)'
  BY <1>3 DEF Look, ReadMetadata, ReadResult, Rehash, Serve, CheckHit
<1>4. ASSUME NEW w \in Workflow, Launch(w) \/ Finish(w) \/ Collect(w)
      PROVE  (DOMAIN draft = Workflow /\ DOMAIN copy = Workflow /\ DOMAIN failure = Workflow)'
  BY <1>4 DEF Launch, Finish, Collect, Retry, TakeCopy
<1>5. ASSUME NEW w \in Workflow, PutResult(w) \/ PutMetadata(w) \/ Crash(w)
      PROVE  (DOMAIN draft = Workflow /\ DOMAIN copy = Workflow /\ DOMAIN failure = Workflow)'
  BY <1>5 DEF PutResult, PutMetadata, Crash
<1>6. QED
  BY <1>1, <1>2, <1>3, <1>4, <1>5 DEF Next, Runtime

LEMMA EndsStep ==
    ASSUME EndInv, NEW w \in Workflow, Runtime(w) \/ Crash(w)
    PROVE  Ends(w)'
<1> USE DEF EndInv, TypeInv, Ends, Go, Miss, Forget, runVars
<1>1. CASE Look(w) \/ ReadMetadata(w) \/ ReadResult(w)
  BY <1>1 DEF Look, ReadMetadata, ReadResult
<1>2. CASE Rehash(w)
  BY <1>2 DEF Rehash, Serve, readVars
<1>3. CASE CheckHit(w)
  <2>1. PICK passes \in Turnouts, allowed \in BOOLEAN :
           LET outcomes == RunChecks(seen[w], passes) IN
           IF Accepted(outcomes) /\ allowed
           THEN /\ Go(w, "accepted")
                /\ answer' = [answer EXCEPT ![w] = seen[w]]
                /\ gates' = [gates EXCEPT ![w] = outcomes]
           ELSE Go(w, "launching")
    BY <1>3 DEF CheckHit
  <2>2. step[w] = "served" /\ copy' = copy
    BY <1>3 DEF CheckHit
  <2>3. Judged(RunChecks(seen[w], passes))
    BY ChecksJudge
  <2>4. QED
    BY <2>1, <2>2, <2>3 DEF Judged
<1>4. CASE Launch(w)
  BY <1>4 DEF Launch
<1>5. CASE Finish(w)
  <2>1. step'[w] = "collecting"
    BY <1>5 DEF Finish
  <2>2. ASSUME NEW result \in Drafts(w), NEW passes \in Turnouts,
               draft' = [draft EXCEPT ![w] = result],
               answer' = [answer EXCEPT ![w] = result],
               gates' = [gates EXCEPT ![w] = RunChecks(result, passes)]
        PROVE  Judged(gates'[w]) /\ draft'[w] = answer'[w]
    BY <2>2, ChecksJudge
  <2>3. ASSUME NEW why \in {"budget", "transport"},
               gates' = [gates EXCEPT ![w] = <<Gate(why, FALSE)>>]
        PROVE  Judged(gates'[w]) /\ ~Accepted(gates'[w])
    <3>1. gates'[w] = <<Gate(why, FALSE)>>
      BY <2>3
    <3>2. QED
      BY <3>1, OneGate
  <2>4. Judged(gates'[w]) /\ (Accepted(gates'[w]) => draft'[w] = answer'[w])
    BY <1>5, <2>2, <2>3 DEF Finish
  <2>5. QED
    BY <2>1, <2>4
<1>6. CASE Collect(w)
  <2>1. step[w] = "collecting" /\ Judged(gates[w])
    BY <1>6 DEF Collect
  <2>2. CASE Go(w, "budget_exhausted") \/ Go(w, "blocked_by_hook") \/ Go(w, "ready")
    BY <2>2
  <2>3. CASE /\ Accepted(gates[w]) /\ UNCHANGED <<answer, gates>> /\ TakeCopy(w)
             /\ Go(w, IF key[w] = NoKey THEN "accepted" ELSE "putting")
    BY <2>1, <2>3 DEF TakeCopy, Judged
  <2>4. CASE /\ ~Accepted(gates[w]) /\ Rejecting(gates[w]) # {"budget"}
             /\ Go(w, "rejected") /\ failure' = [failure EXCEPT ![w] = ClassOf(gates[w])]
             /\ UNCHANGED gates
    BY <2>1, <2>4, ClassNamesGate
  <2>5. QED
    BY <1>6, <2>2, <2>3, <2>4 DEF Collect, Retry
<1>7. CASE PutResult(w) \/ PutMetadata(w)
  BY <1>7 DEF PutResult, PutMetadata
<1>8. CASE Crash(w)
  BY <1>8 DEF Crash
<1>9. QED
  BY <1>1, <1>2, <1>3, <1>4, <1>5, <1>6, <1>7, <1>8 DEF Runtime

LEMMA EndStep ==
    ASSUME EndInv, [Next]_vars
    PROVE  EndInv'
<1>1. TypeInv'
  BY TypeStep DEF EndInv
<1>2. SUFFICES ASSUME NEW v \in Workflow PROVE Ends(v)'
  BY <1>1, EndDomains DEF EndInv
<1>3. ASSUME NEW w \in Workflow, Runtime(w) \/ Crash(w), v # w
      PROVE  Ends(v)'
  <2>1. /\ step'[v] = step[v] /\ seen'[v] = seen[v] /\ answer'[v] = answer[v]
        /\ gates'[v] = gates[v]
    BY <1>3, Frame DEF EndInv
  <2>2. draft'[v] = draft[v] /\ copy'[v] = copy[v] /\ failure'[v] = failure[v]
    BY <1>3 DEF EndInv, Runtime, Look, ReadMetadata, ReadResult, Rehash, Serve, CheckHit,
       Launch, Finish, Collect, Retry, TakeCopy, PutResult, PutMetadata, Crash, runVars
  <2>3. QED
    BY <2>1, <2>2 DEF EndInv, Ends
<1>4. CASE Edit \/ UNCHANGED vars \/ \E k \in Inputs : Damage(k)
  <2>1. UNCHANGED <<step, readVars, runVars>>
    BY <1>4 DEF Edit, Damage, vars, readVars, runVars
  <2>2. QED
    BY <2>1 DEF EndInv, Ends, readVars, runVars
<1>5. QED
  BY <1>3, <1>4, EndsStep DEF Next

\* The copy dependents read is the result the task's own gates have passed,
\* each of its checks among them, however often a cached result was written
\* there first (workflow.py:176), for any checks, workflows and damage.
THEOREM DependentsReadTheResult == Spec => []AcceptedIsServed
<1>1. EndInv => AcceptedIsServed
  BY DEF EndInv, Ends, AcceptedIsServed
<1>2. EndInv /\ [Next]_vars => EndInv'
  BY EndStep
<1>3. QED
  BY <1>1, <1>2, EndInit, PTL DEF Spec

\* The failure class a task ends with is that of the check that stopped its
\* last attempt, for every list of checks (gates.py, retry.py).
THEOREM ClassIsOfFirstFailure == Spec => []FailureNamesItsGate
<1>1. EndInv => FailureNamesItsGate
  BY DEF EndInv, Ends, FailureNamesItsGate
<1>2. EndInv /\ [Next]_vars => EndInv'
  BY EndStep
<1>3. QED
  BY <1>1, <1>2, EndInit, PTL DEF Spec

=============================================================================
