------------------------------- MODULE BatchMC -------------------------------
(* Small batches for TLC: readers a and d, a writer b in a worktree of its  *)
(* own, a writer c in the repository, and another delegate o there.         *)
EXTENDS Batch, TLC

CONSTANTS a, b, c, d, o

\* two readers side by side, and a chain that the manifest lists out of order
Parallel == <<a, c, b, d>>
ParallelNeeds == (a :> {}) @@ (b :> {a}) @@ (c :> {b}) @@ (d :> {})
Chain == <<a, c>>
ChainNeeds == (a :> {}) @@ (c :> {a})
Sandboxes == [r \in Run |-> IF r \in {a, d} THEN "read-only" ELSE "workspace-write"]
Roots == [r \in Run |-> IF r = b THEN "worktree" ELSE "repository"]
Ones == [t \in Tasks |-> 1]

=============================================================================
