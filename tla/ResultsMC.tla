------------------------------ MODULE ResultsMC ------------------------------
(* Workflows that share a cache, for TLC. *)
EXTENDS Results, TLC

CONSTANTS u, v, before, after

CommandThenScope == <<"command", "diff_scope">>
Alike == Permutations(Workflow)

=============================================================================
