------------------------------ MODULE LedgerMC ------------------------------
(* Values of the constants of Ledger for TLC. *)
EXTENDS Ledger, TLC

CONSTANTS a, b

\* one static node and one that a map may add, with or without depending on
\* it; a reservation takes two of the five tokens, so that a leaked one and a
\* live one fit, and a third does not
NoDeps == (a :> {})
ReserveTwo == [t \in Task |-> 2]
UpToTwo == [t \in Task |-> IF t = a THEN 2 ELSE 1]

=============================================================================
