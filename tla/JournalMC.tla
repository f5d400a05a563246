------------------------------ MODULE JournalMC ------------------------------
(* Values of the constants of Journal for TLC. *)
EXTENDS Journal

CONSTANTS p, q, r

=============================================================================
