---------------------------- MODULE IntegrationMC ----------------------------
(* Three writers with any dependencies, for TLC. *)
EXTENDS Integration, TLC

CONSTANTS a, b, c, outsider

Ids == (a :> 1) @@ (b :> 2) @@ (c :> 3)

=============================================================================
