------------------------------ MODULE MCMigrate ------------------------------
(* Migrate with the windows of the configuration.                          *)
EXTENDS Migrate

CONSTANTS r1, r2
=============================================================================
