---------------------------- MODULE MCNetConnect ----------------------------
(* NetConnect with the networks of the configuration.                      *)
EXTENDS NetConnect

CONSTANTS n1, n2
=============================================================================
