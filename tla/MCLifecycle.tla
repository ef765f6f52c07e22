---------------------------- MODULE MCLifecycle ----------------------------
(* Instances of Lifecycle for TLC: passwords enough for every place. *)
EXTENDS Lifecycle

CONSTANTS p1, p2, p3, p4, p5, p6

Passwords == {p1, p2, p3, p4, p5, p6}
=============================================================================
