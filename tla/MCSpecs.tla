------------------------------- MODULE MCSpecs -------------------------------
(* Specs for TLC: a catalog with an ordinary key and the blank one.        *)
EXTENDS Specs

CONSTANTS f1, s1

Fields == {f1, Blank}
OneSku == {s1}
None == {}

Rows == Fields \cup OneSku
=============================================================================
