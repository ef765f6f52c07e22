---------------------------- MODULE MCNewItemForm ----------------------------
(* NewItemForm with two fields, both on the page, and one name for a new   *)
(* field, whose key is one of theirs.                                      *)
EXTENDS NewItemForm

CONSTANTS color, mass, Mass, v1, v2

NameKey == [n \in {Mass} |-> mass]

\* v2 is v1, a quote, and more.
UpToQuote == [v \in {v1, v2} |-> v1]
=============================================================================
