------------------------------ MODULE MCCatalog ------------------------------
(* Catalog with a number field and a text field for TLC.  The text field's *)
(* name may be that of an input of the number field.                       *)
EXTENDS Catalog, TLC

CONSTANTS volt, color, max_volt, min_volt, n9, n10, exp1, words, red, i1, i2

Fields == <<volt, color>>
FieldsClash == <<volt, max_volt>>
MinInput == [f \in {volt} |-> min_volt]
MaxInput == [f \in {volt} |-> max_volt]

\* "9" and "10", plain; "1e1", a number that is not plain; "12V", none.
Volts == {n9, n10, exp1, words}
NumberOf == [t \in {n9, n10, exp1} |-> IF t = n9 THEN 9 ELSE 10]
EnteredIn == [f \in Field |-> IF f = volt THEN Volts ELSE {red, Empty}]

SameItems == Permutations({i1, i2})
=============================================================================
