----------------------------- MODULE NewItemForm -----------------------------
(***************************************************************************)
(* The new-item page: its spec rows, the existing item that is loaded into *)
(* them, and how new_item reads them from the arrays that the browser      *)
(* submits.                                                                *)
(*                                                                         *)
(* A browser submits of each row what is enabled and selected: nothing of  *)
(* a disabled input, nothing of a select without a selected option.  What  *)
(* a loaded item holds is arbitrary, so that answers may come in any order.*)
(* Left out: name and description, one input each, that a loaded item also *)
(* fills; files, types and units; and the stripping of blanks (Empty is    *)
(* any text that strips to nothing).                                       *)
(***************************************************************************)
EXTENDS SequencesExt, Naturals

CONSTANTS
    Field,          \* field keys
    Options,        \* a part of them: the catalog when the page was made
    Name,           \* names a user gives to new fields
    KeyOf,          \* [Name -> Field]: the field key of each name
    Value, Empty,
    AttributeText,  \* [Value -> Value \cup {Empty}]: what is left of a text in
                    \* value="...", where it ends with its first quote
    NewField,       \* the option "__new__"
    NoSelection,    \* a select whose value is not among its options
    MaxRows,        \* bound: rows of the form
    MaxLoads        \* bound: unanswered requests of loadBaseItem

VARIABLES
    rows,
    selectedBaseItem,   \* has one been picked from the suggestions?
    loading,        \* how many requests of loadBaseItem are unanswered
    specs           \* what new_item has built, or NoSelection before

vars == <<rows, selectedBaseItem, loading, specs>>

Row == [key : Options \cup {Empty, NewField, NoSelection},
        value : Value \cup {Empty},
        disabled : BOOLEAN,
        newName : Name \cup {Empty},
        newValue : Value \cup {Empty}]

BlankRow == [key |-> Empty, value |-> Empty, disabled |-> FALSE,
             newName |-> Empty, newValue |-> Empty]

Init ==
    /\ rows = <<BlankRow>>
    /\ selectedBaseItem = FALSE
    /\ loading = 0
    /\ specs = NoSelection

Editing == specs = NoSelection

Change(i, row) == rows' = [rows EXCEPT ![i] = row] /\ UNCHANGED <<selectedBaseItem, loading, specs>>

-----------------------------------------------------------------------------
(* The page.                                                               *)

AddSpecRow ==
    /\ Editing /\ Len(rows) < MaxRows
    /\ rows' = Append(rows, BlankRow)
    /\ UNCHANGED <<selectedBaseItem, loading, specs>>

RemoveRow(i) ==
    /\ Editing
    /\ rows' = SubSeq(rows, 1, i - 1) \o SubSeq(rows, i + 1, Len(rows))
    /\ UNCHANGED <<selectedBaseItem, loading, specs>>

\* The user chooses an option; the new field's inputs keep what they hold.
ToggleNewField(i) ==
    /\ Editing
    /\ \E key \in Options \cup {Empty, NewField} :
           Change(i, [rows[i] EXCEPT !.key = key,
                                     !.disabled = (key = NewField),
                                     !.value = IF key = NewField THEN Empty ELSE @])

TypeValue(i) ==
    /\ Editing /\ ~rows[i].disabled
    /\ \E v \in Value \cup {Empty} : Change(i, [rows[i] EXCEPT !.value = v])

TypeNewField(i) ==
    /\ Editing /\ rows[i].key = NewField
    /\ \E n \in Name, v \in Value :
           Change(i, [rows[i] EXCEPT !.newName = n, !.newValue = v])

\* Typing in the search box, or entering it, forgets the item picked before.
FilterBaseItemOptions ==
    /\ Editing
    /\ selectedBaseItem' = FALSE
    /\ UNCHANGED <<rows, loading, specs>>

SelectBaseItem ==
    /\ Editing
    /\ selectedBaseItem' = TRUE
    /\ UNCHANGED <<rows, loading, specs>>

\* The button stays enabled while an earlier request is unanswered.
LoadBaseItem ==
    /\ Editing /\ selectedBaseItem /\ loading < MaxLoads
    /\ loading' = loading + 1
    /\ UNCHANGED <<rows, selectedBaseItem, specs>>

Prefilled(key, value) ==
    [BlankRow EXCEPT !.key = IF key \in Options THEN key ELSE NoSelection,
                     !.value = AttributeText[value]]

\* The item's specs replace the rows, whatever the user has typed meanwhile.
BaseItemArrives ==
    /\ Editing /\ loading > 0
    /\ \E n \in 0..MaxRows : \E keys \in [1..n -> Field], values \in [1..n -> Value] :
           /\ \A i, j \in 1..n : keys[i] = keys[j] => i = j
           /\ rows' = [i \in 1..n |-> Prefilled(keys[i], values[i])]
    /\ loading' = loading - 1
    /\ UNCHANGED <<selectedBaseItem, specs>>

\* The item is not found, or the server does not answer.
LoadFails ==
    /\ Editing /\ loading > 0
    /\ loading' = loading - 1
    /\ UNCHANGED <<rows, selectedBaseItem, specs>>

-----------------------------------------------------------------------------
(* The submission.                                                         *)

Selected(row) == row.key # NoSelection
Enabled(row) == ~row.disabled

FieldKeys == SelectSeq(rows, Selected)
FieldValues == SelectSeq(rows, Enabled)

\* zip(field_keys, field_values)
Pairs == [i \in 1..Min({Len(FieldKeys), Len(FieldValues)}) |->
             <<FieldKeys[i].key, FieldValues[i].value>>]

Given(p) == p[1] \notin {Empty, NewField} /\ p[2] # Empty
Existing == SelectSeq(Pairs, Given)

\* The inputs of a new field are submitted even when they are hidden again.
Named(row) == row.newName # Empty /\ row.newValue # Empty
New == LET named == SelectSeq(rows, Named)
       IN  [i \in DOMAIN named |-> <<KeyOf[named[i].newName], named[i].newValue>>]

\* specs[key] = value, in this order: of two pairs with one key the later stays.
Submit ==
    /\ Editing
    /\ LET pairs == Existing \o New
       IN  specs' = {pairs[i] : i \in {j \in DOMAIN pairs :
                         \A k \in DOMAIN pairs : k > j => pairs[k][1] # pairs[j][1]}}
    /\ UNCHANGED <<rows, selectedBaseItem, loading>>

Next ==
    \/ AddSpecRow
    \/ \E i \in DOMAIN rows :
           RemoveRow(i) \/ ToggleNewField(i) \/ TypeValue(i) \/ TypeNewField(i)
    \/ FilterBaseItemOptions \/ SelectBaseItem
    \/ LoadBaseItem \/ BaseItemArrives \/ LoadFails
    \/ Submit

Spec == Init /\ [][Next]_vars

-----------------------------------------------------------------------------
\* What the rows show: a chosen field with its value.
Shown == {<<rows[i].key, rows[i].value>> :
             i \in {j \in DOMAIN rows : rows[j].key \in Options /\ rows[j].value # Empty}}

\* The existing fields selected in the dropdowns are saved, each with a value
\* that the form shows beside it.
SelectedFieldsSaved ==
    ~Editing => \A p \in Shown : \E q \in specs : q[1] = p[1] /\ q \in Shown \cup ToSet(New)
=============================================================================
