------------------------------ MODULE SpecStore ------------------------------
(***************************************************************************)
(* What new_item and the spec forms of edit_specs promise, each form in    *)
(* one step: the catalog of spec fields only grows and keeps the label a   *)
(* field was first given, an SKU belongs to one item, every change of an   *)
(* item's specs is applied to the specs as they are, and an item uses only *)
(* fields of the catalog.  Specs implements this.                          *)
(***************************************************************************)
CONSTANTS Field, Blank, Sku, Label, Value, Absent

VARIABLES catalog, items

Key == Field \cup {Blank}

SpecsOf == [Key -> Value \cup {Absent}]

Keys(specs) == {k \in Key : specs[k] # Absent}

Defined == {f \in Field : catalog[f] # Absent}

Items == {s \in Sku : items[s] # Absent}

StoreTypeOK ==
    /\ catalog \in [Field -> Label \cup {Absent}]
    /\ items \in [Sku -> SpecsOf \cup {Absent}]

\* The blank key is also what the field list submits with nothing selected.
Covered == \A s \in Items : Keys(items[s]) \subseteq Defined \cup {Blank}

Init == StoreTypeOK /\ Covered

\* The fields of a form are added unless the catalog has them.
Announce ==
    /\ catalog' \in [Field -> Label \cup {Absent}]
    /\ \A f \in Defined : catalog'[f] = catalog[f]

Create(s) ==
    /\ s \notin Items
    /\ Announce
    /\ \E specs \in SpecsOf :
        /\ Keys(specs) \subseteq Defined'
        /\ items' = [items EXCEPT ![s] = specs]

SetField(s) ==
    /\ s \in Items
    /\ Announce
    /\ \E k \in Defined' \cup {Blank}, v \in Value :
        items' = [items EXCEPT ![s][k] = v]

DropField(s) ==
    /\ s \in Items
    /\ \E k \in Key : items' = [items EXCEPT ![s][k] = Absent]
    /\ UNCHANGED catalog

Next == \E s \in Sku : Create(s) \/ SetField(s) \/ DropField(s)

Spec == Init /\ [][Next]_<<catalog, items>>
=============================================================================
