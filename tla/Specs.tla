-------------------------------- MODULE Specs --------------------------------
(***************************************************************************)
(* Items, their specs and the catalog of spec fields: new_item and the     *)
(* spec forms of edit_specs, one action per SQL statement, and the two     *)
(* reads of an item's page, run by several request threads at once.        *)
(*                                                                         *)
(* The rows are those of spec_field_definitions, by field_key, and those   *)
(* of items, by sku (UNIQUE; items are never deleted and keep their sku).  *)
(* A catalog row is reduced to the label its creator gave it; an item to   *)
(* its specs, a function that maps the keys it lacks to Absent.            *)
(***************************************************************************)
EXTENDS PgTable, Sequences

CONSTANTS
    Field,          \* the field keys of the catalog
    Blank,          \* the key "", of the option "Select a field", and of a
                    \* new field whose name has no letter and no digit
    Sku, Label, Value,
    Kind,           \* the requests that are made
    Existing,       \* the items there are at the start, without specs
    MaxNew          \* how many new fields one form of new_item creates

Requests == {"new_item", "add_field", "new_field", "edit_field",
             "remove_field", "show"}

ASSUME SpecsAssumption ==
    /\ Row = Field \cup Sku
    /\ Field \cap Sku = {}
    /\ Existing \subseteq Sku
    /\ Kind \subseteq Requests
    /\ MaxNew \in Nat
    /\ {Absent, Clean} \cap (Label \cup Value \cup [Field \cup {Blank} -> Value \cup {Absent}]) = {}

VARIABLES
    todo,       \* the statements each request has still to run
    page        \* the keys and the fields an item page was rendered from

vars == <<pgVars, todo, page>>

Key == Field \cup {Blank}

NoSpecs == [k \in Key |-> Absent]

Keys(specs) == {k \in Key : specs[k] # Absent}

Catalog == {f \in Field : table[f] # Absent}

Items == {s \in Sku : table[s] # Absent}

NoPage == [keys |-> {}, fields |-> {}]

Init ==
    /\ PgInit([r \in Row |-> IF r \in Existing THEN NoSpecs ELSE Absent])
    /\ todo = [w \in Worker |-> <<>>]
    /\ page = [w \in Worker |-> NoPage]

-----------------------------------------------------------------------------
(* The requests, as the statements they run.                               *)

Define(f, l) == [op |-> "define", row |-> f, label |-> l]
Create(s, specs) == [op |-> "create", row |-> s, specs |-> specs]
Merge(s, k, v) == [op |-> "merge", row |-> s, key |-> k, value |-> v]
Drop(s, k) == [op |-> "drop", row |-> s, key |-> k]
ReadSpecs(s) == [op |-> "specs", row |-> s]
ReadCatalog == [op |-> "catalog"]
Render == [op |-> "render"]
End == [op |-> "commit"]

\* The row a statement waits for.
Target(stmt) == IF stmt.op \in {"define", "create", "merge", "drop"} THEN {stmt.row} ELSE {}

\* A request goes on with the statements stmts.
Proceed(w, stmts) ==
    /\ todo' = [todo EXCEPT ![w] = stmts]
    /\ want' = [want EXCEPT ![w] = IF stmts = <<>> THEN {} ELSE Target(Head(stmts))]

Submit(w, kind, stmts) ==
    /\ kind \in Kind
    /\ todo[w] = <<>>
    /\ Proceed(w, stmts)
    /\ UNCHANGED <<table, buf, page>>

\* The specs a new item gets: one field of the catalog or none, then the new
\* fields in the order of the form, a later value replacing an earlier one.
NewSpecs(given, rows) ==
    LET last(k) == {i \in 1 .. Len(rows) :
                      /\ rows[i].field = k
                      /\ \A j \in i + 1 .. Len(rows) : rows[j].field # k}
    IN  [k \in Key |-> IF last(k) # {} THEN rows[CHOOSE i \in last(k) : TRUE].value
                       ELSE given[k]]

NewRows == UNION {[1 .. n -> [field : Field, label : Label, value : Value]] : n \in 0 .. MaxNew}

Given == {NoSpecs} \cup {[NoSpecs EXCEPT ![k] = v] : k \in Catalog \ {Blank}, v \in Value}

NewItem(w) ==
    \E s \in Sku, given \in Given, rows \in NewRows :
        Submit(w, "new_item",
               [i \in 1 .. Len(rows) |-> Define(rows[i].field, rows[i].label)]
               \o <<Create(s, NewSpecs(given, rows)), End>>)

\* The list offers the fields the item lacks, and the blank option.
AddField(w) ==
    \E s \in Items : \E k \in (Catalog \cup {Blank}) \ Keys(table[s]), v \in Value :
        Submit(w, "add_field", <<Merge(s, k, v), End>>)

AddNewField(w) ==
    \E s \in Items, f \in Field, l \in Label, v \in Value :
        Submit(w, "new_field", <<Define(f, l), Merge(s, f, v), End>>)

\* jsonb_set(..., true) also adds a key that is gone meanwhile.
EditField(w) ==
    \E s \in Items : \E k \in Keys(table[s]), v \in Value :
        Submit(w, "edit_field", <<Merge(s, k, v), End>>)

RemoveField(w) ==
    \E s \in Items : \E k \in Keys(table[s]) :
        Submit(w, "remove_field", <<Drop(s, k), End>>)

\* Mutant: the catalog is read before the item.
PageReadsSwapped(s) == <<ReadCatalog, ReadSpecs(s), Render>>

PageReads(s) == <<ReadSpecs(s), ReadCatalog, Render>>

Show(w) == \E s \in Items : Submit(w, "show", PageReads(s))

-----------------------------------------------------------------------------
(* The statements.                                                         *)

Running(w, op) == todo[w] # <<>> /\ Head(todo[w]).op = op

\* ON CONFLICT (field_key) DO NOTHING
DefineField(w) ==
    LET stmt == Head(todo[w])
    IN  /\ Running(w, "define")
        /\ Free(w, stmt.row)
        /\ IF Seen(w, stmt.row) = Absent
           THEN Put(w, stmt.row, stmt.label)
           ELSE UNCHANGED buf
        /\ Proceed(w, Tail(todo[w]))
        /\ UNCHANGED <<table, page>>

CreateItem(w) ==
    LET stmt == Head(todo[w])
    IN  /\ Running(w, "create")
        /\ Free(w, stmt.row)
        /\ Seen(w, stmt.row) = Absent
        /\ Put(w, stmt.row, stmt.specs)
        /\ Proceed(w, Tail(todo[w]))
        /\ UNCHANGED <<table, page>>

\* Mutant: a removed key stays, with a blank value.
ChangedToBlank(stmt, specs) ==
    [specs EXCEPT ![stmt.key] = IF stmt.op = "drop" THEN Blank ELSE stmt.value]

\* specs || {key: value}, jsonb_set, and specs - key.
Changed(stmt, specs) ==
    [specs EXCEPT ![stmt.key] = IF stmt.op = "drop" THEN Absent ELSE stmt.value]

\* Mutant: the specs are written back from a read that took no lock.
ChangeSpecsUnlocked(w) ==
    LET stmt == Head(todo[w])
    IN  /\ Running(w, "merge") \/ Running(w, "drop")
        /\ Put(w, stmt.row, Changed(stmt, Seen(w, stmt.row)))
        /\ Proceed(w, Tail(todo[w]))
        /\ UNCHANGED <<table, page>>

ChangeSpecs(w) ==
    LET stmt == Head(todo[w])
    IN  /\ Running(w, "merge") \/ Running(w, "drop")
        /\ Free(w, stmt.row)
        /\ Put(w, stmt.row, Changed(stmt, Seen(w, stmt.row)))
        /\ Proceed(w, Tail(todo[w]))
        /\ UNCHANGED <<table, page>>

ReadItem(w) ==
    /\ Running(w, "specs")
    /\ page' = [page EXCEPT ![w].keys = Keys(table[Head(todo[w]).row])]
    /\ Proceed(w, Tail(todo[w]))
    /\ UNCHANGED <<table, buf>>

ReadFields(w) ==
    /\ Running(w, "catalog")
    /\ page' = [page EXCEPT ![w].fields = Catalog]
    /\ Proceed(w, Tail(todo[w]))
    /\ UNCHANGED <<table, buf>>

\* spec_rows, current_specs: each key of the item with its field's label.
RenderPage(w) ==
    /\ Running(w, "render")
    /\ page' = [page EXCEPT ![w] = NoPage]
    /\ Proceed(w, Tail(todo[w]))
    /\ UNCHANGED <<table, buf>>

Commit(w) ==
    /\ Running(w, "commit")
    /\ Publish(w)
    /\ todo' = [todo EXCEPT ![w] = <<>>]
    /\ UNCHANGED page

\* Mutant: the connection commits on its way out.
FailCommits(w) ==
    /\ Publish(w)
    /\ todo' = [todo EXCEPT ![w] = <<>>]
    /\ UNCHANGED page

\* An error ends the request without a commit.
Fail(w) ==
    /\ Discard(w)
    /\ todo' = [todo EXCEPT ![w] = <<>>]
    /\ UNCHANGED page

\* Mutant: the error is swallowed and the request never answered.
SkuTakenIgnored(w) == FALSE

\* A second item with the same sku.
SkuTaken(w) ==
    /\ Running(w, "create")
    /\ Free(w, Head(todo[w]).row)
    /\ Seen(w, Head(todo[w]).row) # Absent
    /\ Fail(w)

Abort(w) == Deadlocked(w) /\ Fail(w)

\* The window is closed and the program is started again.
StopPostgres ==
    /\ \E w \in Worker : todo[w] # <<>>
    /\ buf' = [w \in Worker |-> NoWrites]
    /\ want' = [w \in Worker |-> {}]
    /\ todo' = [w \in Worker |-> <<>>]
    /\ page' = [w \in Worker |-> NoPage]
    /\ UNCHANGED table

Ask(w) ==
    \/ NewItem(w) \/ AddField(w) \/ AddNewField(w) \/ EditField(w)
    \/ RemoveField(w) \/ Show(w)

Change(w) == DefineField(w) \/ CreateItem(w) \/ ChangeSpecs(w) \/ SkuTaken(w)

Answer(w) == ReadItem(w) \/ ReadFields(w) \/ RenderPage(w) \/ Commit(w)

Next ==
    \/ \E w \in Worker : Ask(w) \/ Change(w) \/ Answer(w) \/ Abort(w)
    \/ StopPostgres

Spec == Init /\ [][Next]_vars

\* A started request is run to its end; a waiting statement is served in turn.
Fairness ==
    \A w \in Worker : SF_vars(Change(w)) /\ WF_vars(Answer(w)) /\ WF_vars(Abort(w))

FairSpec == Spec /\ Fairness
-----------------------------------------------------------------------------
SpecsOf == [Key -> Value \cup {Absent}]

\* Every variable has its type.
TypeOK ==
    /\ PgTypeOK(SpecsOf \cup Label)
    /\ \A f \in Field : table[f] \in Label \cup {Absent}
    /\ \A s \in Sku : table[s] \in SpecsOf \cup {Absent}
    /\ page \in [Worker -> [keys : SUBSET Key, fields : SUBSET Field]]
    /\ \A w \in Worker, i \in 1 .. MaxNew + 3 :
         i <= Len(todo[w]) => Target(todo[w][i]) \subseteq Row

Store == INSTANCE SpecStore WITH
    catalog <- [f \in Field |-> table[f]],
    items <- [s \in Sku |-> table[s]]

\* The forms behave as if each were run alone and in one piece: no change of
\* an item's specs is lost to another one (app.py:317-321 merges into the row
\* it has locked), a form that fails leaves neither item nor catalog field
\* (app.py:205-217, 243), a field keeps its first label (app.py:209).
ImplementsSpecStore == Store!Spec

\* A page finds the label of every key it shows, though it reads the item and
\* the catalog in two statements (app.py:125 and 137-143, 288 and 456-461):
\* a key an item has is in the catalog already.  The blank key need not be.
PageLabelled ==
    \A w \in Worker : Running(w, "render") => page[w].keys \subseteq page[w].fields \cup {Blank}

\* Every request is answered, although new_item locks several catalog keys in
\* the order of its form (app.py:198-212) and others do so in another order.
EveryRequestEnds == \A w \in Worker : todo[w] # <<>> ~> todo[w] = <<>>
=============================================================================
