------------------------------- MODULE Catalog -------------------------------
(***************************************************************************)
(* The home page: index reads the fields that items use, the range or the  *)
(* values of each, and then the items that pass the filters of its URL, a  *)
(* statement with a snapshot of its own each, while the forms of other     *)
(* pages change the items.  The filters come back as the form of the page  *)
(* submits them: by the names of its inputs.                               *)
(*                                                                         *)
(* A value is a text, of which some can be cast to numeric and some of     *)
(* those match the pattern for plain decimals.  Left out: the order of the *)
(* list, the columns shown, and URLs that no form of the page makes.       *)
(***************************************************************************)
EXTENDS Integers, Sequences, FiniteSetsExt

CONSTANTS
    Field,
    Order,          \* the fields by sort_order and display_name
    NumberField,    \* those whose field_type is "number"
    MinParam, MaxParam,     \* [NumberField -> names of inputs]
    Item,
    Entered,        \* [Field -> texts that users enter there]
    Number,         \* the number of each text that is one, in a unit of which
                    \* all of them are multiples
    Plain,          \* those that match '^-?[0-9]+(\.[0-9]+)?$'
    Empty,          \* the text ""
    Absent,
    Limit,          \* numbers that users enter as limits
    MaxChanges      \* bound: changes by other pages

TextField == Field \ NumberField

Text == (UNION {Entered[f] : f \in Field}) \cup Limit \cup {Empty}

ASSUME CatalogAssumption ==
    /\ Order \in Seq(Field) /\ Range(Order) = Field /\ IsInjective(Order)
    /\ NumberField \subseteq Field
    /\ \A f, g \in NumberField :
        /\ MinParam[f] # MaxParam[g]
        /\ f # g => MinParam[f] # MinParam[g] /\ MaxParam[f] # MaxParam[g]
    /\ IsFiniteSet(Item)
    /\ Number \in [DOMAIN Number -> Int]
    /\ Plain \subseteq DOMAIN Number
    /\ Limit \subseteq DOMAIN Number
    /\ Empty \notin DOMAIN Number
    /\ Absent \notin Text \cup DOMAIN Number \cup [Field -> Text \cup {Absent}]
    /\ MaxChanges \in Nat

VARIABLES
    items,      \* the specs of each item, Absent before it is created
    pc,         \* what the request does next, or its outcome
    picked,     \* what the user has entered in the filters
    url,        \* the values that the inputs of each field give each parameter
    offered,    \* the fields that have a filter
    left,       \* those whose filter has still to be made
    bounds, options,    \* the filters
    list,       \* the items shown
    touched,    \* the items changed since the request began
    changes

page == <<offered, left, bounds, options, list>>
vars == <<items, pc, picked, url, page, touched, changes>>

\* The inputs of the forms: a text field has its own key for its check boxes.
Param == TextField \cup {MinParam[f] : f \in NumberField} \cup {MaxParam[f] : f \in NumberField}

NoUrl == [p \in Param |-> [f \in Field |-> {}]]

NoLimits == [low |-> Empty, high |-> Empty]

NothingPicked == [limits |-> [f \in NumberField |-> NoLimits],
                  checked |-> [f \in TextField |-> {}]]

SpecsOf == {specs \in [Field -> Text \cup {Absent}] :
               \A f \in Field : specs[f] \in Entered[f] \cup {Absent}}

Items == {i \in Item : items[i] # Absent}

\* The texts of a field, by items.
Values(f) == {items[i][f] : i \in Items} \ {Absent}

Init ==
    /\ items \in [Item -> SpecsOf \cup {Absent}]
    /\ pc = "used"
    /\ picked = NothingPicked
    /\ url = NoUrl
    /\ offered = {}
    /\ left = {}
    /\ bounds = [f \in NumberField |-> Absent]
    /\ options = [f \in TextField |-> {}]
    /\ list = {}
    /\ touched = {}
    /\ changes = 0
-----------------------------------------------------------------------------
(* The browser.                                                            *)

Request(picks, args) ==
    /\ pc \in {"shown", "failed"}
    /\ pc' = "used"
    /\ picked' = picks
    /\ url' = args
    /\ offered' = {}
    /\ bounds' = [f \in NumberField |-> Absent]
    /\ options' = [f \in TextField |-> {}]
    /\ list' = {}
    /\ touched' = {}
    /\ UNCHANGED <<items, left, changes>>

ClearAll == Request(NothingPicked, NoUrl)

Reload == Request(picked, url)

\* The values that the inputs of f give the parameter p.
Inputs(f, picks, p) ==
    IF f \notin offered THEN {}
    ELSE IF f \in TextField THEN IF p = f THEN picks.checked[f] ELSE {}
    ELSE IF p = MinParam[f] THEN {picks.limits[f].low}
    ELSE IF p = MaxParam[f] THEN {picks.limits[f].high}
    ELSE {}

FormData(picks) == [p \in Param |-> [f \in Field |-> Inputs(f, picks, p)]]

\* Empty number inputs are submitted, check boxes that are not checked are not.
ApplyFilters ==
    /\ pc = "shown"
    /\ \E limits \in [NumberField -> [low : Limit \cup {Empty}, high : Limit \cup {Empty}]] :
       \E checked \in [TextField -> SUBSET Text] :
           LET picks == [limits |-> limits, checked |-> checked]
           IN  /\ \A f \in NumberField \ offered : limits[f] = NoLimits
               /\ \A f \in TextField : checked[f] \subseteq options[f]
               /\ Request(picks, FormData(picks))
-----------------------------------------------------------------------------
(* index.                                                                  *)

\* Mutant: a filter for every field of the catalog
ReadUsedAll ==
    /\ pc = "used"
    /\ offered' = {f \in Field : Values(f) # {}}
    /\ left' = Field
    /\ pc' = "filters"
    /\ UNCHANGED <<items, picked, url, bounds, options, list, touched, changes>>

ReadUsed ==
    /\ pc = "used"
    /\ offered' = {f \in Field : Values(f) # {}}
    /\ left' = offered'
    /\ pc' = "filters"
    /\ UNCHANGED <<items, picked, url, bounds, options, list, touched, changes>>

\* Mutant: MIN twice
RangeOfMin(f) ==
    LET numbers == {Number[v] : v \in Values(f) \cap Plain}
    IN  IF numbers = {} THEN Absent ELSE [min |-> Min(numbers), max |-> Min(numbers)]

\* Only plain numbers count.
RangeOf(f) ==
    LET numbers == {Number[v] : v \in Values(f) \cap Plain}
    IN  IF numbers = {} THEN Absent ELSE [min |-> Min(numbers), max |-> Max(numbers)]

\* Mutant: every value is cast.
ReadRangeUnguarded(f) ==
    /\ IF Values(f) \subseteq DOMAIN Number
       THEN bounds' = [bounds EXCEPT ![f] = RangeOf(f)] /\ UNCHANGED pc
       ELSE pc' = "failed" /\ UNCHANGED bounds
    /\ UNCHANGED options

ReadRange(f) ==
    /\ bounds' = [bounds EXCEPT ![f] = RangeOf(f)]
    /\ UNCHANGED <<pc, options>>

ReadValues(f) ==
    /\ options' = [options EXCEPT ![f] = Values(f)]
    /\ UNCHANGED <<pc, bounds>>

\* The fields that no other one of S comes before.
First(S) == {f \in S : \A m, n \in DOMAIN Order : Order[m] = f /\ Order[n] \in S => m <= n}

MakeFilter ==
    /\ pc = "filters"
    /\ \E f \in First(left) :
        /\ \/ f \in NumberField /\ ReadRange(f)
           \/ f \in TextField /\ ReadValues(f)
        /\ left' = left \ {f}
    /\ UNCHANGED <<items, picked, url, offered, list, touched, changes>>

\* args.getlist
GetList(p) == UNION {url[p][f] : f \in Field}

\* args.get: the first value, if any; "" is as good as none.
Get(p) ==
    LET given == {f \in Field : url[p][f] # {}}
    IN  IF given = {} THEN Empty
        ELSE CHOOSE v \in Text : \E f \in First(given) : v \in url[p][f]

Conditions ==
    {[field |-> f, op |-> "in", arg |-> GetList(f)] :
        f \in {g \in TextField \cap offered : GetList(g) # {}}}
    \cup {[field |-> f, op |-> ">=", arg |-> Get(MinParam[f])] :
        f \in {g \in NumberField \cap offered : Get(MinParam[g]) # Empty}}
    \cup {[field |-> f, op |-> "<=", arg |-> Get(MaxParam[f])] :
        f \in {g \in NumberField \cap offered : Get(MaxParam[g]) # Empty}}

\* The cast of the item's value raises.
Raises(c, specs) == c.op # "in" /\ specs[c.field] \notin DOMAIN Number \cup {Absent}

\* Mutant: > and <
HoldsStrictly(c, specs) ==
    LET v == specs[c.field]
    IN  /\ v # Absent
        /\ \/ c.op = "in" /\ v \in c.arg
           \/ c.op = ">=" /\ v \in DOMAIN Number /\ Number[v] > Number[c.arg]
           \/ c.op = "<=" /\ v \in DOMAIN Number /\ Number[v] < Number[c.arg]

\* A comparison with NULL is not true.
Holds(c, specs) ==
    LET v == specs[c.field]
    IN  /\ v # Absent
        /\ \/ c.op = "in" /\ v \in c.arg
           \/ c.op = ">=" /\ v \in DOMAIN Number /\ Number[v] >= Number[c.arg]
           \/ c.op = "<=" /\ v \in DOMAIN Number /\ Number[v] <= Number[c.arg]

LimitIsText == \E c \in Conditions : c.op # "in" /\ c.arg \notin DOMAIN Number

MayRaise == LimitIsText \/ \E i \in Items, c \in Conditions : Raises(c, items[i])

\* Of the conditions the server evaluates any one first: a cast raises unless
\* another condition has already rejected the item.
MustRaise ==
    \/ LimitIsText
    \/ \E i \in Items :
        /\ \E c \in Conditions : Raises(c, items[i])
        /\ \A c \in Conditions : Raises(c, items[i]) \/ Holds(c, items[i])

ReadItems ==
    /\ pc = "filters" /\ left = {}
    /\ \/ /\ ~MustRaise
          /\ list' = {i \in Items : \A c \in Conditions : Holds(c, items[i])}
          /\ pc' = "shown"
       \/ /\ MayRaise
          /\ pc' = "failed"
          /\ UNCHANGED list
    /\ UNCHANGED <<items, picked, url, offered, left, bounds, options, touched, changes>>
-----------------------------------------------------------------------------
(* The forms of other pages; Specs has them in detail.                     *)

Change(i, specs) ==
    /\ changes < MaxChanges
    /\ items' = [items EXCEPT ![i] = specs]
    /\ touched' = touched \cup {i}
    /\ changes' = changes + 1
    /\ UNCHANGED <<pc, picked, url, page>>

CreateItem == \E i \in Item \ Items, specs \in SpecsOf : Change(i, specs)

EditSpecs ==
    \E i \in Items, f \in Field : \E v \in Entered[f] \cup {Absent} :
        Change(i, [items[i] EXCEPT ![f] = v])

Next ==
    \/ ClearAll \/ Reload \/ ApplyFilters
    \/ ReadUsed \/ MakeFilter \/ ReadItems
    \/ CreateItem \/ EditSpecs

Spec == Init /\ [][Next]_vars
-----------------------------------------------------------------------------
\* Every variable has its type.
TypeOK ==
    /\ items \in [Item -> SpecsOf \cup {Absent}]
    /\ pc \in {"used", "filters", "shown", "failed"}
    /\ \A f \in NumberField :
        /\ picked.limits[f] \in [low : Limit \cup {Empty}, high : Limit \cup {Empty}]
        /\ bounds[f] # Absent => bounds[f].min <= bounds[f].max
    /\ \A f \in TextField :
        /\ picked.checked[f] \subseteq Entered[f]
        /\ options[f] \subseteq Entered[f]
    /\ \A p \in Param, f \in Field : url[p][f] \subseteq Text
    /\ offered \subseteq Field
    /\ left \subseteq offered
    /\ list \subseteq Items
    /\ touched \subseteq Items
    /\ changes \in 0 .. MaxChanges

\* What the user has entered in the filter of f accepts the value v.
Accepts(f, v) ==
    \/ f \in TextField /\ (picked.checked[f] = {} \/ v \in picked.checked[f])
    \/ /\ f \in NumberField
       /\ LET limits == picked.limits[f]
          IN  /\ limits.low # Empty => v \in DOMAIN Number /\ Number[limits.low] <= Number[v]
              /\ limits.high # Empty => v \in DOMAIN Number /\ Number[v] <= Number[limits.high]

\* The page lists the items that the filters accept (app.py:84-114), whatever
\* other pages change between its statements: it is right about every item
\* that was not itself changed.  A filter on a field that no item uses any
\* more is dropped, not one that accepts nothing (app.py:88).
ListsMatching ==
    pc = "shown" =>
        \A i \in Items \ touched :
            i \in list <=> \A f \in offered : Accepts(f, items[i][f])

\* The filters of a page fit its list (app.py:36-82): each value of an item
\* that was not changed meanwhile has its check box, or lies in the range, and
\* the page offers nothing but what some item had.
FiltersFitList ==
    pc = "shown" =>
        /\ \A i \in list \ touched, f \in Field :
            items[i][f] # Absent =>
                /\ f \in offered
                /\ f \in TextField => items[i][f] \in options[f]
                /\ f \in NumberField /\ items[i][f] \in Plain =>
                       Number[items[i][f]] \in bounds[f].min .. bounds[f].max
        /\ touched = {} => \A f \in TextField : options[f] \subseteq Values(f)

\* A page that sets no limit to a number never fails, and one that does fails
\* only for a value that is not a number (app.py:54, 95, 98).
FailsOnlyByLimit ==
    [][pc # "failed" /\ pc' = "failed" =>
        \E f \in NumberField, i \in Items :
            /\ picked.limits[f] # NoLimits
            /\ items[i][f] \in Text \ DOMAIN Number]_vars
=============================================================================
