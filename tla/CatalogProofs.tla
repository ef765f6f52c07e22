---------------------------- MODULE CatalogProofs ----------------------------
(***************************************************************************)
(* What holds of Catalog for every set of fields, items and texts and any  *)
(* number of changes, with proofs.  That the filters fit the list needs    *)
(* nothing of the names of the inputs; that the list is what the filters   *)
(* accept needs NoClash, without which MCCatalogClash refutes it.          *)
(***************************************************************************)
EXTENDS Catalog, FiniteSetTheorems, WellFoundedInduction, TLAPS

-----------------------------------------------------------------------------
(* The inductive invariant.                                                *)

\* No text field has the name of the limit of a number field.
NoClash ==
    \A f \in NumberField : MinParam[f] \notin TextField /\ MaxParam[f] \notin TextField

\* The variables are functions and sets of the kinds that the page needs.
ShapeInv ==
    /\ items \in [Item -> SpecsOf \cup {Absent}]
    /\ pc \in {"used", "filters", "shown", "failed"}
    /\ bounds = [f \in NumberField |-> bounds[f]]
    /\ \A f \in NumberField : bounds[f] # Absent => bounds[f].min <= bounds[f].max
    /\ options \in [TextField -> SUBSET Text]
    /\ \A f \in TextField : options[f] \subseteq Entered[f]
    /\ offered \subseteq Field
    /\ left \subseteq offered
    /\ list \subseteq Items
    /\ touched \subseteq Items
    /\ changes \in 0 .. MaxChanges

\* Checked texts are those of the field, and limits are numbers.
Pickable(picks) ==
    /\ picks.limits \in [NumberField -> [low : Limit \cup {Empty}, high : Limit \cup {Empty}]]
    /\ picks.checked \in [TextField -> SUBSET Text]
    /\ \A f \in TextField : picks.checked[f] \subseteq Entered[f]

\* What the inputs of a number field with these limits give the parameter p.
GivenLimits(f, limits, p) ==
    IF p = MinParam[f] THEN {limits.low} ELSE IF p = MaxParam[f] THEN {limits.high} ELSE {}

\* The parameters args say what has been entered.
Says(args, picks) ==
    /\ \A p \in Param, f \in Field : args[p][f] \subseteq Text
    /\ \A p \in Param, f \in TextField : args[p][f] = IF p = f THEN picks.checked[f] ELSE {}
    /\ \A f \in NumberField :
        \/ picks.limits[f] = NoLimits /\ \A p \in Param : args[p][f] = {}
        \/ \A p \in Param : args[p][f] = GivenLimits(f, picks.limits[f], p)

\* The page filters by what the user has entered.
UrlInv == Pickable(picked) /\ Says(url, picked)

\* The filters made so far fit the items that no other page has changed.
FiltersInv ==
    /\ pc # "filters" => left = {}
    /\ pc = "used" => offered = {}
    /\ \A f \in TextField : f \notin offered \/ f \in left => options[f] = {}
    /\ touched = {} => \A f \in TextField : options[f] \subseteq Values(f)
    /\ pc \in {"filters", "shown"} =>
        \A i \in Items \ touched, f \in Field :
            items[i][f] # Absent =>
                /\ f \in offered
                /\ f \in TextField \ left => items[i][f] \in options[f]
                /\ f \in NumberField \ left /\ items[i][f] \in Plain =>
                       Number[items[i][f]] \in bounds[f].min .. bounds[f].max

PageInv == ShapeInv /\ UrlInv /\ FiltersInv

IInv == PageInv /\ ListsMatching

-----------------------------------------------------------------------------
(* The range of a number field.                                            *)

\* A finite set of integers has a least and a greatest element.
LEMMA Extremes ==
  ASSUME NEW S \in SUBSET Int, IsFiniteSet(S), S # {}
  PROVE  /\ \E m \in S : \A x \in S : m <= x
         /\ \E m \in S : \A x \in S : x <= m
<1> DEFINE HasBoth(T) == /\ \E m \in T : \A x \in T : m <= x
                         /\ \E m \in T : \A x \in T : x <= m
           Failing == {T \in SUBSET S : T # {} /\ ~HasBoth(T)}
           Sizes == {Cardinality(T) : T \in Failing}
           R == OpToRel(<, Nat)
<1>1. \A T \in SUBSET S : IsFiniteSet(T) /\ Cardinality(T) \in Nat
  BY FS_Subset, FS_CardinalityType
<1>2. ASSUME NEW T \in Failing
      PROVE  \E U \in Failing : Cardinality(U) < Cardinality(T)
  <2>1. PICK t \in T : TRUE
    OBVIOUS
  <2>2. /\ IsFiniteSet(T \ {t}) /\ Cardinality(T \ {t}) = Cardinality(T) - 1
        /\ Cardinality(T) \in Nat
    BY <1>1, <2>1, FS_RemoveElement
  <2>3. T \ {t} # {}
    <3> SUFFICES ASSUME T = {t} PROVE FALSE
      BY <2>1
    <3>1. t \in Int
      BY <2>1
    <3>2. HasBoth(T)
      BY <3>1
    <3> QED BY <3>2
  <2>4. ~HasBoth(T \ {t})
    <3> SUFFICES ASSUME HasBoth(T \ {t}) PROVE FALSE
      OBVIOUS
    <3>1. PICK low \in T \ {t} : \A x \in T \ {t} : low <= x
      OBVIOUS
    <3>2. PICK high \in T \ {t} : \A x \in T \ {t} : x <= high
      OBVIOUS
    <3>3. T \subseteq Int /\ t \in T
      BY <2>1
    <3>4. \E m \in T : \A x \in T : m <= x
      <4>1. CASE t <= low
        <5>1. \A x \in T : t <= x
          BY <3>1, <3>3, <4>1
        <5> QED BY <3>3, <5>1
      <4>2. CASE ~(t <= low)
        <5>1. \A x \in T : low <= x
          BY <3>1, <3>3, <4>2
        <5> QED BY <5>1
      <4> QED BY <4>1, <4>2
    <3>5. \E m \in T : \A x \in T : x <= m
      <4>1. CASE high <= t
        <5>1. \A x \in T : x <= t
          BY <3>2, <3>3, <4>1
        <5> QED BY <3>3, <5>1
      <4>2. CASE ~(high <= t)
        <5>1. \A x \in T : x <= high
          BY <3>2, <3>3, <4>2
        <5> QED BY <5>1
      <4> QED BY <4>1, <4>2
    <3> QED BY <3>4, <3>5
  <2>5. T \ {t} \in Failing
    BY <2>3, <2>4
  <2> HIDE DEF HasBoth, Failing
  <2>6. Cardinality(T \ {t}) < Cardinality(T)
    BY <2>2
  <2> QED BY <2>5, <2>6
<1>3. Failing = {}
  <2> SUFFICES ASSUME Failing # {} PROVE FALSE
    OBVIOUS
  <2> HIDE DEF HasBoth
  <2>1. Sizes \subseteq Nat /\ Sizes # {}
    BY <1>1
  <2>2. IsWellFoundedOn(R, Nat)
    BY NatLessThanWellFounded
  <2>3. \A m, n \in Nat : m < n => <<m, n>> \in R
    BY Zenon DEF OpToRel
  <2> HIDE DEF R, Failing
  <2>4. PICK n \in Sizes : \A m \in Sizes : ~(<<m, n>> \in R)
    BY <2>1, <2>2, WFMin
  <2>5. PICK T \in Failing : Cardinality(T) = n
    BY <2>4
  <2>6. PICK U \in Failing : Cardinality(U) < Cardinality(T)
    BY <1>2, <2>5
  <2>7. Cardinality(U) \in Sizes
    BY <2>6
  <2> QED BY <2>1, <2>3, <2>4, <2>5, <2>6, <2>7
<1> QED BY <1>3

LEMMA RangeHolds ==
  ASSUME CatalogAssumption, items \in [Item -> SpecsOf \cup {Absent}], NEW f \in NumberField
  PROVE  /\ RangeOf(f) # Absent => RangeOf(f).min <= RangeOf(f).max
         /\ \A v \in Values(f) \cap Plain : Number[v] \in RangeOf(f).min .. RangeOf(f).max
<1> DEFINE numbers == {Number[v] : v \in Values(f) \cap Plain}
           having == {i \in Items : items[i][f] \in Values(f) \cap Plain}
           numberOf == [i \in having |-> Number[items[i][f]]]
<1>1. numbers \subseteq Int
  BY DEF CatalogAssumption
<1>2. IsFiniteSet(numbers)
  <2>1. having \subseteq Item
    BY DEF Items
  <2>2. IsFiniteSet(having)
    BY <2>1, FS_Subset DEF CatalogAssumption
  <2>3. numberOf \in [having -> numbers]
    OBVIOUS
  <2>4. \A x \in numbers : \E i \in having : numberOf[i] = x
    <3> SUFFICES ASSUME NEW v \in Values(f) \cap Plain
                 PROVE  \E i \in having : numberOf[i] = Number[v]
      OBVIOUS
    <3>1. PICK i \in Items : items[i][f] = v
      BY DEF Values
    <3> QED BY <3>1
  <2>5. numberOf \in Surjection(having, numbers)
    BY <2>3, <2>4 DEF Surjection
  <2> QED BY <2>2, <2>5, FS_Surjection
<1>3. CASE numbers = {}
  <2>1. \A v \in Values(f) \cap Plain : Number[v] \in numbers
    OBVIOUS
  <2>2. RangeOf(f) = Absent
    BY <1>3, Zenon DEF RangeOf
  <2> QED BY <1>3, <2>1, <2>2
<1>4. CASE numbers # {}
  <2>1. /\ Min(numbers) \in numbers /\ \A x \in numbers : Min(numbers) <= x
        /\ Max(numbers) \in numbers /\ \A x \in numbers : x <= Max(numbers)
    <3>1. /\ \E m \in numbers : \A x \in numbers : m <= x
          /\ \E m \in numbers : \A x \in numbers : x <= m
      BY <1>1, <1>2, <1>4, Extremes
    <3> HIDE DEF numbers
    <3>2. \E m \in numbers : \A x \in numbers : m >= x
      BY <1>1, <3>1
    <3>3. Min(numbers) \in numbers /\ \A x \in numbers : Min(numbers) <= x
      BY <3>1 DEF Min
    <3>4. Max(numbers) \in numbers /\ \A x \in numbers : Max(numbers) >= x
      BY <3>2 DEF Max
    <3> QED BY <1>1, <3>3, <3>4
  <2>2. RangeOf(f) = [min |-> Min(numbers), max |-> Max(numbers)]
    BY <1>4 DEF RangeOf
  <2> HIDE DEF numbers
  <2>3. RangeOf(f).min = Min(numbers) /\ RangeOf(f).max = Max(numbers)
    BY <2>2
  <2>4. Min(numbers) \in Int /\ Max(numbers) \in Int
    BY <1>1, <2>1
  <2>5. \A v \in Values(f) \cap Plain : Number[v] \in numbers
    BY DEF numbers
  <2> QED BY <1>1, <2>1, <2>3, <2>4, <2>5
<1> QED BY <1>3, <1>4

-----------------------------------------------------------------------------
(* Every step keeps the page in order.                                     *)

\* The texts of a field are among those that users enter there.
LEMMA ValuesEntered ==
  ASSUME items \in [Item -> SpecsOf \cup {Absent}], NEW f \in Field
  PROVE  /\ Values(f) \subseteq Entered[f]
         /\ Values(f) \subseteq Text
         /\ \A i \in Items : items[i] \in SpecsOf /\ items[i][f] \in Entered[f] \cup {Absent}
<1>1. \A i \in Items : items[i] \in SpecsOf
  BY DEF Items
<1>2. \A i \in Items : items[i][f] \in Entered[f] \cup {Absent}
  BY <1>1 DEF SpecsOf
<1>3. Entered[f] \subseteq Text
  BY DEF Text
<1> QED BY <1>1, <1>2, <1>3 DEF Values

LEMMA InitInv == CatalogAssumption /\ Init => IInv
<1> SUFFICES ASSUME CatalogAssumption, Init PROVE IInv
  OBVIOUS
<1>1. ShapeInv
  BY DEF CatalogAssumption, Init, ShapeInv
<1>2. UrlInv
  <2>1. Pickable(picked)
    BY DEF Init, NothingPicked, NoLimits, Pickable
  <2>2. Says(url, picked)
    BY DEF Init, NothingPicked, NoUrl, Says, TextField
  <2> QED BY <2>1, <2>2 DEF UrlInv
<1>3. FiltersInv
  BY DEF Init, FiltersInv
<1>4. ListsMatching
  BY DEF Init, ListsMatching
<1> QED BY <1>1, <1>2, <1>3, <1>4 DEF IInv, PageInv

LEMMA RequestKeeps ==
  ASSUME PageInv, NEW picks, NEW args, Request(picks, args), Pickable(picks), Says(args, picks)
  PROVE  PageInv'
<1> USE DEF PageInv, Request
<1>1. ShapeInv'
  <2>1. left' = {}
    BY DEF FiltersInv
  <2> QED BY <2>1 DEF ShapeInv, Items
<1>2. UrlInv'
  <2>1. picked' = picks /\ url' = args
    OBVIOUS
  <2>2. Pickable(picked') /\ Says(url', picked')
    BY <2>1
  <2> QED BY <2>2 DEF UrlInv
<1>3. FiltersInv'
  BY DEF FiltersInv, TextField
<1> QED BY <1>1, <1>2, <1>3

LEMMA ClearAllKeeps == CatalogAssumption /\ PageInv /\ ClearAll => PageInv'
<1> SUFFICES ASSUME CatalogAssumption, PageInv, ClearAll PROVE PageInv'
  OBVIOUS
<1>1. Pickable(NothingPicked)
  BY DEF NothingPicked, NoLimits, Pickable
<1>2. Says(NoUrl, NothingPicked)
  <2>1. \A p \in Param, f \in Field : NoUrl[p][f] = {}
    BY DEF NoUrl
  <2>2. \A f \in NumberField : NothingPicked.limits[f] = NoLimits
    BY DEF NothingPicked
  <2>3. \A f \in TextField : f \in Field /\ NothingPicked.checked[f] = {}
    BY DEF NothingPicked, TextField
  <2>4. NumberField \subseteq Field
    BY DEF CatalogAssumption
  <2> QED BY <2>1, <2>2, <2>3, <2>4 DEF Says
<1> QED BY <1>1, <1>2, RequestKeeps DEF ClearAll

LEMMA ReloadKeeps == PageInv /\ Reload => PageInv'
BY RequestKeeps DEF Reload, PageInv, UrlInv

\* The inputs of the page's form submit what the user entered in them.
LEMMA FormSays ==
  ASSUME CatalogAssumption, NEW picks, Pickable(picks),
         \A f \in NumberField \ offered : picks.limits[f] = NoLimits,
         \A f \in TextField \ offered : picks.checked[f] = {}
  PROVE  Says(FormData(picks), picks)
<1> DEFINE args == FormData(picks)
<1>1. \A p \in Param, f \in Field : args[p][f] = Inputs(f, picks, p)
  BY DEF FormData
<1>2. TextField \subseteq Field /\ NumberField \subseteq Field /\ TextField \cap NumberField = {}
  BY DEF CatalogAssumption, TextField
<1>3. \A p \in Param, f \in TextField : args[p][f] = IF p = f THEN picks.checked[f] ELSE {}
  BY <1>1, <1>2 DEF Inputs
<1>4. ASSUME NEW f \in NumberField
      PROVE  \/ picks.limits[f] = NoLimits /\ \A p \in Param : args[p][f] = {}
             \/ \A p \in Param : args[p][f] = GivenLimits(f, picks.limits[f], p)
  <2>1. CASE f \in offered
    BY <1>1, <1>2, <2>1 DEF Inputs, GivenLimits
  <2>2. CASE f \notin offered
    BY <1>1, <1>2, <2>2 DEF Inputs
  <2> QED BY <2>1, <2>2
<1>5. ASSUME NEW p \in Param, NEW f \in Field
      PROVE  args[p][f] \subseteq Text
  <2>1. CASE f \in TextField
    BY <1>3, <2>1 DEF Pickable
  <2>2. CASE f \in NumberField
    <3>1. Limit \cup {Empty} \subseteq Text
      BY DEF Text
    <3>2. picks.limits[f] \in [low : Limit \cup {Empty}, high : Limit \cup {Empty}]
      BY <2>2 DEF Pickable
    <3>3. picks.limits[f].low \in Text /\ picks.limits[f].high \in Text
      BY <3>1, <3>2
    <3>4. args[p][f] = {} \/ args[p][f] = GivenLimits(f, picks.limits[f], p)
      BY <1>4, <2>2
    <3> HIDE DEF args
    <3> QED BY <3>3, <3>4 DEF GivenLimits
  <2> QED BY <2>1, <2>2 DEF TextField
<1> HIDE DEF args
<1> QED BY <1>3, <1>4, <1>5 DEF args, Says

LEMMA ApplyFiltersKeeps == CatalogAssumption /\ PageInv /\ ApplyFilters => PageInv'
<1> SUFFICES ASSUME CatalogAssumption, PageInv, ApplyFilters PROVE PageInv'
  OBVIOUS
<1>1. PICK limits \in [NumberField -> [low : Limit \cup {Empty}, high : Limit \cup {Empty}]],
           checked \in [TextField -> SUBSET Text] :
        /\ \A f \in NumberField \ offered : limits[f] = NoLimits
        /\ \A f \in TextField : checked[f] \subseteq options[f]
        /\ Request([limits |-> limits, checked |-> checked],
                   FormData([limits |-> limits, checked |-> checked]))
  BY DEF ApplyFilters
<1> DEFINE picks == [limits |-> limits, checked |-> checked]
<1>2. picks.limits = limits /\ picks.checked = checked
  OBVIOUS
<1>3. \A f \in TextField : checked[f] \subseteq Entered[f]
  BY <1>1 DEF PageInv, ShapeInv
<1>4. Pickable(picks)
  BY <1>2, <1>3 DEF Pickable
<1>5. \A f \in TextField \ offered : picks.checked[f] = {}
  BY <1>1, <1>2 DEF PageInv, FiltersInv
<1> HIDE DEF picks
<1>6. Says(FormData(picks), picks)
  BY <1>1, <1>2, <1>4, <1>5, FormSays
<1> QED BY <1>1, <1>4, <1>6, RequestKeeps DEF picks

LEMMA ReadUsedKeeps == PageInv /\ ReadUsed => PageInv'
<1> SUFFICES ASSUME PageInv, ReadUsed PROVE PageInv'
  OBVIOUS
<1> USE DEF PageInv, ReadUsed
<1>1. ShapeInv'
  BY DEF ShapeInv, Items
<1>2. UrlInv'
  BY DEF UrlInv, Pickable, Says
<1>3. FiltersInv'
  <2>1. Items' = Items /\ \A f \in Field : Values(f)' = Values(f)
    BY DEF Items, Values
  <2>2. \A f \in TextField : options'[f] = {}
    BY DEF FiltersInv
  <2>3. \A i \in Items, f \in Field : items[i][f] # Absent => f \in offered'
    BY DEF Values
  <2> QED BY <2>1, <2>2, <2>3 DEF FiltersInv
<1> QED BY <1>1, <1>2, <1>3

LEMMA MakeFilterKeeps == CatalogAssumption /\ PageInv /\ MakeFilter => PageInv'
<1> SUFFICES ASSUME CatalogAssumption, PageInv, MakeFilter PROVE PageInv'
  OBVIOUS
<1> USE DEF PageInv
<1>1. PICK f \in left :
        /\ \/ f \in NumberField /\ ReadRange(f)
           \/ f \in TextField /\ ReadValues(f)
        /\ left' = left \ {f}
  BY DEF MakeFilter, First
<1>2. /\ pc = "filters" /\ pc' = pc
      /\ UNCHANGED <<items, picked, url, offered, list, touched, changes>>
  BY DEF MakeFilter, ReadRange, ReadValues
<1>3. Items' = Items /\ \A g : Values(g)' = Values(g)
  BY <1>2 DEF Items, Values
<1>4. UrlInv'
  BY <1>2 DEF UrlInv, Pickable, Says
<1>5. f \in Field /\ f \in offered
  BY DEF ShapeInv
<1>6. CASE f \in NumberField /\ ReadRange(f)
  <2>1. options' = options /\ bounds' = [bounds EXCEPT ![f] = RangeOf(f)]
    BY <1>6 DEF ReadRange
  <2>2. /\ RangeOf(f) # Absent => RangeOf(f).min <= RangeOf(f).max
        /\ \A v \in Values(f) \cap Plain : Number[v] \in RangeOf(f).min .. RangeOf(f).max
    BY <1>6, RangeHolds DEF ShapeInv
  <2>3. bounds'[f] = RangeOf(f) /\ \A g \in NumberField : g # f => bounds'[g] = bounds[g]
    BY <1>6, <2>1 DEF ShapeInv
  <2>4. bounds' = [g \in NumberField |-> bounds'[g]]
    BY <1>6, <2>1 DEF ShapeInv
  <2>5. ShapeInv'
    <3>1. \A g \in NumberField : bounds'[g] # Absent => bounds'[g].min <= bounds'[g].max
      BY <2>2, <2>3 DEF ShapeInv
    <3> QED BY <1>1, <1>2, <1>3, <2>1, <2>4, <3>1 DEF ShapeInv
  <2>6. FiltersInv'
    <3>1. ASSUME NEW i \in Items \ touched, NEW g \in Field, items[i][g] # Absent,
                 g \in NumberField \ left', items[i][g] \in Plain
          PROVE  Number[items[i][g]] \in bounds'[g].min .. bounds'[g].max
      <4>1. CASE g = f
        <5>1. items[i][g] \in Values(f) \cap Plain
          BY <3>1, <4>1 DEF Values
        <5> QED BY <2>2, <2>3, <4>1, <5>1
      <4>2. CASE g # f
        BY <1>1, <1>2, <2>3, <3>1, <4>2 DEF FiltersInv
      <4> QED BY <4>1, <4>2
    <3>2. f \notin TextField
      BY <1>6 DEF TextField
    <3> QED BY <1>1, <1>2, <1>3, <2>1, <3>1, <3>2 DEF FiltersInv
  <2> QED BY <1>4, <2>5, <2>6
<1>7. CASE f \in TextField /\ ReadValues(f)
  <2>1. bounds' = bounds /\ options' = [options EXCEPT ![f] = Values(f)]
    BY <1>7 DEF ReadValues
  <2>2. options'[f] = Values(f) /\ \A g \in TextField : g # f => options'[g] = options[g]
    BY <1>7, <2>1 DEF ShapeInv
  <2>3. Values(f) \subseteq Entered[f] /\ Values(f) \subseteq Text
    BY <1>5, ValuesEntered DEF ShapeInv
  <2>4. ShapeInv'
    <3>1. options' \in [TextField -> SUBSET Text]
      BY <2>1, <2>3 DEF ShapeInv
    <3>2. \A g \in TextField : options'[g] \subseteq Entered[g]
      BY <2>2, <2>3 DEF ShapeInv
    <3> QED BY <1>1, <1>2, <1>3, <2>1, <3>1, <3>2 DEF ShapeInv
  <2>5. FiltersInv'
    <3>1. ASSUME NEW i \in Items \ touched, NEW g \in Field, items[i][g] # Absent,
                 g \in TextField \ left'
          PROVE  items[i][g] \in options'[g]
      <4>1. CASE g = f
        BY <2>2, <3>1, <4>1 DEF Values
      <4>2. CASE g # f
        BY <1>1, <1>2, <2>2, <3>1, <4>2 DEF FiltersInv
      <4> QED BY <4>1, <4>2
    <3>2. f \notin NumberField
      BY <1>7 DEF TextField
    <3>3. \A g \in TextField : g \notin offered' \/ g \in left' => options'[g] = {}
      BY <1>1, <1>2, <1>5, <2>2 DEF FiltersInv
    <3>4. touched' = {} => \A g \in TextField : options'[g] \subseteq Values(g)'
      BY <1>2, <1>3, <2>2 DEF FiltersInv
    <3> QED BY <1>1, <1>2, <1>3, <2>1, <3>1, <3>2, <3>3, <3>4 DEF FiltersInv
  <2> QED BY <1>4, <2>4, <2>5
<1> QED BY <1>1, <1>6, <1>7

LEMMA ReadItemsKeeps == PageInv /\ ReadItems => PageInv'
<1> SUFFICES ASSUME PageInv, ReadItems PROVE PageInv'
  OBVIOUS
<1> USE DEF PageInv
<1>1. /\ pc = "filters" /\ left = {} /\ pc' \in {"shown", "failed"}
      /\ list' = list \/ list' \subseteq Items
      /\ UNCHANGED <<items, picked, url, offered, left, bounds, options, touched, changes>>
  BY DEF ReadItems
<1>2. Items' = Items /\ \A g : Values(g)' = Values(g)
  BY <1>1 DEF Items, Values
<1>3. ShapeInv'
  BY <1>1, <1>2 DEF ShapeInv
<1>4. UrlInv'
  BY <1>1 DEF UrlInv, Pickable, Says
<1>5. FiltersInv'
  BY <1>1, <1>2 DEF FiltersInv
<1> QED BY <1>3, <1>4, <1>5

\* A change by another page leaves the other items as they are.
LEMMA ChangeKeeps ==
  ASSUME CatalogAssumption, PageInv, NEW i \in Item, NEW specs \in SpecsOf, Change(i, specs)
  PROVE  /\ PageInv'
         /\ \A j \in Items' \ touched' : j \in Items \ touched /\ items'[j] = items[j]
<1> USE DEF PageInv
<1>1. /\ items' = [items EXCEPT ![i] = specs] /\ touched' = touched \cup {i}
      /\ changes < MaxChanges /\ changes' = changes + 1
      /\ UNCHANGED <<pc, picked, url, offered, left, bounds, options, list>>
  BY DEF Change, page
<1>2. specs # Absent
  BY DEF CatalogAssumption, SpecsOf
<1>3. Items' = Items \cup {i}
  BY <1>1, <1>2 DEF Items, ShapeInv
<1>4. \A j \in Item : j # i => items'[j] = items[j]
  BY <1>1 DEF ShapeInv
<1>5. \A j \in Items' \ touched' : j \in Items \ touched /\ items'[j] = items[j]
  BY <1>1, <1>3, <1>4 DEF Items
<1>6. ShapeInv'
  <2>1. items' \in [Item -> SpecsOf \cup {Absent}]
    BY <1>1 DEF ShapeInv
  <2>2. changes' \in 0 .. MaxChanges
    BY <1>1 DEF ShapeInv, CatalogAssumption
  <2> QED BY <1>1, <1>3, <2>1, <2>2 DEF ShapeInv
<1>7. UrlInv'
  BY <1>1 DEF UrlInv, Pickable, Says
<1>8. FiltersInv'
  <2>1. touched' # {}
    BY <1>1
  <2> QED BY <1>1, <1>5, <2>1 DEF FiltersInv
<1> QED BY <1>5, <1>6, <1>7, <1>8

LEMMA OtherPagesChange ==
  ASSUME CatalogAssumption, PageInv, CreateItem \/ EditSpecs
  PROVE  \E i \in Item, specs \in SpecsOf : Change(i, specs)
<1>1. CASE CreateItem
  BY <1>1 DEF CreateItem
<1>2. CASE EditSpecs
  <2>1. PICK i \in Items, f \in Field :
          \E v \in Entered[f] \cup {Absent} : Change(i, [items[i] EXCEPT ![f] = v])
    BY <1>2 DEF EditSpecs
  <2>2. PICK v \in Entered[f] \cup {Absent} : Change(i, [items[i] EXCEPT ![f] = v])
    BY <2>1
  <2>3. items[i] \in SpecsOf /\ i \in Item
    BY DEF Items, PageInv, ShapeInv
  <2>4. v \in Text \cup {Absent}
    BY DEF Text
  <2>5. [items[i] EXCEPT ![f] = v] \in SpecsOf
    BY <2>3, <2>4 DEF SpecsOf
  <2> QED BY <2>2, <2>3, <2>5
<1> QED BY <1>1, <1>2

LEMMA StutterKeeps == PageInv /\ UNCHANGED vars => PageInv'
<1> SUFFICES ASSUME PageInv, UNCHANGED vars PROVE PageInv'
  OBVIOUS
<1> USE DEF vars, page, PageInv
<1>1. Items' = Items /\ \A g : Values(g)' = Values(g)
  BY DEF Items, Values
<1>2. ShapeInv'
  BY <1>1 DEF ShapeInv
<1>3. UrlInv'
  BY DEF UrlInv, Pickable, Says
<1>4. FiltersInv'
  BY <1>1 DEF FiltersInv
<1> QED BY <1>2, <1>3, <1>4

LEMMA StepKeeps == CatalogAssumption /\ PageInv /\ [Next]_vars => PageInv'
<1> SUFFICES ASSUME CatalogAssumption, PageInv, [Next]_vars PROVE PageInv'
  OBVIOUS
<1>1. CASE ClearAll
  BY <1>1, ClearAllKeeps
<1>2. CASE Reload
  BY <1>2, ReloadKeeps
<1>3. CASE ApplyFilters
  BY <1>3, ApplyFiltersKeeps
<1>4. CASE ReadUsed
  BY <1>4, ReadUsedKeeps
<1>5. CASE MakeFilter
  BY <1>5, MakeFilterKeeps
<1>6. CASE ReadItems
  BY <1>6, ReadItemsKeeps
<1>7. CASE CreateItem \/ EditSpecs
  BY <1>7, OtherPagesChange, ChangeKeeps
<1>8. CASE UNCHANGED vars
  BY <1>8, StutterKeeps
<1> QED BY <1>1, <1>2, <1>3, <1>4, <1>5, <1>6, <1>7, <1>8 DEF Next

\* The variables, the URL and the filters are as PageInv says (app.py:36-118).
LEMMA PageInOrder == Spec => []PageInv
<1>1. Init => PageInv
  BY InitInv, CatalogAssumption DEF IInv
<1>2. PageInv /\ [Next]_vars => PageInv'
  BY StepKeeps, CatalogAssumption
<1> QED BY <1>1, <1>2, PTL DEF Spec

\* Every variable has its type, and the minimum of a filter is never above its
\* maximum (app.py:49-72).
THEOREM TypeCorrect == Spec => []TypeOK
<1>1. ASSUME PageInv PROVE TypeOK
  <2>1. UrlInv /\ ShapeInv
    BY <1>1 DEF PageInv
  <2>2. \A f \in NumberField :
          picked.limits[f] \in [low : Limit \cup {Empty}, high : Limit \cup {Empty}]
    BY <2>1 DEF UrlInv, Pickable
  <2>3. \A f \in TextField : picked.checked[f] \subseteq Entered[f]
    BY <2>1 DEF UrlInv, Pickable
  <2>4. \A p \in Param, f \in Field : url[p][f] \subseteq Text
    BY <2>1 DEF UrlInv, Says
  <2> QED BY <2>1, <2>2, <2>3, <2>4 DEF TypeOK, ShapeInv
<1> QED BY <1>1, PageInOrder, PTL

\* The filters fit the list, for every catalog and any changes meanwhile
\* (app.py:36-82).
THEOREM FiltersFitListAlways == Spec => []FiltersFitList
<1>1. ASSUME PageInv PROVE FiltersFitList
  <2> SUFFICES ASSUME pc = "shown"
               PROVE  /\ \A i \in list \ touched, f \in Field :
                           items[i][f] # Absent =>
                               /\ f \in offered
                               /\ f \in TextField => items[i][f] \in options[f]
                               /\ f \in NumberField /\ items[i][f] \in Plain =>
                                      Number[items[i][f]] \in bounds[f].min .. bounds[f].max
                      /\ touched = {} => \A f \in TextField : options[f] \subseteq Values(f)
    BY DEF FiltersFitList
  <2>1. left = {} /\ list \subseteq Items
    BY <1>1 DEF PageInv, FiltersInv, ShapeInv
  <2> QED BY <1>1, <2>1 DEF PageInv, FiltersInv
<1> QED BY <1>1, PageInOrder, PTL

-----------------------------------------------------------------------------
(* The list is what the filters accept, when the names do not clash.       *)

\* getlist gives what is checked, and get the limits as they were entered.
LEMMA CheckedRead ==
  ASSUME CatalogAssumption, NoClash, UrlInv, NEW f \in TextField
  PROVE  GetList(f) = picked.checked[f]
<1>1. f \in Param /\ f \in Field /\ NumberField \subseteq Field
  BY DEF Param, TextField, CatalogAssumption
<1>2. \A g \in TextField : url[f][g] = IF f = g THEN picked.checked[g] ELSE {}
  BY <1>1 DEF UrlInv, Says
<1>3. \A g \in NumberField : url[f][g] = {}
  <2> SUFFICES ASSUME NEW g \in NumberField PROVE url[f][g] = {}
    OBVIOUS
  <2>1. f # MinParam[g] /\ f # MaxParam[g]
    BY DEF NoClash
  <2>2. GivenLimits(g, picked.limits[g], f) = {}
    BY <2>1 DEF GivenLimits
  <2> QED BY <1>1, <2>2 DEF UrlInv, Says
<1>4. \A g \in Field : url[f][g] = IF f = g THEN picked.checked[g] ELSE {}
  BY <1>2, <1>3 DEF TextField
<1> QED BY <1>1, <1>4 DEF GetList

LEMMA OnlyFirst ==
  ASSUME CatalogAssumption, NEW f \in Field
  PROVE  First({f}) = {f}
<1>1. DOMAIN Order \subseteq Int
  BY DEF CatalogAssumption
<1>2. \A m, n \in DOMAIN Order : Order[m] = Order[n] => m = n
  BY DEF CatalogAssumption, IsInjective
<1> QED BY <1>1, <1>2 DEF First

\* If only the field f gives the parameter p a value, get returns that one.
LEMMA OnlyValueGot ==
  ASSUME CatalogAssumption, NEW p, NEW f \in Field, NEW v \in Text,
         url[p][f] = {v}, \A g \in Field : g # f => url[p][g] = {}
  PROVE  Get(p) = v
<1> DEFINE given == {g \in Field : url[p][g] # {}}
<1>1. given = {f}
  OBVIOUS
<1>2. First(given) = {f}
  BY <1>1, OnlyFirst
<1>3. given # {}
  BY <1>1
<1>4. Get(p) = CHOOSE w \in Text : \E g \in First(given) : w \in url[p][g]
  BY <1>3 DEF Get
<1> HIDE DEF given
<1>5. \A w \in Text : (\E g \in First(given) : w \in url[p][g]) <=> w = v
  BY <1>2
<1>6. Get(p) \in Text /\ \E g \in First(given) : Get(p) \in url[p][g]
  BY <1>4, <1>5
<1> QED BY <1>5, <1>6

LEMMA NothingGot ==
  ASSUME NEW p, \A g \in Field : url[p][g] = {}
  PROVE  Get(p) = Empty
BY DEF Get

LEMMA LimitsRead ==
  ASSUME CatalogAssumption, NoClash, UrlInv, NEW f \in NumberField
  PROVE  /\ Get(MinParam[f]) = picked.limits[f].low
         /\ Get(MaxParam[f]) = picked.limits[f].high
         /\ picked.limits[f].low \in Limit \cup {Empty}
         /\ picked.limits[f].high \in Limit \cup {Empty}
<1>1. f \in Field /\ MinParam[f] \in Param /\ MaxParam[f] \in Param
  BY DEF Param, CatalogAssumption
<1>2. picked.limits[f] \in [low : Limit \cup {Empty}, high : Limit \cup {Empty}]
  BY DEF UrlInv, Pickable
<1>3. Limit \cup {Empty} \subseteq Text
  BY DEF Text
<1>4. ASSUME NEW g \in Field, g # f
      PROVE  url[MinParam[f]][g] = {} /\ url[MaxParam[f]][g] = {}
  <2>1. CASE g \in TextField
    <3>1. MinParam[f] # g /\ MaxParam[f] # g
      BY <2>1 DEF NoClash
    <3> QED BY <1>1, <2>1, <3>1 DEF UrlInv, Says
  <2>2. CASE g \in NumberField
    <3>1. /\ MinParam[f] # MinParam[g] /\ MinParam[f] # MaxParam[g]
          /\ MaxParam[f] # MinParam[g] /\ MaxParam[f] # MaxParam[g]
      BY <1>4, <2>2 DEF CatalogAssumption
    <3>2. /\ GivenLimits(g, picked.limits[g], MinParam[f]) = {}
          /\ GivenLimits(g, picked.limits[g], MaxParam[f]) = {}
      BY <3>1 DEF GivenLimits
    <3> QED BY <1>1, <2>2, <3>2 DEF UrlInv, Says
  <2> QED BY <2>1, <2>2 DEF TextField
<1>5. CASE picked.limits[f] = NoLimits /\ \A p \in Param : url[p][f] = {}
  <2>1. \A g \in Field : url[MinParam[f]][g] = {} /\ url[MaxParam[f]][g] = {}
    BY <1>1, <1>4, <1>5
  <2>2. Get(MinParam[f]) = Empty /\ Get(MaxParam[f]) = Empty
    BY <2>1, NothingGot
  <2> QED BY <1>2, <1>5, <2>2 DEF NoLimits
<1>6. CASE \A p \in Param : url[p][f] = GivenLimits(f, picked.limits[f], p)
  <2>1. MaxParam[f] # MinParam[f]
    BY DEF CatalogAssumption
  <2>2. /\ url[MinParam[f]][f] = {picked.limits[f].low}
        /\ url[MaxParam[f]][f] = {picked.limits[f].high}
    BY <1>1, <1>6, <2>1 DEF GivenLimits
  <2>3. PICK low \in Text, high \in Text : low = picked.limits[f].low /\ high = picked.limits[f].high
    BY <1>2, <1>3
  <2>4. url[MinParam[f]][f] = {low} /\ \A g \in Field : g # f => url[MinParam[f]][g] = {}
    BY <1>4, <2>2, <2>3
  <2>5. url[MaxParam[f]][f] = {high} /\ \A g \in Field : g # f => url[MaxParam[f]][g] = {}
    BY <1>4, <2>2, <2>3
  <2>6. Get(MinParam[f]) = low
    <3>1. \A p : url[p][f] = {low} /\ (\A g \in Field : g # f => url[p][g] = {}) => Get(p) = low
      BY <1>1, OnlyValueGot
    <3> QED BY <2>4, <3>1
  <2>7. Get(MaxParam[f]) = high
    <3>1. \A p : url[p][f] = {high} /\ (\A g \in Field : g # f => url[p][g] = {}) => Get(p) = high
      BY <1>1, OnlyValueGot
    <3> QED BY <2>5, <3>1
  <2> QED BY <1>2, <2>3, <2>6, <2>7
<1> QED BY <1>5, <1>6 DEF UrlInv, Says

\* What the conditions of the statement are, in terms of what was entered.
LEMMA ConditionsRead ==
  ASSUME CatalogAssumption, NoClash, PageInv
  PROVE  Conditions =
           {[field |-> f, op |-> "in", arg |-> picked.checked[f]] :
               f \in {g \in TextField \cap offered : picked.checked[g] # {}}}
           \cup {[field |-> f, op |-> ">=", arg |-> picked.limits[f].low] :
               f \in {g \in NumberField \cap offered : picked.limits[g].low # Empty}}
           \cup {[field |-> f, op |-> "<=", arg |-> picked.limits[f].high] :
               f \in {g \in NumberField \cap offered : picked.limits[g].high # Empty}}
<1>1. \A f \in TextField : GetList(f) = picked.checked[f]
  BY CheckedRead DEF PageInv
<1>2. \A f \in NumberField : /\ Get(MinParam[f]) = picked.limits[f].low
                             /\ Get(MaxParam[f]) = picked.limits[f].high
  BY LimitsRead DEF PageInv
<1> QED BY <1>1, <1>2 DEF Conditions

\* The statement's conditions hold of the items that the filters accept.
LEMMA ConditionsAccept ==
  ASSUME CatalogAssumption, NoClash, PageInv, NEW i \in Items
  PROVE  (\A c \in Conditions : Holds(c, items[i]))
           <=> \A f \in offered : Accepts(f, items[i][f])
<1>1. offered \subseteq Field /\ items \in [Item -> SpecsOf \cup {Absent}]
  BY DEF PageInv, ShapeInv
<1>2. TextField \cap NumberField = {}
  BY DEF TextField
<1>3. Absent \notin Text \cup DOMAIN Number
  BY DEF CatalogAssumption
<1>4. \A f \in TextField : picked.checked[f] \subseteq Text
  BY DEF PageInv, UrlInv, Pickable
<1>5. \A f \in NumberField : /\ picked.limits[f].low \in Limit \cup {Empty}
                             /\ picked.limits[f].high \in Limit \cup {Empty}
  BY LimitsRead DEF PageInv
<1>6. /\ Limit \subseteq DOMAIN Number
      /\ \A v \in DOMAIN Number : Number[v] \in Int
  BY DEF CatalogAssumption
<1>7. ASSUME \A f \in offered : Accepts(f, items[i][f]), NEW c \in Conditions
      PROVE  Holds(c, items[i])
  <2>1. CASE \E f \in TextField \cap offered :
                picked.checked[f] # {} /\ c = [field |-> f, op |-> "in", arg |-> picked.checked[f]]
    <3>1. PICK f \in TextField \cap offered :
                picked.checked[f] # {} /\ c = [field |-> f, op |-> "in", arg |-> picked.checked[f]]
      BY <2>1
    <3>2. items[i][f] \in picked.checked[f]
      BY <1>2, <1>7, <3>1 DEF Accepts
    <3>3. c.field = f /\ c.op = "in" /\ c.arg = picked.checked[f]
      BY <3>1
    <3> QED BY <1>3, <1>4, <3>2, <3>3 DEF Holds
  <2>2. CASE \E f \in NumberField \cap offered :
                /\ picked.limits[f].low # Empty
                /\ c = [field |-> f, op |-> ">=", arg |-> picked.limits[f].low]
    <3>1. PICK f \in NumberField \cap offered :
                /\ picked.limits[f].low # Empty
                /\ c = [field |-> f, op |-> ">=", arg |-> picked.limits[f].low]
      BY <2>2
    <3>2. items[i][f] \in DOMAIN Number /\ Number[picked.limits[f].low] <= Number[items[i][f]]
      BY <1>2, <1>7, <3>1 DEF Accepts
    <3>3. c.field = f /\ c.op = ">=" /\ c.arg = picked.limits[f].low
      BY <3>1
    <3>4. picked.limits[f].low \in DOMAIN Number
      BY <1>5, <1>6, <3>1
    <3> QED BY <1>3, <1>6, <3>2, <3>3, <3>4 DEF Holds
  <2>3. CASE \E f \in NumberField \cap offered :
                /\ picked.limits[f].high # Empty
                /\ c = [field |-> f, op |-> "<=", arg |-> picked.limits[f].high]
    <3>1. PICK f \in NumberField \cap offered :
                /\ picked.limits[f].high # Empty
                /\ c = [field |-> f, op |-> "<=", arg |-> picked.limits[f].high]
      BY <2>3
    <3>2. items[i][f] \in DOMAIN Number /\ Number[items[i][f]] <= Number[picked.limits[f].high]
      BY <1>2, <1>7, <3>1 DEF Accepts
    <3>3. c.field = f /\ c.op = "<=" /\ c.arg = picked.limits[f].high
      BY <3>1
    <3> QED BY <1>3, <3>2, <3>3 DEF Holds
  <2> QED BY <2>1, <2>2, <2>3, ConditionsRead
<1>8. ASSUME \A c \in Conditions : Holds(c, items[i]), NEW f \in offered
      PROVE  Accepts(f, items[i][f])
  <2>1. CASE f \in TextField
    <3> SUFFICES ASSUME picked.checked[f] # {} PROVE items[i][f] \in picked.checked[f]
      BY <2>1 DEF Accepts
    <3> DEFINE c == [field |-> f, op |-> "in", arg |-> picked.checked[f]]
    <3>1. c \in Conditions
      BY <2>1, ConditionsRead
    <3>2. c.field = f /\ c.op = "in" /\ c.arg = picked.checked[f]
      OBVIOUS
    <3> HIDE DEF c
    <3> QED BY <1>8, <3>1, <3>2 DEF Holds
  <2>2. CASE f \in NumberField
    <3>1. ASSUME picked.limits[f].low # Empty
          PROVE  /\ items[i][f] \in DOMAIN Number
                 /\ Number[picked.limits[f].low] <= Number[items[i][f]]
      <4> DEFINE c == [field |-> f, op |-> ">=", arg |-> picked.limits[f].low]
      <4>1. c \in Conditions
        BY <2>2, <3>1, ConditionsRead
      <4>2. c.field = f /\ c.op = ">=" /\ c.arg = picked.limits[f].low
        OBVIOUS
      <4>3. picked.limits[f].low \in DOMAIN Number
        BY <1>5, <1>6, <2>2, <3>1
      <4> HIDE DEF c
      <4> QED BY <1>6, <1>8, <4>1, <4>2, <4>3 DEF Holds
    <3>2. ASSUME picked.limits[f].high # Empty
          PROVE  /\ items[i][f] \in DOMAIN Number
                 /\ Number[items[i][f]] <= Number[picked.limits[f].high]
      <4> DEFINE c == [field |-> f, op |-> "<=", arg |-> picked.limits[f].high]
      <4>1. c \in Conditions
        BY <2>2, <3>2, ConditionsRead
      <4>2. c.field = f /\ c.op = "<=" /\ c.arg = picked.limits[f].high
        OBVIOUS
      <4> HIDE DEF c
      <4> QED BY <1>8, <4>1, <4>2 DEF Holds
    <3> QED BY <2>2, <3>1, <3>2 DEF Accepts
  <2> QED BY <1>1, <2>1, <2>2 DEF TextField
<1> QED BY <1>7, <1>8

LEMMA MatchingKept ==
  ASSUME CatalogAssumption, NoClash, PageInv, ListsMatching, [Next]_vars
  PROVE  ListsMatching'
<1>1. ASSUME NEW picks, NEW args, Request(picks, args) PROVE ListsMatching'
  BY <1>1 DEF Request, ListsMatching
<1>2. CASE ClearAll \/ Reload
  BY <1>1, <1>2 DEF ClearAll, Reload
<1>3. CASE ApplyFilters
  BY <1>1, <1>3 DEF ApplyFilters
<1>4. CASE ReadUsed
  BY <1>4 DEF ReadUsed, ListsMatching
<1>5. CASE MakeFilter
  <2>1. pc' = "filters"
    BY <1>5 DEF MakeFilter, ReadRange, ReadValues
  <2> QED BY <2>1 DEF ListsMatching
<1>6. CASE ReadItems
  <2> SUFFICES ASSUME pc' = "shown" PROVE ListsMatching'
    BY DEF ListsMatching
  <2>1. list' = {i \in Items : \A c \in Conditions : Holds(c, items[i])}
    BY <1>6 DEF ReadItems
  <2>2. \A i \in Items : i \in list' <=> \A f \in offered : Accepts(f, items[i][f])
    BY <2>1, ConditionsAccept
  <2>3. UNCHANGED <<items, picked, offered, touched>> /\ Items' = Items
    BY <1>6 DEF ReadItems, Items
  <2>4. \A f, v : Accepts(f, v)' = Accepts(f, v)
    BY <2>3 DEF Accepts
  <2> QED BY <2>2, <2>3, <2>4 DEF ListsMatching
<1>7. CASE CreateItem \/ EditSpecs
  <2>1. PICK i \in Item, specs \in SpecsOf : Change(i, specs)
    BY <1>7, OtherPagesChange
  <2>2. \A j \in Items' \ touched' : j \in Items \ touched /\ items'[j] = items[j]
    BY <2>1, ChangeKeeps
  <2>3. UNCHANGED <<pc, picked, offered, list>>
    BY <2>1 DEF Change, page
  <2>4. \A f, v : Accepts(f, v)' = Accepts(f, v)
    BY <2>3 DEF Accepts
  <2> QED BY <2>2, <2>3, <2>4 DEF ListsMatching
<1>8. CASE UNCHANGED vars
  <2>1. UNCHANGED <<items, pc, picked, offered, list, touched>> /\ Items' = Items
    BY <1>8 DEF vars, page, Items
  <2>2. \A f, v : Accepts(f, v)' = Accepts(f, v)
    BY <2>1 DEF Accepts
  <2> QED BY <2>1, <2>2 DEF ListsMatching
<1> QED BY <1>2, <1>3, <1>4, <1>5, <1>6, <1>7, <1>8 DEF Next

\* If no text field has the name of a limit, the list is what the filters
\* accept, whatever other pages change meanwhile (app.py:84-114).
THEOREM ListsMatchingAlways == ASSUME NoClash PROVE Spec => []ListsMatching
<1>1. Init => IInv
  BY InitInv, CatalogAssumption
<1>2. IInv /\ [Next]_vars => IInv'
  BY StepKeeps, MatchingKept, CatalogAssumption DEF IInv
<1>3. IInv => ListsMatching
  BY DEF IInv
<1> QED BY <1>1, <1>2, <1>3, PTL DEF Spec

LEMMA FailsByLimit ==
  ASSUME CatalogAssumption, NoClash, PageInv, [Next]_vars, pc # "failed", pc' = "failed"
  PROVE  \E f \in NumberField, i \in Items :
            /\ picked.limits[f] # NoLimits
            /\ items[i][f] \in Text \ DOMAIN Number
<1>1. ReadItems /\ MayRaise
  <2>1. ~ReadItems => pc' # "failed"
    BY DEF Next, ClearAll, Reload, ApplyFilters, Request, ReadUsed, MakeFilter, ReadRange,
           ReadValues, CreateItem, EditSpecs, Change, vars
  <2> QED BY <2>1 DEF ReadItems
<1>2. \A c \in Conditions :
        c.op # "in" =>
            /\ c.field \in NumberField
            /\ picked.limits[c.field] # NoLimits
            /\ c.arg \in DOMAIN Number
  <2> SUFFICES ASSUME NEW c \in Conditions, c.op # "in"
               PROVE  /\ c.field \in NumberField
                      /\ picked.limits[c.field] # NoLimits
                      /\ c.arg \in DOMAIN Number
    OBVIOUS
  <2>1. PICK f \in NumberField :
          /\ c.field = f
          /\ \/ picked.limits[f].low # Empty /\ c.arg = picked.limits[f].low
             \/ picked.limits[f].high # Empty /\ c.arg = picked.limits[f].high
    BY ConditionsRead
  <2>2. picked.limits[f] # NoLimits
    BY <2>1 DEF NoLimits
  <2>3. /\ picked.limits[f].low \in Limit \cup {Empty}
        /\ picked.limits[f].high \in Limit \cup {Empty}
    BY LimitsRead DEF PageInv
  <2>4. c.arg \in DOMAIN Number
    BY <2>1, <2>3 DEF CatalogAssumption
  <2> QED BY <2>1, <2>2, <2>4
<1>3. PICK i \in Items, c \in Conditions : Raises(c, items[i])
  BY <1>1, <1>2 DEF MayRaise, LimitIsText
<1>4. c.op # "in" /\ items[i][c.field] \notin DOMAIN Number \cup {Absent}
  BY <1>3 DEF Raises
<1>5. c.field \in Field
  BY <1>2, <1>4 DEF CatalogAssumption
<1>6. items[i][c.field] \in Entered[c.field] \cup {Absent}
  BY <1>5, ValuesEntered DEF PageInv, ShapeInv
<1>7. items[i][c.field] \in Text \ DOMAIN Number
  BY <1>4, <1>5, <1>6 DEF Text
<1> QED BY <1>2, <1>4, <1>7

\* If no text field has the name of a limit, a page fails only for a limit and
\* a value that is not a number (app.py:54, 95, 98).
THEOREM FailsOnlyByLimitAlways == ASSUME NoClash PROVE Spec => FailsOnlyByLimit
<1> DEFINE Excused == pc # "failed" /\ pc' = "failed" =>
                        \E f \in NumberField, i \in Items :
                            /\ picked.limits[f] # NoLimits
                            /\ items[i][f] \in Text \ DOMAIN Number
<1>1. PageInv /\ [Next]_vars => [Excused]_vars
  BY FailsByLimit, CatalogAssumption
<1> HIDE DEF Excused
<1>2. Spec => [][Excused]_vars
  BY <1>1, PageInOrder, PTL DEF Spec
<1> QED BY <1>2 DEF FailsOnlyByLimit, Excused

=============================================================================
