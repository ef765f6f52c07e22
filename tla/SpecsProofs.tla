----------------------------- MODULE SpecsProofs -----------------------------
(***************************************************************************)
(* What holds of Specs for every set of threads, fields, items, labels and *)
(* values, and any number of new fields in a form, with proofs: the types, *)
(* the labels of an item's page, and the refinement of SpecStore.          *)
(***************************************************************************)
EXTENDS Specs, SequenceTheorems, TLAPS

-----------------------------------------------------------------------------
(* The statements of a request.                                            *)

Defines == [op : {"define"}, row : Field, label : Label]
Creates == [op : {"create"}, row : Sku, specs : SpecsOf]
Merges == [op : {"merge"}, row : Sku, key : Key, value : Value]
Drops == [op : {"drop"}, row : Sku, key : Key]
Reads == [op : {"specs"}, row : Sku]

Statement == Defines \cup Creates \cup Merges \cup Drops \cup Reads
                 \cup {ReadCatalog, Render, End}

\* The rest of a form: new fields, then one change of an item, then COMMIT.
Changing(stmts) ==
    /\ Len(stmts) >= 2
    /\ stmts[Len(stmts)] = End
    /\ stmts[Len(stmts) - 1] \in Creates \cup Merges \cup Drops
    /\ \A i \in 1 .. Len(stmts) - 2 : stmts[i] \in Defines

TheChange(stmts) == stmts[Len(stmts) - 1]

Announced(stmts) == {stmts[i].row : i \in 1 .. Len(stmts) - 2}

\* The rest of an item's page.
Reading(stmts) ==
    \/ \E s \in Sku : stmts = PageReads(s)
    \/ stmts = <<ReadCatalog, Render>>
    \/ stmts = <<Render>>

-----------------------------------------------------------------------------
(* The inductive invariant.                                                *)

\* The catalog as the transaction of w sees it.
SeenFields(w) == {f \in Field : Seen(w, f) # Absent}

\* The change of an item that w is about to make uses fields of the catalog,
\* or fields that the same form creates before.
ChangeInv(w) ==
    LET change == TheChange(todo[w])
        known == SeenFields(w) \cup Announced(todo[w])
    IN  /\ change \in Creates => Keys(change.specs) \subseteq known
        /\ change \in Merges => change.key \in known \cup {Blank} /\ table[change.row] # Absent
        /\ change \in Drops =>
            /\ Len(todo[w]) = 2
            /\ table[change.row] # Absent
            /\ \A f \in Field : buf[w][f] = Clean

\* w has written one item s, from the row as it is committed.
Created(w, s) ==
    /\ table[s] = Absent
    /\ buf[w][s] \in SpecsOf
    /\ Keys(buf[w][s]) \subseteq SeenFields(w)

Merged(w, s) ==
    /\ table[s] \in SpecsOf
    /\ \E k \in SeenFields(w) \cup {Blank}, v \in Value : buf[w][s] = [table[s] EXCEPT ![k] = v]

Dropped(w, s) ==
    /\ table[s] \in SpecsOf
    /\ \E k \in Key : buf[w][s] = [table[s] EXCEPT ![k] = Absent]
    /\ \A f \in Field : buf[w][f] = Clean

WrittenInv(w) ==
    \E s \in Sku :
        /\ \A t \in Sku \ {s} : buf[w][t] = Clean
        /\ Created(w, s) \/ Merged(w, s) \/ Dropped(w, s)

\* What the transaction of w has written is what its statements so far make
\* of the committed rows, and a field it has defined is new.
WorkerInv(w) ==
    /\ todo[w] = <<>> \/ Reading(todo[w]) \/ Changing(todo[w]) \/ todo[w] = <<End>>
    /\ \A f \in Field : buf[w][f] # Clean => table[f] = Absent /\ buf[w][f] \in Label
    /\ Changing(todo[w]) => ChangeInv(w) /\ \A s \in Sku : buf[w][s] = Clean
    /\ todo[w] = <<>> \/ Reading(todo[w]) => \A r \in Row : buf[w][r] = Clean
    /\ todo[w] = <<End>> => WrittenInv(w)

\* An item on a page exists, and its keys were in the catalog when it was read.
PageInv(w) ==
    /\ Running(w, "specs") => table[Head(todo[w]).row] # Absent
    /\ Running(w, "catalog") => page[w].keys \subseteq Catalog \cup {Blank}
    /\ Running(w, "render") => page[w].keys \subseteq page[w].fields \cup {Blank}

Exclusive ==
    \A v, w \in Worker, r \in Row :
        v # w => buf[v][r] = Clean \/ buf[w][r] = Clean

\* Every key of an item is in the catalog.
Covered == \A s \in Items : Keys(table[s]) \subseteq Catalog \cup {Blank}

IInv ==
    /\ TypeOK
    /\ todo \in [Worker -> Seq(Statement)]
    /\ Exclusive
    /\ Covered
    /\ \A w \in Worker : WorkerInv(w) /\ PageInv(w)

-----------------------------------------------------------------------------
(* Lemmas about the statements that are left of a request.                 *)

\* Values are told apart from the marks Absent and Clean.
LEMMA Marks ==
    /\ Absent \notin SpecsOf /\ Clean \notin SpecsOf
    /\ Absent \notin Label /\ Clean \notin Label
    /\ Absent \notin Value
  BY SpecsAssumption DEF SpecsOf, Key

LEMMA Arithmetic ==
    \A n \in Nat : n >= 2 /\ n # 2 => n - 2 \in Nat /\ 1 <= n - 2 /\ 1 \in 1 .. n - 2
  OBVIOUS

LEMMA DefineFirst ==
  ASSUME NEW stmts \in Seq(Statement), Changing(stmts), Head(stmts).op = "define"
  PROVE  /\ Head(stmts) \in Defines
         /\ Tail(stmts) \in Seq(Statement)
         /\ Changing(Tail(stmts))
         /\ TheChange(Tail(stmts)) = TheChange(stmts)
         /\ Announced(stmts) = {Head(stmts).row} \cup Announced(Tail(stmts))
         /\ Len(stmts) # 2
<1>1. Len(stmts) \in Nat /\ Len(stmts) >= 2 /\ Head(stmts) = stmts[1]
  BY DEF Changing
<1>2. Len(stmts) # 2
  <2> SUFFICES ASSUME Len(stmts) = 2 PROVE FALSE
    OBVIOUS
  <2>1. stmts[1] \in Creates \cup Merges \cup Drops
    BY DEF Changing
  <2> QED BY <1>1, <2>1 DEF Creates, Merges, Drops
<1>3. 1 \in 1 .. Len(stmts) - 2 /\ stmts[1] \in Defines
  <2>1. 1 \in 1 .. Len(stmts) - 2
    BY <1>1, <1>2, Arithmetic
  <2> QED BY <2>1 DEF Changing
<1>4. /\ Tail(stmts) \in Seq(Statement) /\ Len(Tail(stmts)) = Len(stmts) - 1
      /\ \A i \in 1 .. Len(stmts) - 1 : Tail(stmts)[i] = stmts[i + 1]
  BY <1>1
<1>5. Changing(Tail(stmts)) /\ TheChange(Tail(stmts)) = TheChange(stmts)
  BY <1>1, <1>2, <1>4 DEF Changing, TheChange
<1>6. Announced(stmts) = {stmts[1].row} \cup Announced(Tail(stmts))
  <2>1. ASSUME NEW i \in 1 .. Len(stmts) - 2
        PROVE  stmts[i].row \in {stmts[1].row} \cup Announced(Tail(stmts))
    <3>1. CASE i = 1
      BY <3>1
    <3>2. CASE i # 1
      <4>1. i - 1 \in 1 .. Len(Tail(stmts)) - 2 /\ Tail(stmts)[i - 1] = stmts[i]
        BY <1>1, <1>4, <3>2
      <4> QED BY <4>1 DEF Announced
    <3> QED BY <3>1, <3>2
  <2>2. ASSUME NEW i \in 1 .. Len(Tail(stmts)) - 2
        PROVE  Tail(stmts)[i].row \in Announced(stmts)
    <3>1. i + 1 \in 1 .. Len(stmts) - 2 /\ Tail(stmts)[i] = stmts[i + 1]
      BY <1>1, <1>4
    <3> QED BY <3>1 DEF Announced
  <2>3. stmts[1].row \in Announced(stmts)
    BY <1>3 DEF Announced
  <2> QED BY <2>1, <2>2, <2>3 DEF Announced
<1> QED BY <1>1, <1>2, <1>3, <1>4, <1>5, <1>6

LEMMA ChangeFirst ==
  ASSUME NEW stmts \in Seq(Statement), Changing(stmts),
         Head(stmts).op \in {"create", "merge", "drop"}
  PROVE  /\ Head(stmts) = TheChange(stmts)
         /\ Head(stmts) \in Creates \cup Merges \cup Drops
         /\ Tail(stmts) = <<End>>
         /\ Announced(stmts) = {}
<1>1. Len(stmts) \in Nat /\ Len(stmts) >= 2 /\ Head(stmts) = stmts[1]
  BY DEF Changing
<1>2. Len(stmts) = 2
  <2> SUFFICES ASSUME Len(stmts) # 2 PROVE FALSE
    OBVIOUS
  <2>1. 1 \in 1 .. Len(stmts) - 2
    BY <1>1, Arithmetic
  <2>2. stmts[1] \in Defines
    BY <2>1 DEF Changing
  <2> QED BY <1>1, <2>2 DEF Defines
<1>3. Tail(stmts) = <<End>>
  <2>1. stmts[2] = End
    BY <1>2 DEF Changing
  <2>2. /\ Tail(stmts) \in Seq(Statement)
        /\ Len(Tail(stmts)) = 1 /\ Tail(stmts)[1] = End
    BY <1>1, <1>2, <2>1
  <2>3. End \in Statement
    BY DEF Statement
  <2>4. <<End>> \in Seq(Statement)
    BY <2>3
  <2>5. Len(<<End>>) = 1 /\ <<End>>[1] = End
    OBVIOUS
  <2>6. \A i \in 1 .. Len(Tail(stmts)) : Tail(stmts)[i] = <<End>>[i]
    <3> TAKE i \in 1 .. Len(Tail(stmts))
    <3>1. i \in 1 .. 1
      BY <2>2, Zenon
    <3>2. i = 1
      BY <3>1
    <3> QED BY <2>2, <2>5, <3>2
  <2> QED BY <2>2, <2>4, <2>5, <2>6, SeqEqual
<1> QED BY <1>1, <1>2, <1>3 DEF Changing, TheChange, Announced

LEMMA ChangingOps ==
  ASSUME NEW stmts \in Seq(Statement), Changing(stmts)
  PROVE  stmts # <<>> /\ stmts # <<End>> /\ Head(stmts).op \in {"define", "create", "merge", "drop"}
<1>1. Len(stmts) \in Nat /\ Len(stmts) >= 2 /\ Head(stmts) = stmts[1]
  BY DEF Changing
<1>2. stmts[1] \in Defines \cup Creates \cup Merges \cup Drops
  BY <1>1, Arithmetic DEF Changing
<1>3. Head(stmts).op \in {"define", "create", "merge", "drop"}
  BY <1>1, <1>2 DEF Defines, Creates, Merges, Drops
<1> QED BY <1>1, <1>3 DEF End

LEMMA ReadingOps ==
  ASSUME NEW stmts, Reading(stmts)
  PROVE  stmts # <<>> /\ Head(stmts).op \in {"specs", "catalog", "render"}
  BY DEF Reading, PageReads, ReadSpecs, ReadCatalog, Render

\* What is left of a request shows in its next statement.
LEMMA NextStatement ==
  ASSUME todo \in [Worker -> Seq(Statement)], NEW w \in Worker, WorkerInv(w), todo[w] # <<>>
  PROVE  /\ Running(w, "define") \/ Running(w, "create") \/ Running(w, "merge") \/ Running(w, "drop")
            <=> Changing(todo[w])
         /\ Running(w, "specs") \/ Running(w, "catalog") \/ Running(w, "render")
            <=> Reading(todo[w])
         /\ Running(w, "commit") <=> todo[w] = <<End>>
<1>1. Changing(todo[w]) => Head(todo[w]).op \in {"define", "create", "merge", "drop"}
  BY ChangingOps
<1>2. Reading(todo[w]) => Head(todo[w]).op \in {"specs", "catalog", "render"}
  BY ReadingOps
<1>3. todo[w] = <<End>> => Head(todo[w]).op = "commit"
  BY DEF End
<1> QED BY <1>1, <1>2, <1>3 DEF WorkerInv, Running

LEMMA Targets ==
  ASSUME NEW stmt \in Statement PROVE Target(stmt) \subseteq Row
<1>1. stmt \in Defines \cup Creates \cup Merges \cup Drops => stmt.row \in Row
  BY SpecsAssumption DEF Defines, Creates, Merges, Drops
<1>2. stmt \in Reads \cup {ReadCatalog, Render, End}
        => stmt.op \notin {"define", "create", "merge", "drop"}
  BY DEF Reads, ReadCatalog, Render, End
<1> QED BY <1>1, <1>2 DEF Statement, Target

LEMMA SeqTargets ==
  ASSUME NEW stmts \in Seq(Statement), NEW i \in 1 .. MaxNew + 3, i <= Len(stmts)
  PROVE  Target(stmts[i]) \subseteq Row
<1>1. i \in 1 .. Len(stmts)
  BY SpecsAssumption
<1> QED BY <1>1, Targets, ElementOfSeq

\* Proceed gives one request its statements, and lets it wait for their first.
LEMMA ProceedEffect ==
  ASSUME todo \in [Worker -> Seq(Statement)], want \in [Worker -> SUBSET Row],
         NEW w \in Worker, NEW stmts \in Seq(Statement), Proceed(w, stmts)
  PROVE  /\ todo' \in [Worker -> Seq(Statement)]
         /\ want' \in [Worker -> SUBSET Row]
         /\ todo'[w] = stmts
         /\ \A v \in Worker \ {w} : todo'[v] = todo[v]
<1>1. stmts # <<>> => Target(Head(stmts)) \subseteq Row
  BY Targets, HeadTailProperties
<1> QED BY <1>1 DEF Proceed

-----------------------------------------------------------------------------
(* What the others do leaves a request alone.                              *)

\* A key of specs is a Key, so the fields of an item are told from Absent.
LEMMA WrittenSpecs ==
  ASSUME NEW w \in Worker, NEW s \in Sku, Created(w, s) \/ Merged(w, s) \/ Dropped(w, s)
  PROVE  buf[w][s] \in SpecsOf /\ buf[w][s] # Clean /\ buf[w][s] # Absent
<1>1. CASE Created(w, s)
  BY <1>1, Marks DEF Created
<1>2. CASE Merged(w, s)
  <2>1. SeenFields(w) \cup {Blank} \subseteq Key
    BY DEF SeenFields, Key
  <2>2. buf[w][s] \in SpecsOf
    BY <1>2, <2>1 DEF Merged, SpecsOf
  <2> QED BY <2>2, Marks
<1>3. CASE Dropped(w, s)
  <2>1. buf[w][s] \in SpecsOf
    BY <1>3 DEF Dropped, SpecsOf
  <2> QED BY <2>1, Marks
<1> QED BY <1>1, <1>2, <1>3

\* A transaction writes labels and specs, never the mark of a missing row.
LEMMA WritesRows ==
  ASSUME IInv, NEW w \in Worker, todo[w] = <<End>>, NEW r \in Row, buf[w][r] # Clean
  PROVE  buf[w][r] # Absent /\ (r \in Sku => buf[w][r] \in SpecsOf)
                            /\ (r \in Field => buf[w][r] \in Label)
<1>1. WorkerInv(w) /\ WrittenInv(w)
  BY DEF IInv, WorkerInv
<1>2. r \in Field => buf[w][r] \in Label
  BY <1>1 DEF WorkerInv
<1>3. r \in Sku => buf[w][r] \in SpecsOf
  BY <1>1, WrittenSpecs DEF WrittenInv
<1> QED BY <1>2, <1>3, Marks, SpecsAssumption

\* A request keeps its invariant while others commit: the rows it holds stay
\* as they are, and no row goes away.
LEMMA Frame ==
  ASSUME IInv, NEW w \in Worker,
         todo'[w] = todo[w], page'[w] = page[w], buf'[w] = buf[w],
         \A r \in Row : buf[w][r] # Clean => table'[r] = table[r],
         \A r \in Row : table[r] # Absent => table'[r] # Absent
  PROVE  WorkerInv(w)' /\ PageInv(w)'
<1>1. WorkerInv(w) /\ PageInv(w) /\ Field \subseteq Row /\ Sku \subseteq Row
  BY SpecsAssumption DEF IInv
<1>2. SeenFields(w) \subseteq SeenFields(w)'
  BY <1>1 DEF SeenFields, Seen
<1>3. \A f \in Field : buf'[w][f] # Clean => table'[f] = Absent /\ buf'[w][f] \in Label
  BY <1>1 DEF WorkerInv
<1>4. Changing(todo[w]) => ChangeInv(w)'
  <2>1. Changing(todo[w]) => ChangeInv(w)
    BY <1>1 DEF WorkerInv
  <2>2. TheChange(todo[w]) \in Merges \cup Drops => TheChange(todo[w]).row \in Row
    BY <1>1 DEF Merges, Drops
  <2> QED BY <1>2, <2>1, <2>2 DEF ChangeInv
<1>5. ASSUME NEW s \in Sku, Created(w, s) \/ Merged(w, s) \/ Dropped(w, s)
      PROVE  (Created(w, s) \/ Merged(w, s) \/ Dropped(w, s))'
  <2>1. table'[s] = table[s]
    BY <1>1, <1>5, WrittenSpecs
  <2>2. CASE Created(w, s)
    BY <1>2, <2>1, <2>2 DEF Created
  <2>3. CASE Merged(w, s)
    BY <1>2, <2>1, <2>3 DEF Merged
  <2>4. CASE Dropped(w, s)
    BY <2>1, <2>4 DEF Dropped
  <2> QED BY <1>5, <2>2, <2>3, <2>4
<1>6. WrittenInv(w) => WrittenInv(w)'
  BY <1>5 DEF WrittenInv
<1>7. WorkerInv(w)'
  BY <1>1, <1>3, <1>4, <1>6 DEF WorkerInv
<1>8. PageInv(w)'
  <2>1. Catalog \subseteq Catalog'
    BY <1>1 DEF Catalog
  <2>2. Running(w, "specs") => Head(todo[w]).row \in Row
    <3>1. Running(w, "specs") => Reading(todo[w])
      BY <1>1, NextStatement DEF IInv, Running
    <3>2. Reading(todo[w]) /\ Running(w, "specs") => \E s \in Sku : todo[w] = PageReads(s)
      BY DEF Reading, Running, ReadCatalog, Render
    <3>3. \A s : Head(PageReads(s)).row = s
      BY DEF PageReads, ReadSpecs
    <3> QED BY <1>1, <3>1, <3>2, <3>3
  <2> QED BY <1>1, <2>1, <2>2 DEF PageInv, Running
<1> QED BY <1>7, <1>8

\* A step that publishes nothing leaves the other requests alone.
LEMMA OneRequest ==
  ASSUME IInv, NEW w \in Worker, UNCHANGED table,
         \A v \in Worker \ {w} : todo'[v] = todo[v] /\ page'[v] = page[v] /\ buf'[v] = buf[v],
         todo' \in [Worker -> Seq(Statement)],
         buf' \in [Worker -> [Row -> SpecsOf \cup Label \cup {Absent, Clean}]],
         want' \in [Worker -> SUBSET Row],
         page' \in [Worker -> [keys : SUBSET Key, fields : SUBSET Field]],
         \A r \in Row : buf'[w][r] # Clean => buf[w][r] # Clean \/ Free(w, r),
         WorkerInv(w)', PageInv(w)'
  PROVE  IInv'
<1>1. TypeOK /\ Exclusive /\ Covered
  BY DEF IInv
<1>2. TypeOK'
  <2>1. \A v \in Worker, i \in 1 .. MaxNew + 3 : i <= Len(todo'[v]) => Target(todo'[v][i]) \subseteq Row
    BY SeqTargets
  <2> QED BY <1>1, <2>1, ZenonT(20) DEF TypeOK, PgTypeOK
<1>3. Exclusive'
  <2>1. \A v \in Worker, r \in Row : v # w => buf'[v][r] = buf[v][r]
    OBVIOUS
  <2>2. \A v \in Worker, r \in Row : v # w /\ buf'[w][r] # Clean => buf[v][r] = Clean
    <3> SUFFICES ASSUME NEW v \in Worker \ {w}, NEW r \in Row, buf'[w][r] # Clean
                 PROVE  buf[v][r] = Clean
      OBVIOUS
    <3>1. buf[w][r] # Clean \/ Free(w, r)
      OBVIOUS
    <3>2. buf[w][r] # Clean => buf[v][r] = Clean
      BY <1>1 DEF Exclusive
    <3> QED BY <3>1, <3>2 DEF Free, Held
  <2>3. \A u, v \in Worker, r \in Row : u # v => buf[u][r] = Clean \/ buf[v][r] = Clean
    BY <1>1 DEF Exclusive
  <2> SUFFICES ASSUME NEW u \in Worker, NEW v \in Worker, NEW r \in Row, u # v
               PROVE  buf'[u][r] = Clean \/ buf'[v][r] = Clean
    BY DEF Exclusive
  <2>4. CASE u = w
    BY <2>1, <2>2, <2>4
  <2>5. CASE v = w
    <3>1. buf'[u][r] = buf[u][r] /\ (buf'[w][r] # Clean => buf[u][r] = Clean)
      BY <2>1, <2>2, <2>5
    <3> QED BY <3>1, <2>5
  <2>6. CASE u # w /\ v # w
    <3>1. buf'[u][r] = buf[u][r] /\ buf'[v][r] = buf[v][r]
      BY <2>1, <2>6
    <3>2. buf[u][r] = Clean \/ buf[v][r] = Clean
      BY <2>3
    <3> QED BY <3>1, <3>2
  <2> QED BY <2>4, <2>5, <2>6
<1>4. Covered'
  BY <1>1 DEF Covered, Items, Catalog
<1>5. ASSUME NEW v \in Worker PROVE WorkerInv(v)' /\ PageInv(v)'
  BY <1>5, Frame
<1> QED BY <1>2, <1>3, <1>4, <1>5 DEF IInv

-----------------------------------------------------------------------------
(* Requests that start.                                                    *)

LEMMA InitInv == Init => IInv
<1> SUFFICES ASSUME Init PROVE IInv
  OBVIOUS
<1>1. /\ table \in [Row -> SpecsOf \cup {Absent}]
      /\ \A r \in Row : table[r] # Absent => r \in Existing /\ table[r] = NoSpecs
      /\ \A r \in Existing : table[r] = NoSpecs
      /\ \A w \in Worker, r \in Row : buf[w][r] = Clean
      /\ \A w \in Worker : todo[w] = <<>>
  <2>1. NoSpecs \in SpecsOf
    BY DEF NoSpecs, SpecsOf
  <2> QED BY <2>1, SpecsAssumption DEF Init, PgInit, NoWrites
<1>2. Existing \subseteq Sku /\ Existing \cap Field = {} /\ Row = Field \cup Sku
  BY SpecsAssumption
<1>3. TypeOK
  <2>1. PgTypeOK(SpecsOf \cup Label)
    BY <1>1 DEF PgTypeOK, Init, PgInit, NoWrites
  <2>2. \A f \in Field : table[f] = Absent
    BY <1>1, <1>2
  <2>3. \A s \in Sku : table[s] \in SpecsOf \cup {Absent}
    BY <1>1, <1>2
  <2>4. page \in [Worker -> [keys : SUBSET Key, fields : SUBSET Field]]
    BY DEF Init, NoPage
  <2>5. \A w \in Worker, i \in 1 .. MaxNew + 3 : ~(i <= Len(todo[w]))
    BY <1>1, SpecsAssumption
  <2> QED BY <2>1, <2>2, <2>3, <2>4, <2>5 DEF TypeOK
<1>4. todo \in [Worker -> Seq(Statement)]
  BY DEF Init
<1>5. Exclusive
  BY <1>1 DEF Exclusive
<1>6. Covered
  BY <1>1, <1>2 DEF Covered, Items, Keys, NoSpecs
<1>7. ASSUME NEW w \in Worker PROVE WorkerInv(w) /\ PageInv(w)
  <2>1. ~Changing(<<>>)
    BY DEF Changing
  <2> QED BY <1>1, <1>2, <2>1 DEF WorkerInv, PageInv, Running
<1> QED BY <1>3, <1>4, <1>5, <1>6, <1>7 DEF IInv

\* The change that a form makes fits the catalog as it is committed.
Fits(stmts) ==
    LET change == TheChange(stmts)
        known == Catalog \cup Announced(stmts)
    IN  /\ change \in Creates => Keys(change.specs) \subseteq known
        /\ change \in Merges => change.key \in known \cup {Blank} /\ change.row \in Items
        /\ change \in Drops => Len(stmts) = 2 /\ change.row \in Items

LEMMA SubmitKeeps ==
  ASSUME IInv, NEW w \in Worker, NEW kind, NEW stmts \in Seq(Statement), Submit(w, kind, stmts),
         \/ \E s \in Items : stmts = PageReads(s)
         \/ Changing(stmts) /\ Fits(stmts)
  PROVE  IInv'
<1>1. /\ TypeOK /\ todo \in [Worker -> Seq(Statement)]
      /\ todo[w] = <<>> /\ WorkerInv(w)
      /\ UNCHANGED <<table, buf, page>>
  BY DEF IInv, Submit
<1>2. /\ todo' \in [Worker -> Seq(Statement)]
      /\ want' \in [Worker -> SUBSET Row]
      /\ todo'[w] = stmts
      /\ \A v \in Worker \ {w} : todo'[v] = todo[v]
  BY <1>1, ProceedEffect DEF Submit, TypeOK, PgTypeOK
<1>3. \A r \in Row : buf[w][r] = Clean
  BY <1>1 DEF WorkerInv
<1>4. Field \subseteq Row /\ Sku \subseteq Row
  BY SpecsAssumption
<1>5. WorkerInv(w)' /\ PageInv(w)'
  <2>1. CASE Changing(stmts) /\ Fits(stmts)
    <3>1. stmts # <<>> /\ stmts # <<End>> /\ ~Reading(stmts)
          /\ Head(stmts).op \notin {"specs", "catalog", "render"}
      BY <2>1, ChangingOps, ReadingOps DEF End
    <3>2. SeenFields(w)' = Catalog
      BY <1>1, <1>3, <1>4 DEF SeenFields, Catalog, Seen
    <3>3. ChangeInv(w)'
      BY <1>1, <1>2, <1>3, <1>4, <2>1, <3>2 DEF ChangeInv, Fits, Items
    <3>4. WorkerInv(w)'
      BY <1>1, <1>2, <1>3, <1>4, <2>1, <3>1, <3>3 DEF WorkerInv
    <3> QED BY <1>2, <3>1, <3>4 DEF PageInv, Running
  <2>2. CASE \E s \in Items : stmts = PageReads(s)
    <3>1. PICK s \in Items : stmts = PageReads(s)
      BY <2>2
    <3>2. s \in Sku /\ table[s] # Absent
      BY DEF Items
    <3>3. /\ Reading(stmts) /\ stmts # <<>> /\ Head(stmts).op = "specs" /\ Head(stmts).row = s
      BY <3>1, <3>2 DEF Reading, PageReads, ReadSpecs
    <3>4. stmts # <<End>> /\ ~Changing(stmts)
      BY <3>3, ChangingOps DEF End
    <3>5. WorkerInv(w)'
      BY <1>1, <1>2, <1>3, <1>4, <3>3, <3>4 DEF WorkerInv
    <3> QED BY <1>1, <1>2, <3>2, <3>3, <3>5 DEF PageInv, Running
  <2> QED BY <2>1, <2>2
<1>6. /\ buf' \in [Worker -> [Row -> SpecsOf \cup Label \cup {Absent, Clean}]]
      /\ page' \in [Worker -> [keys : SUBSET Key, fields : SUBSET Field]]
  BY <1>1 DEF TypeOK, PgTypeOK
<1> QED BY <1>1, <1>2, <1>5, <1>6, OneRequest

\* A form: new fields, one change, COMMIT.
LEMMA FormStatements ==
  ASSUME NEW defs \in Seq(Defines), NEW change \in Creates \cup Merges \cup Drops
  PROVE  /\ defs \o <<change, End>> \in Seq(Statement)
         /\ Changing(defs \o <<change, End>>)
         /\ TheChange(defs \o <<change, End>>) = change
         /\ Announced(defs \o <<change, End>>) = {defs[i].row : i \in 1 .. Len(defs)}
<1> DEFINE last == <<change, End>>
           stmts == defs \o last
<1>1. Defines \subseteq Statement /\ change \in Statement /\ End \in Statement
  BY DEF Statement
<1>2. defs \in Seq(Statement) /\ Len(defs) \in Nat /\ \A i \in 1 .. Len(defs) : defs[i] \in Defines
  BY <1>1, SeqMonotonic, ElementOfSeq, LenProperties
<1>3. last \in Seq(Statement) /\ Len(last) = 2 /\ last[1] = change /\ last[2] = End
  BY <1>1
<1> HIDE DEF last
<1>4. /\ stmts \in Seq(Statement)
      /\ Len(stmts) = Len(defs) + 2
      /\ \A i \in 1 .. Len(defs) + 2 :
            stmts[i] = IF i <= Len(defs) THEN defs[i] ELSE last[i - Len(defs)]
  <2>1. /\ stmts \in Seq(Statement)
        /\ Len(stmts) = Len(defs) + Len(last)
        /\ \A i \in 1 .. Len(defs) + Len(last) :
              stmts[i] = IF i <= Len(defs) THEN defs[i] ELSE last[i - Len(defs)]
    BY <1>2, <1>3, ConcatProperties, Zenon
  <2> QED BY <1>3, <2>1, Zenon
<1> HIDE DEF stmts
<1>5. stmts[Len(defs) + 1] = change /\ stmts[Len(defs) + 2] = End
  BY <1>2, <1>3, <1>4
<1>6. Len(stmts) - 1 = Len(defs) + 1 /\ Len(stmts) - 2 = Len(defs)
  BY <1>2, <1>4
<1>7. \A i \in 1 .. Len(defs) : stmts[i] = defs[i]
  BY <1>2, <1>4
<1>8. Changing(stmts) /\ TheChange(stmts) = change
  BY <1>2, <1>4, <1>5, <1>6, <1>7 DEF Changing, TheChange
<1>9. Announced(stmts) = {defs[i].row : i \in 1 .. Len(defs)}
  BY <1>6, <1>7 DEF Announced
<1> QED BY <1>4, <1>8, <1>9 DEF stmts, last

LEMMA ShortForm ==
  ASSUME NEW change \in Creates \cup Merges \cup Drops
  PROVE  /\ <<change, End>> \in Seq(Statement)
         /\ Changing(<<change, End>>)
         /\ TheChange(<<change, End>>) = change
  BY DEF Statement, Changing, TheChange

\* The specs of a new item are made of the field it was given and the new ones.
LEMMA SpecsOfNewItem ==
  ASSUME NEW given \in SpecsOf, NEW n \in Nat,
         NEW rows \in [1 .. n -> [field : Field, label : Label, value : Value]]
  PROVE  /\ NewSpecs(given, rows) \in SpecsOf
         /\ Keys(NewSpecs(given, rows)) \subseteq Keys(given) \cup {rows[i].field : i \in 1 .. n}
<1> DEFINE last(k) == {i \in 1 .. Len(rows) :
                         /\ rows[i].field = k
                         /\ \A j \in i + 1 .. Len(rows) : rows[j].field # k}
           at(k) == CHOOSE i \in last(k) : TRUE
<1>1. Len(rows) = n
  OBVIOUS
<1>2. ASSUME NEW k, last(k) # {}
      PROVE  at(k) \in 1 .. n /\ rows[at(k)].field = k /\ rows[at(k)].value \in Value
  <2>1. at(k) \in last(k)
    BY <1>2
  <2> QED BY <1>1, <2>1
<1> HIDE DEF at, last
<1>3. NewSpecs(given, rows) = [k \in Key |-> IF last(k) # {} THEN rows[at(k)].value ELSE given[k]]
  BY DEF NewSpecs, at, last
<1>4. NewSpecs(given, rows) \in SpecsOf
  BY <1>2, <1>3 DEF SpecsOf
<1>5. \A k \in Key : last(k) # {} => k \in {rows[i].field : i \in 1 .. n}
  BY <1>2
<1> QED BY <1>3, <1>4, <1>5 DEF Keys

LEMMA OneKind ==
    /\ \A c \in Creates : c \notin Merges /\ c \notin Drops
    /\ \A c \in Merges : c \notin Creates /\ c \notin Drops
    /\ \A c \in Drops : c \notin Creates /\ c \notin Merges
  BY DEF Creates, Merges, Drops

LEMMA NewItemKeeps ==
  ASSUME IInv, NEW w \in Worker, NewItem(w) PROVE IInv'
<1>1. PICK s \in Sku, given \in Given, rows \in NewRows :
        Submit(w, "new_item",
               [i \in 1 .. Len(rows) |-> Define(rows[i].field, rows[i].label)]
               \o <<Create(s, NewSpecs(given, rows)), End>>)
  BY DEF NewItem
<1> DEFINE defs == [i \in 1 .. Len(rows) |-> Define(rows[i].field, rows[i].label)]
           change == Create(s, NewSpecs(given, rows))
<1>2. PICK n \in Nat : rows \in [1 .. n -> [field : Field, label : Label, value : Value]]
  BY SpecsAssumption DEF NewRows
<1>3. Len(rows) = n
  BY <1>2
<1>4. given \in SpecsOf /\ Keys(given) \subseteq Catalog
  <2>1. NoSpecs \in SpecsOf /\ Keys(NoSpecs) = {}
    BY DEF NoSpecs, SpecsOf, Keys
  <2>2. ASSUME NEW k \in Catalog \ {Blank}, NEW v \in Value, given = [NoSpecs EXCEPT ![k] = v]
        PROVE  given \in SpecsOf /\ Keys(given) \subseteq {k}
    BY <2>1, <2>2 DEF NoSpecs, SpecsOf, Keys
  <2> QED BY <2>1, <2>2 DEF Given
<1>5. /\ NewSpecs(given, rows) \in SpecsOf
      /\ Keys(NewSpecs(given, rows)) \subseteq Keys(given) \cup {rows[i].field : i \in 1 .. n}
  BY <1>2, <1>4, SpecsOfNewItem
<1>6. defs \in Seq(Defines) /\ Len(defs) = n /\ \A i \in 1 .. n : defs[i].row = rows[i].field
  BY <1>2, <1>3 DEF Define, Defines
<1>7. change \in Creates /\ change.specs = NewSpecs(given, rows)
  BY <1>5 DEF Create, Creates
<1> HIDE DEF defs, change
<1>8. /\ defs \o <<change, End>> \in Seq(Statement)
      /\ Changing(defs \o <<change, End>>)
      /\ TheChange(defs \o <<change, End>>) = change
      /\ Announced(defs \o <<change, End>>) = {defs[i].row : i \in 1 .. Len(defs)}
  BY <1>6, <1>7, FormStatements
<1>9. {rows[i].field : i \in 1 .. n} \subseteq {defs[i].row : i \in 1 .. Len(defs)}
  BY <1>6
<1>10. Fits(defs \o <<change, End>>)
  BY <1>4, <1>5, <1>7, <1>8, <1>9, OneKind DEF Fits
<1> QED BY <1>1, <1>8, <1>10, SubmitKeeps DEF defs, change

\* A form of edit_specs that changes a key the catalog knows, or the blank one.
LEMMA ShortFormKeeps ==
  ASSUME IInv, NEW w \in Worker, NEW kind, NEW change \in Merges \cup Drops,
         Submit(w, kind, <<change, End>>),
         change.row \in Items, change \in Merges => change.key \in Catalog \cup {Blank}
  PROVE  IInv'
<1>1. /\ <<change, End>> \in Seq(Statement)
      /\ Changing(<<change, End>>)
      /\ TheChange(<<change, End>>) = change
  BY ShortForm
<1>2. Fits(<<change, End>>)
  BY <1>1, OneKind DEF Fits
<1> QED BY <1>1, <1>2, SubmitKeeps

LEMMA AskKeeps ==
  ASSUME IInv, NEW w \in Worker, Ask(w) PROVE IInv'
<1>1. CASE NewItem(w)
  BY <1>1, NewItemKeeps
<1>2. ASSUME NEW s \in Items, table[s] \in SpecsOf, NEW k \in Keys(table[s])
      PROVE  k \in Key /\ k \in Catalog \cup {Blank}
  BY <1>2 DEF IInv, Covered, Keys
<1>3. \A s \in Items : s \in Sku /\ table[s] \in SpecsOf
  BY DEF Items, IInv, TypeOK
<1>4. CASE AddField(w)
  <2>1. PICK s \in Items, k \in Catalog \cup {Blank}, v \in Value :
          Submit(w, "add_field", <<Merge(s, k, v), End>>)
    BY <1>4 DEF AddField
  <2>2. Merge(s, k, v) \in Merges /\ Merge(s, k, v).row = s /\ Merge(s, k, v).key = k
    BY <1>3 DEF Merge, Merges, Catalog, Key
  <2> QED BY <2>1, <2>2, ShortFormKeeps
<1>5. CASE AddNewField(w)
  <2>1. PICK s \in Items, f \in Field, l \in Label, v \in Value :
          Submit(w, "new_field", <<Define(f, l), Merge(s, f, v), End>>)
    BY <1>5 DEF AddNewField
  <2> DEFINE stmts == <<Define(f, l), Merge(s, f, v), End>>
             change == Merge(s, f, v)
  <2>2. change \in Merges /\ change.row = s /\ change.key = f
    BY <1>3 DEF Merge, Merges, Key
  <2>3. Define(f, l) \in Defines /\ Define(f, l).row = f
    BY DEF Define, Defines
  <2> HIDE DEF change
  <2>4. /\ stmts \in Seq(Statement) /\ Changing(stmts)
        /\ TheChange(stmts) = change /\ f \in Announced(stmts)
    <3> DEFINE def == Define(f, l)
    <3> HIDE DEF def
    <3>1. <<def, change, End>> \in Seq(Statement)
      BY <2>2, <2>3 DEF Statement, def
    <3>2. Changing(<<def, change, End>>) /\ TheChange(<<def, change, End>>) = change
      BY <2>2, <2>3 DEF Changing, TheChange, def
    <3>3. f \in Announced(<<def, change, End>>)
      BY <2>3 DEF Announced, def
    <3> QED BY <3>1, <3>2, <3>3 DEF def, change
  <2>5. Fits(stmts)
    BY <2>2, <2>4, OneKind DEF Fits
  <2> QED BY <2>1, <2>4, <2>5, SubmitKeeps
<1>6. CASE EditField(w)
  <2>1. PICK s \in Items : \E k \in Keys(table[s]), v \in Value :
          Submit(w, "edit_field", <<Merge(s, k, v), End>>)
    BY <1>6 DEF EditField
  <2>2. PICK k \in Keys(table[s]), v \in Value :
          Submit(w, "edit_field", <<Merge(s, k, v), End>>)
    BY <2>1
  <2>3. k \in Key /\ k \in Catalog \cup {Blank}
    BY <1>2, <1>3
  <2>4. Merge(s, k, v) \in Merges /\ Merge(s, k, v).row = s /\ Merge(s, k, v).key = k
    BY <1>3, <2>3 DEF Merge, Merges
  <2> QED BY <2>2, <2>3, <2>4, ShortFormKeeps
<1>7. CASE RemoveField(w)
  <2>1. PICK s \in Items : \E k \in Keys(table[s]) :
          Submit(w, "remove_field", <<Drop(s, k), End>>)
    BY <1>7 DEF RemoveField
  <2>2. PICK k \in Keys(table[s]) : Submit(w, "remove_field", <<Drop(s, k), End>>)
    BY <2>1
  <2>3. Drop(s, k) \in Drops /\ Drop(s, k).row = s
    BY <1>2, <1>3 DEF Drop, Drops
  <2> QED BY <2>2, <2>3, OneKind, ShortFormKeeps
<1>8. CASE Show(w)
  <2>1. PICK s \in Items : Submit(w, "show", PageReads(s))
    BY <1>8 DEF Show
  <2>2. PageReads(s) \in Seq(Statement)
    BY <1>3 DEF PageReads, ReadSpecs, Reads, Statement
  <2> QED BY <2>1, <2>2, SubmitKeeps
<1> QED BY <1>1, <1>4, <1>5, <1>6, <1>7, <1>8 DEF Ask

-----------------------------------------------------------------------------
(* Statements that write.                                                  *)

\* What a statement of w that goes on with stmts leaves as it was.
LEMMA StatementEffect ==
  ASSUME IInv, NEW w \in Worker, todo[w] # <<>>, Proceed(w, Tail(todo[w]))
  PROVE  /\ todo[w] \in Seq(Statement) /\ Head(todo[w]) \in Statement
         /\ Tail(todo[w]) \in Seq(Statement)
         /\ todo' \in [Worker -> Seq(Statement)]
         /\ want' \in [Worker -> SUBSET Row]
         /\ todo'[w] = Tail(todo[w])
         /\ \A v \in Worker \ {w} : todo'[v] = todo[v]
<1>1. todo \in [Worker -> Seq(Statement)] /\ want \in [Worker -> SUBSET Row]
  BY DEF IInv, TypeOK, PgTypeOK
<1>2. todo[w] \in Seq(Statement)
  BY <1>1
<1>3. Head(todo[w]) \in Statement /\ Tail(todo[w]) \in Seq(Statement)
  BY <1>2, HeadTailProperties
<1> QED BY <1>1, <1>2, <1>3, ProceedEffect

\* Writing row r into the transaction of w.
LEMMA PutEffect ==
  ASSUME TypeOK, NEW w \in Worker, NEW r \in Row, NEW x \in SpecsOf \cup Label, Put(w, r, x)
  PROVE  /\ buf' \in [Worker -> [Row -> SpecsOf \cup Label \cup {Absent, Clean}]]
         /\ buf'[w][r] = x
         /\ \A q \in Row : q # r => buf'[w][q] = buf[w][q]
         /\ \A v \in Worker \ {w} : buf'[v] = buf[v]
  BY DEF TypeOK, PgTypeOK, Put

LEMMA DefineFieldKeeps ==
  ASSUME IInv, NEW w \in Worker, DefineField(w) PROVE IInv'
<1> DEFINE stmts == todo[w]
           f == Head(todo[w]).row
<1>1. /\ TypeOK /\ WorkerInv(w) /\ todo \in [Worker -> Seq(Statement)]
      /\ Running(w, "define") /\ stmts # <<>> /\ Head(stmts).op = "define"
      /\ Proceed(w, Tail(stmts)) /\ UNCHANGED <<table, page>> /\ Free(w, f)
  BY DEF IInv, DefineField, Running
<1>2. Changing(stmts)
  BY <1>1, NextStatement
<1>3. /\ stmts \in Seq(Statement) /\ Tail(stmts) \in Seq(Statement)
      /\ todo' \in [Worker -> Seq(Statement)]
      /\ want' \in [Worker -> SUBSET Row]
      /\ todo'[w] = Tail(stmts)
      /\ \A v \in Worker \ {w} : todo'[v] = todo[v]
  BY <1>1, StatementEffect
<1>4. /\ Head(stmts) \in Defines
      /\ Changing(Tail(stmts))
      /\ TheChange(Tail(stmts)) = TheChange(stmts)
      /\ Announced(stmts) = {f} \cup Announced(Tail(stmts))
      /\ Len(stmts) # 2
  BY <1>1, <1>2, <1>3, DefineFirst
<1>5. f \in Field /\ f \in Row /\ f \notin Sku /\ Head(stmts).label \in Label
      /\ Field \subseteq Row /\ Sku \subseteq Row
  BY <1>4, SpecsAssumption DEF Defines
<1>6. \/ Seen(w, f) = Absent /\ Put(w, f, Head(stmts).label)
      \/ Seen(w, f) # Absent /\ UNCHANGED buf
  BY DEF DefineField
<1>7. /\ buf' \in [Worker -> [Row -> SpecsOf \cup Label \cup {Absent, Clean}]]
      /\ \A q \in Row : q # f => buf'[w][q] = buf[w][q]
      /\ \A v \in Worker \ {w} : buf'[v] = buf[v]
      /\ \A g \in Field : buf'[w][g] # Clean => table[g] = Absent /\ buf'[w][g] \in Label
      /\ SeenFields(w) \cup {f} \subseteq SeenFields(w)'
  <2>1. CASE Seen(w, f) = Absent /\ Put(w, f, Head(stmts).label)
    <3>1. /\ buf' \in [Worker -> [Row -> SpecsOf \cup Label \cup {Absent, Clean}]]
          /\ buf'[w][f] = Head(stmts).label
          /\ \A q \in Row : q # f => buf'[w][q] = buf[w][q]
          /\ \A v \in Worker \ {w} : buf'[v] = buf[v]
      BY <1>1, <1>5, <2>1, PutEffect
    <3>2. \A g \in Field : buf[w][g] # Clean => table[g] = Absent /\ buf[w][g] \in Label
      BY <1>1 DEF WorkerInv
    <3>3. table[f] = Absent
      BY <1>5, <2>1, <3>2, Marks DEF Seen
    <3>4. \A g \in Field : buf'[w][g] # Clean => table[g] = Absent /\ buf'[w][g] \in Label
      BY <1>5, <3>1, <3>2, <3>3
    <3>5. SeenFields(w) \cup {f} \subseteq SeenFields(w)'
      BY <1>1, <1>5, <3>1, Marks DEF SeenFields, Seen
    <3> QED BY <3>1, <3>4, <3>5
  <2>2. CASE Seen(w, f) # Absent /\ UNCHANGED buf
    <3>1. SeenFields(w) \cup {f} \subseteq SeenFields(w)'
      BY <1>1, <1>5, <2>2 DEF SeenFields, Seen
    <3> QED BY <1>1, <2>2, <3>1 DEF WorkerInv, TypeOK, PgTypeOK
  <2> QED BY <1>6, <2>1, <2>2
<1>8. ChangeInv(w)'
  <2>1. ChangeInv(w)
    BY <1>1, <1>2 DEF WorkerInv
  <2>2. TheChange(stmts) \notin Drops
    BY <1>4, <2>1 DEF ChangeInv
  <2> QED BY <1>1, <1>3, <1>4, <1>7, <2>1, <2>2 DEF ChangeInv
<1>9. \A s \in Sku : buf'[w][s] = Clean
  <2>1. \A s \in Sku : buf[w][s] = Clean
    BY <1>1, <1>2 DEF WorkerInv
  <2> QED BY <1>5, <1>7, <2>1
<1>10. /\ Tail(stmts) # <<>> /\ Tail(stmts) # <<End>> /\ ~Reading(Tail(stmts))
       /\ Head(Tail(stmts)).op \notin {"specs", "catalog", "render"}
  <2>1. /\ Tail(stmts) # <<>> /\ Tail(stmts) # <<End>>
        /\ Head(Tail(stmts)).op \in {"define", "create", "merge", "drop"}
    BY <1>3, <1>4, ChangingOps
  <2>2. ~Reading(Tail(stmts))
    BY <2>1, ReadingOps
  <2> QED BY <2>1, <2>2
<1>11. WorkerInv(w)' /\ PageInv(w)'
  <2>1. WorkerInv(w)'
    BY <1>1, <1>3, <1>4, <1>7, <1>8, <1>9, <1>10 DEF WorkerInv
  <2> QED BY <1>3, <1>10, <2>1 DEF PageInv, Running
<1>12. page' \in [Worker -> [keys : SUBSET Key, fields : SUBSET Field]]
  BY <1>1 DEF TypeOK
<1>13. \A r \in Row : buf'[w][r] # Clean => buf[w][r] # Clean \/ Free(w, r)
  BY <1>1, <1>7
<1> HIDE DEF stmts, f
<1> QED BY <1>1, <1>3, <1>7, <1>11, <1>12, <1>13, OneRequest

\* The one item a form writes, with its fields in the catalog by then.
LEMMA WriteItemKeeps ==
  ASSUME IInv, NEW w \in Worker, todo[w] # <<>>, Tail(todo[w]) = <<End>>,
         Proceed(w, Tail(todo[w])), UNCHANGED <<table, page>>,
         NEW s \in Sku, NEW specs \in SpecsOf, Free(w, s), Put(w, s, specs),
         Changing(todo[w]),
         Created(w, s)' \/ Merged(w, s)' \/ Dropped(w, s)'
  PROVE  IInv'
<1>1. /\ TypeOK /\ WorkerInv(w)
      /\ todo' \in [Worker -> Seq(Statement)]
      /\ want' \in [Worker -> SUBSET Row]
      /\ todo'[w] = <<End>>
      /\ \A v \in Worker \ {w} : todo'[v] = todo[v]
  BY StatementEffect DEF IInv
<1>2. s \in Row /\ s \notin Field /\ Field \subseteq Row /\ Sku \subseteq Row
  BY SpecsAssumption
<1>3. /\ buf' \in [Worker -> [Row -> SpecsOf \cup Label \cup {Absent, Clean}]]
      /\ \A q \in Row : q # s => buf'[w][q] = buf[w][q]
      /\ \A v \in Worker \ {w} : buf'[v] = buf[v]
  BY <1>1, <1>2, PutEffect
<1>4. \A f \in Field : buf'[w][f] # Clean => table'[f] = Absent /\ buf'[w][f] \in Label
  BY <1>1, <1>2, <1>3 DEF WorkerInv
<1>5. WrittenInv(w)'
  <2>1. \A t \in Sku \ {s} : buf'[w][t] = Clean
    BY <1>1, <1>2, <1>3 DEF WorkerInv
  <2> QED BY <2>1 DEF WrittenInv
<1>6. ~Changing(<<End>>) /\ ~Reading(<<End>>) /\ <<End>> # <<>> /\ Head(<<End>>).op = "commit"
  <2>1. Head(<<End>>).op = "commit"
    BY DEF End
  <2> QED BY <2>1, ReadingOps DEF Changing
<1>7. WorkerInv(w)' /\ PageInv(w)'
  BY <1>1, <1>4, <1>5, <1>6 DEF WorkerInv, PageInv, Running
<1>8. page' \in [Worker -> [keys : SUBSET Key, fields : SUBSET Field]]
  BY <1>1 DEF TypeOK
<1>9. \A r \in Row : buf'[w][r] # Clean => buf[w][r] # Clean \/ Free(w, r)
  BY <1>3
<1> QED BY <1>1, <1>3, <1>7, <1>8, <1>9, OneRequest

LEMMA CreateItemKeeps ==
  ASSUME IInv, NEW w \in Worker, CreateItem(w) PROVE IInv'
<1> PICK stmt, s : stmt = Head(todo[w]) /\ s = stmt.row
  OBVIOUS
<1>1. /\ TypeOK /\ WorkerInv(w) /\ todo \in [Worker -> Seq(Statement)]
      /\ Running(w, "create") /\ todo[w] # <<>> /\ stmt.op = "create"
      /\ Proceed(w, Tail(todo[w])) /\ UNCHANGED <<table, page>> /\ Free(w, s)
      /\ Put(w, s, stmt.specs) /\ Seen(w, s) = Absent
  BY DEF IInv, CreateItem, Running
<1>2. Changing(todo[w])
  BY <1>1, NextStatement
<1>3. stmt = TheChange(todo[w]) /\ Tail(todo[w]) = <<End>> /\ Announced(todo[w]) = {}
      /\ stmt \in Creates \cup Merges \cup Drops
  BY <1>1, <1>2, ChangeFirst
<1>4. stmt \in Creates /\ s \in Sku /\ s \in Row /\ stmt.specs \in SpecsOf
  BY <1>1, <1>3, SpecsAssumption DEF Creates, Merges, Drops
<1>5. ChangeInv(w) /\ buf[w][s] = Clean
  BY <1>1, <1>2, <1>4 DEF WorkerInv
<1>6. Keys(stmt.specs) \subseteq SeenFields(w)
  BY <1>3, <1>4, <1>5 DEF ChangeInv
<1>7. /\ buf'[w][s] = stmt.specs
      /\ \A q \in Row : q # s => buf'[w][q] = buf[w][q]
  BY <1>1, <1>4, PutEffect
<1>8. SeenFields(w)' = SeenFields(w)
  BY <1>1, <1>4, <1>7, SpecsAssumption DEF SeenFields, Seen
<1>9. Created(w, s)'
  <2>1. table'[s] = Absent
    BY <1>1, <1>5 DEF Seen
  <2> QED BY <1>4, <1>6, <1>7, <1>8, <2>1 DEF Created
<1> QED BY <1>1, <1>2, <1>3, <1>4, <1>9, WriteItemKeeps

LEMMA ChangeSpecsKeeps ==
  ASSUME IInv, NEW w \in Worker, ChangeSpecs(w) PROVE IInv'
<1> PICK stmt, s, specs :
        stmt = Head(todo[w]) /\ s = stmt.row /\ specs = Changed(stmt, table[s])
  OBVIOUS
<1>1. /\ TypeOK /\ WorkerInv(w) /\ todo \in [Worker -> Seq(Statement)]
      /\ Running(w, "merge") \/ Running(w, "drop")
      /\ todo[w] # <<>> /\ stmt.op \in {"merge", "drop"}
      /\ Proceed(w, Tail(todo[w])) /\ UNCHANGED <<table, page>> /\ Free(w, s)
      /\ Put(w, s, Changed(stmt, Seen(w, s)))
  BY DEF IInv, ChangeSpecs, Running
<1>2. Changing(todo[w])
  BY <1>1, NextStatement
<1>3. stmt = TheChange(todo[w]) /\ Tail(todo[w]) = <<End>> /\ Announced(todo[w]) = {}
      /\ stmt \in Creates \cup Merges \cup Drops
  BY <1>1, <1>2, ChangeFirst
<1>4. stmt \in Merges \cup Drops /\ s \in Sku /\ s \in Row /\ stmt.key \in Key
  BY <1>1, <1>3, SpecsAssumption DEF Creates, Merges, Drops
<1>5. ChangeInv(w) /\ buf[w][s] = Clean
  BY <1>1, <1>2, <1>4 DEF WorkerInv
<1>6. Put(w, s, specs)
  BY <1>1, <1>5 DEF Seen
<1>7. table[s] \in SpecsOf
  BY <1>1, <1>3, <1>4, <1>5 DEF ChangeInv, TypeOK
<1>8. /\ stmt \in Merges => /\ stmt.value \in Value
                            /\ specs = [table[s] EXCEPT ![stmt.key] = stmt.value]
      /\ stmt \in Drops => specs = [table[s] EXCEPT ![stmt.key] = Absent]
  BY DEF Changed, Merges, Drops
<1>9. specs \in SpecsOf
  BY <1>4, <1>7, <1>8 DEF SpecsOf
<1>10. /\ buf'[w][s] = specs
       /\ \A q \in Row : q # s => buf'[w][q] = buf[w][q]
  BY <1>1, <1>4, <1>6, <1>9, PutEffect
<1>11. SeenFields(w)' = SeenFields(w) /\ \A f \in Field : buf'[w][f] = buf[w][f]
  BY <1>1, <1>4, <1>10, SpecsAssumption DEF SeenFields, Seen
<1>12. stmt \in Merges => Merged(w, s)'
  <2> SUFFICES ASSUME stmt \in Merges PROVE Merged(w, s)'
    OBVIOUS
  <2>1. stmt.key \in SeenFields(w)' \cup {Blank}
    BY <1>3, <1>5, <1>11 DEF ChangeInv
  <2>2. stmt.value \in Value /\ buf'[w][s] = [table'[s] EXCEPT ![stmt.key] = stmt.value]
    BY <1>1, <1>8, <1>10
  <2>3. table'[s] \in SpecsOf
    BY <1>1, <1>7
  <2> QED BY <2>1, <2>2, <2>3 DEF Merged
<1>13. stmt \in Drops => Dropped(w, s)'
  <2>1. stmt \in Drops => \A f \in Field : buf[w][f] = Clean
    BY <1>3, <1>5 DEF ChangeInv
  <2> QED BY <1>1, <1>4, <1>7, <1>8, <1>10, <1>11, <2>1 DEF Dropped
<1> QED BY <1>1, <1>2, <1>3, <1>4, <1>6, <1>9, <1>12, <1>13, WriteItemKeeps

\* A request that fails, or whose connection is gone, leaves nothing behind.
LEMMA FailKeeps ==
  ASSUME IInv, NEW w \in Worker, Fail(w) PROVE IInv'
<1>1. /\ TypeOK /\ todo \in [Worker -> Seq(Statement)]
      /\ buf \in [Worker -> [Row -> SpecsOf \cup Label \cup {Absent, Clean}]]
      /\ want \in [Worker -> SUBSET Row]
      /\ page \in [Worker -> [keys : SUBSET Key, fields : SUBSET Field]]
  BY DEF IInv, TypeOK, PgTypeOK
<1>2. /\ UNCHANGED <<table, page>>
      /\ buf' \in [Worker -> [Row -> SpecsOf \cup Label \cup {Absent, Clean}]]
      /\ want' \in [Worker -> SUBSET Row]
      /\ todo' \in [Worker -> Seq(Statement)]
      /\ todo'[w] = <<>> /\ \A r \in Row : buf'[w][r] = Clean
      /\ \A v \in Worker \ {w} : todo'[v] = todo[v] /\ buf'[v] = buf[v]
  BY <1>1 DEF Fail, Discard, NoWrites
<1>3. WorkerInv(w)' /\ PageInv(w)'
  <2>1. ~Changing(<<>>)
    BY DEF Changing
  <2> QED BY <1>2, <2>1, SpecsAssumption DEF WorkerInv, PageInv, Running
<1> QED BY <1>1, <1>2, <1>3, OneRequest

LEMMA ChangeKeeps ==
  ASSUME IInv, NEW w \in Worker, Change(w) PROVE IInv'
  BY DefineFieldKeeps, CreateItemKeeps, ChangeSpecsKeeps, FailKeeps DEF Change, SkuTaken

-----------------------------------------------------------------------------
(* The reads of an item's page, and COMMIT.                                *)

\* A read leaves the rows alone; rest is what is left of the page.
LEMMA ReadKeeps ==
  ASSUME IInv, NEW w \in Worker, todo[w] # <<>>, Reading(todo[w]),
         Proceed(w, Tail(todo[w])), UNCHANGED <<table, buf>>,
         page' \in [Worker -> [keys : SUBSET Key, fields : SUBSET Field]],
         \A v \in Worker \ {w} : page'[v] = page[v],
         Tail(todo[w]) = <<>> \/ Reading(Tail(todo[w])),
         PageInv(w)'
  PROVE  IInv'
<1>1. /\ TypeOK /\ WorkerInv(w)
      /\ todo' \in [Worker -> Seq(Statement)]
      /\ want' \in [Worker -> SUBSET Row]
      /\ todo'[w] = Tail(todo[w])
      /\ \A v \in Worker \ {w} : todo'[v] = todo[v]
  BY StatementEffect DEF IInv
<1>2. \A r \in Row : buf'[w][r] = Clean
  BY <1>1 DEF WorkerInv
<1>3. todo'[w] # <<End>> /\ ~Changing(todo'[w])
  <2>1. todo'[w] \in Seq(Statement)
    BY <1>1
  <2>2. todo'[w] = <<>> \/ Reading(todo'[w])
    BY <1>1
  <2>3. <<End>> # <<>> /\ ~Reading(<<End>>)
    BY ReadingOps DEF End
  <2> QED BY <2>1, <2>2, <2>3, ChangingOps, ReadingOps
<1>4. WorkerInv(w)'
  BY <1>1, <1>2, <1>3, SpecsAssumption DEF WorkerInv
<1>5. buf' \in [Worker -> [Row -> SpecsOf \cup Label \cup {Absent, Clean}]]
  BY <1>1 DEF TypeOK, PgTypeOK
<1> QED BY <1>1, <1>2, <1>4, <1>5, OneRequest

LEMMA PageSteps ==
    /\ \A s : PageReads(s) # <<ReadCatalog, Render>> /\ PageReads(s) # <<Render>>
    /\ \A s : Tail(PageReads(s)) = <<ReadCatalog, Render>>
    /\ Tail(<<ReadCatalog, Render>>) = <<Render>>
    /\ Tail(<<Render>>) = <<>>
    /\ \A s : Head(PageReads(s)).op = "specs" /\ Head(PageReads(s)).row = s
    /\ Head(<<ReadCatalog, Render>>).op = "catalog"
    /\ Head(<<Render>>).op = "render"
  BY DEF PageReads, ReadSpecs, ReadCatalog, Render

LEMMA ReadItemKeeps ==
  ASSUME IInv, NEW w \in Worker, ReadItem(w) PROVE IInv'
<1>1. /\ TypeOK /\ WorkerInv(w) /\ PageInv(w) /\ Covered /\ todo \in [Worker -> Seq(Statement)]
      /\ page \in [Worker -> [keys : SUBSET Key, fields : SUBSET Field]]
      /\ Running(w, "specs") /\ todo[w] # <<>> /\ Head(todo[w]).op = "specs"
      /\ Proceed(w, Tail(todo[w])) /\ UNCHANGED <<table, buf>>
  BY DEF IInv, TypeOK, ReadItem, Running
<1>2. Reading(todo[w])
  BY <1>1, NextStatement
<1>3. PICK s \in Sku : todo[w] = PageReads(s)
  BY <1>1, <1>2, PageSteps DEF Reading
<1>4. table[s] # Absent /\ Keys(table[s]) \subseteq Catalog \cup {Blank}
  BY <1>1, <1>3, PageSteps DEF PageInv, Covered, Items
<1>5. page' = [page EXCEPT ![w].keys = Keys(table[s])]
  BY <1>3, PageSteps DEF ReadItem
<1>6. /\ page' \in [Worker -> [keys : SUBSET Key, fields : SUBSET Field]]
      /\ page'[w].keys = Keys(table[s])
      /\ \A v \in Worker \ {w} : page'[v] = page[v]
  <2>1. Keys(table[s]) \in SUBSET Key
    BY DEF Keys
  <2> QED BY <1>1, <1>5, <2>1
<1>7. todo'[w] = <<ReadCatalog, Render>>
  <2>1. todo'[w] = Tail(todo[w])
    BY <1>1, StatementEffect
  <2> QED BY <1>3, <2>1, PageSteps
<1>8. PageInv(w)'
  BY <1>1, <1>4, <1>6, <1>7, PageSteps DEF PageInv, Running, Catalog
<1>9. Reading(Tail(todo[w]))
  BY <1>3, PageSteps DEF Reading
<1> QED BY <1>1, <1>2, <1>6, <1>8, <1>9, ReadKeeps

LEMMA ReadFieldsKeeps ==
  ASSUME IInv, NEW w \in Worker, ReadFields(w) PROVE IInv'
<1>1. /\ TypeOK /\ WorkerInv(w) /\ PageInv(w) /\ todo \in [Worker -> Seq(Statement)]
      /\ page \in [Worker -> [keys : SUBSET Key, fields : SUBSET Field]]
      /\ Running(w, "catalog") /\ todo[w] # <<>> /\ Head(todo[w]).op = "catalog"
      /\ Proceed(w, Tail(todo[w])) /\ UNCHANGED <<table, buf>>
  BY DEF IInv, TypeOK, ReadFields, Running
<1>2. Reading(todo[w])
  BY <1>1, NextStatement
<1>3. todo[w] = <<ReadCatalog, Render>>
  BY <1>1, <1>2, PageSteps DEF Reading
<1>4. /\ page' \in [Worker -> [keys : SUBSET Key, fields : SUBSET Field]]
      /\ page'[w].keys = page[w].keys /\ page'[w].fields = Catalog
      /\ \A v \in Worker \ {w} : page'[v] = page[v]
  <2>1. Catalog \in SUBSET Field
    BY DEF Catalog
  <2> QED BY <1>1, <2>1 DEF ReadFields
<1>5. todo'[w] = <<Render>>
  BY <1>1, <1>3, PageSteps, StatementEffect
<1>6. PageInv(w)'
  BY <1>1, <1>4, <1>5, PageSteps DEF PageInv, Running
<1>7. Reading(Tail(todo[w]))
  BY <1>3, PageSteps DEF Reading
<1> QED BY <1>1, <1>2, <1>4, <1>6, <1>7, ReadKeeps

LEMMA RenderPageKeeps ==
  ASSUME IInv, NEW w \in Worker, RenderPage(w) PROVE IInv'
<1>1. /\ TypeOK /\ WorkerInv(w) /\ todo \in [Worker -> Seq(Statement)]
      /\ page \in [Worker -> [keys : SUBSET Key, fields : SUBSET Field]]
      /\ Running(w, "render") /\ todo[w] # <<>> /\ Head(todo[w]).op = "render"
      /\ Proceed(w, Tail(todo[w])) /\ UNCHANGED <<table, buf>>
  BY DEF IInv, TypeOK, RenderPage, Running
<1>2. Reading(todo[w])
  BY <1>1, NextStatement
<1>3. todo[w] = <<Render>>
  BY <1>1, <1>2, PageSteps DEF Reading
<1>4. /\ page' \in [Worker -> [keys : SUBSET Key, fields : SUBSET Field]]
      /\ \A v \in Worker \ {w} : page'[v] = page[v]
  BY <1>1 DEF RenderPage, NoPage
<1>5. todo'[w] = <<>>
  BY <1>1, <1>3, PageSteps, StatementEffect
<1>6. PageInv(w)'
  BY <1>5 DEF PageInv, Running
<1>7. Tail(todo[w]) = <<>>
  BY <1>3, PageSteps
<1> QED BY <1>1, <1>2, <1>4, <1>6, <1>7, ReadKeeps

\* What COMMIT publishes: the rows that w wrote, over those it did not.
LEMMA Published ==
  ASSUME IInv, NEW w \in Worker, Commit(w)
  PROVE  /\ todo[w] = <<End>>
         /\ WrittenInv(w)
         /\ \A r \in Row : table'[r] = Seen(w, r)
         /\ table' \in [Row -> SpecsOf \cup Label \cup {Absent}]
         /\ \A f \in Field : table'[f] \in Label \cup {Absent}
         /\ \A s \in Sku : table'[s] \in SpecsOf \cup {Absent}
         /\ \A r \in Row : table[r] # Absent => table'[r] # Absent
         /\ Catalog' = SeenFields(w)
         /\ Catalog \subseteq Catalog'
<1>1. /\ WorkerInv(w) /\ todo \in [Worker -> Seq(Statement)] /\ Running(w, "commit")
      /\ todo[w] # <<>> /\ table \in [Row -> SpecsOf \cup Label \cup {Absent}]
      /\ \A f \in Field : table[f] \in Label \cup {Absent}
      /\ \A s \in Sku : table[s] \in SpecsOf \cup {Absent}
  BY DEF IInv, TypeOK, PgTypeOK, Commit, Running
<1>2. todo[w] = <<End>> /\ WrittenInv(w)
  <2>1. todo[w] = <<End>>
    BY <1>1, NextStatement
  <2> QED BY <1>1, <2>1 DEF WorkerInv
<1>3. table' = [r \in Row |-> Seen(w, r)]
  BY DEF Commit, Publish
<1>4. \A r \in Row : /\ buf[w][r] = Clean => Seen(w, r) = table[r]
                     /\ buf[w][r] # Clean => Seen(w, r) = buf[w][r]
  BY DEF Seen
<1>5. Row = Field \cup Sku
  BY SpecsAssumption
<1>6. \A f \in Field : Seen(w, f) \in Label \cup {Absent}
  BY <1>1, <1>2, <1>4, <1>5, WritesRows
<1>7. \A s \in Sku : Seen(w, s) \in SpecsOf \cup {Absent}
  BY <1>1, <1>2, <1>4, <1>5, WritesRows
<1>8. \A r \in Row : table[r] # Absent => Seen(w, r) # Absent
  BY <1>2, <1>4, WritesRows
<1>9. Catalog' = SeenFields(w) /\ Catalog \subseteq Catalog'
  BY <1>3, <1>5, <1>8 DEF Catalog, SeenFields
<1> QED BY <1>2, <1>3, <1>5, <1>6, <1>7, <1>8, <1>9

LEMMA CommitKeeps ==
  ASSUME IInv, NEW w \in Worker, Commit(w) PROVE IInv'
<1>1. /\ TypeOK /\ Exclusive /\ Covered /\ todo \in [Worker -> Seq(Statement)]
      /\ buf \in [Worker -> [Row -> SpecsOf \cup Label \cup {Absent, Clean}]]
  BY DEF IInv, TypeOK, PgTypeOK
<1>2. /\ WrittenInv(w)
      /\ \A r \in Row : table'[r] = Seen(w, r)
      /\ table' \in [Row -> SpecsOf \cup Label \cup {Absent}]
      /\ \A f \in Field : table'[f] \in Label \cup {Absent}
      /\ \A s \in Sku : table'[s] \in SpecsOf \cup {Absent}
      /\ \A r \in Row : table[r] # Absent => table'[r] # Absent
      /\ Catalog' = SeenFields(w)
      /\ Catalog \subseteq Catalog'
  BY Published
<1>3. /\ buf' = [buf EXCEPT ![w] = NoWrites]
      /\ todo' = [todo EXCEPT ![w] = <<>>]
      /\ UNCHANGED <<want, page>>
  BY DEF Commit, Publish
<1>4. /\ buf' \in [Worker -> [Row -> SpecsOf \cup Label \cup {Absent, Clean}]]
      /\ todo' \in [Worker -> Seq(Statement)]
      /\ todo'[w] = <<>> /\ \A r \in Row : buf'[w][r] = Clean
      /\ \A v \in Worker : v # w => todo'[v] = todo[v] /\ buf'[v] = buf[v] /\ page'[v] = page[v]
  BY <1>1, <1>3 DEF NoWrites
<1>5. TypeOK'
  <2>1. \A v \in Worker, i \in 1 .. MaxNew + 3 : i <= Len(todo'[v]) => Target(todo'[v][i]) \subseteq Row
    BY <1>4, SeqTargets
  <2> QED BY <1>1, <1>2, <1>3, <1>4, <2>1 DEF TypeOK, PgTypeOK
<1>6. Exclusive'
  <2> SUFFICES ASSUME NEW u \in Worker, NEW v \in Worker, NEW r \in Row, u # v
               PROVE  buf'[u][r] = Clean \/ buf'[v][r] = Clean
    BY DEF Exclusive
  <2>1. CASE u = w \/ v = w
    BY <1>4, <2>1
  <2>2. CASE u # w /\ v # w
    <3>1. buf'[u] = buf[u] /\ buf'[v] = buf[v]
      BY <1>4, <2>2
    <3> QED BY <1>1, <3>1 DEF Exclusive
  <2> QED BY <2>1, <2>2
<1>7. Covered'
  <2> SUFFICES ASSUME NEW s \in Sku, table'[s] # Absent
               PROVE  Keys(table'[s]) \subseteq Catalog' \cup {Blank}
    BY DEF Covered, Items, Keys
  <2>1. s \in Row
    BY SpecsAssumption
  <2>2. ASSUME NEW specs \in SpecsOf, specs = table[s]
        PROVE  Keys(specs) \subseteq Catalog' \cup {Blank}
    <3>1. s \in Items
      BY <2>2, Marks DEF Items
    <3> QED BY <1>1, <1>2, <2>2, <3>1 DEF Covered
  <2>3. CASE buf[w][s] = Clean
    <3>1. table'[s] = table[s] /\ table[s] \in SpecsOf
      BY <1>1, <1>2, <2>1, <2>3 DEF Seen, TypeOK
    <3> QED BY <2>2, <3>1
  <2>4. CASE buf[w][s] # Clean
    <3>1. table'[s] = buf[w][s]
      BY <1>2, <2>1, <2>4 DEF Seen
    <3>2. Created(w, s) \/ Merged(w, s) \/ Dropped(w, s)
      BY <1>2, <2>4 DEF WrittenInv
    <3>3. CASE Created(w, s)
      BY <1>2, <3>1, <3>3 DEF Created
    <3>4. CASE Merged(w, s)
      <4>1. PICK k \in SeenFields(w) \cup {Blank}, v \in Value :
              buf[w][s] = [table[s] EXCEPT ![k] = v]
        BY <3>4 DEF Merged
      <4>2. table[s] \in SpecsOf
        BY <3>4 DEF Merged
      <4>3. Keys(buf[w][s]) \subseteq Keys(table[s]) \cup {k}
        BY <4>1, <4>2 DEF Keys, SpecsOf
      <4> QED BY <1>2, <2>2, <3>1, <4>2, <4>3
    <3>5. CASE Dropped(w, s)
      <4>1. PICK k \in Key : buf[w][s] = [table[s] EXCEPT ![k] = Absent]
        BY <3>5 DEF Dropped
      <4>2. table[s] \in SpecsOf
        BY <3>5 DEF Dropped
      <4>3. Keys(buf[w][s]) \subseteq Keys(table[s])
        BY <4>1, <4>2 DEF Keys, SpecsOf
      <4> QED BY <2>2, <3>1, <4>2, <4>3
    <3> QED BY <3>2, <3>3, <3>4, <3>5
  <2> QED BY <2>3, <2>4
<1>8. ASSUME NEW v \in Worker PROVE WorkerInv(v)' /\ PageInv(v)'
  <2>1. CASE v = w
    <3>1. ~Changing(<<>>)
      BY DEF Changing
    <3> QED BY <1>4, <2>1, <3>1, SpecsAssumption DEF WorkerInv, PageInv, Running
  <2>2. CASE v # w
    <3>1. \A r \in Row : buf[v][r] # Clean => buf[w][r] = Clean
      BY <1>1, <2>2 DEF Exclusive
    <3>2. \A r \in Row : buf[v][r] # Clean => table'[r] = table[r]
      BY <1>2, <3>1 DEF Seen
    <3>3. todo'[v] = todo[v] /\ buf'[v] = buf[v] /\ page'[v] = page[v]
      BY <1>4, <2>2
    <3> QED BY <1>2, <3>2, <3>3, Frame
  <2> QED BY <2>1, <2>2
<1> QED BY <1>4, <1>5, <1>6, <1>7, <1>8 DEF IInv

LEMMA StopKeeps == ASSUME IInv, StopPostgres PROVE IInv'
<1>1. /\ TypeOK /\ Covered
      /\ UNCHANGED table
      /\ \A w \in Worker : todo'[w] = <<>> /\ \A r \in Row : buf'[w][r] = Clean
      /\ todo' \in [Worker -> Seq(Statement)]
      /\ buf' \in [Worker -> [Row -> SpecsOf \cup Label \cup {Absent, Clean}]]
      /\ want' \in [Worker -> SUBSET Row]
      /\ page' \in [Worker -> [keys : SUBSET Key, fields : SUBSET Field]]
  BY DEF IInv, StopPostgres, NoWrites, NoPage
<1>2. TypeOK'
  <2>1. \A v \in Worker, i \in 1 .. MaxNew + 3 : i <= Len(todo'[v]) => Target(todo'[v][i]) \subseteq Row
    BY <1>1, SeqTargets
  <2> QED BY <1>1, <2>1 DEF TypeOK, PgTypeOK
<1>3. Exclusive' /\ Covered'
  BY <1>1 DEF Exclusive, Covered, Items, Catalog
<1>4. ASSUME NEW w \in Worker PROVE WorkerInv(w)' /\ PageInv(w)'
  <2>1. ~Changing(<<>>)
    BY DEF Changing
  <2>2. todo'[w] = <<>> /\ \A r \in Row : buf'[w][r] = Clean
    BY <1>1
  <2>3. <<>> # <<End>> /\ Field \subseteq Row
    BY SpecsAssumption
  <2>4. WorkerInv(w)'
    BY <2>1, <2>2, <2>3 DEF WorkerInv
  <2> QED BY <2>2, <2>4 DEF PageInv, Running
<1> QED BY <1>1, <1>2, <1>3, <1>4 DEF IInv

-----------------------------------------------------------------------------
(* The invariant, and what it says of every run.                           *)

LEMMA NextInv == IInv /\ [Next]_vars => IInv'
<1> SUFFICES ASSUME IInv, [Next]_vars PROVE IInv'
  OBVIOUS
<1>1. ASSUME NEW w \in Worker, Ask(w) PROVE IInv'
  BY <1>1, AskKeeps
<1>2. ASSUME NEW w \in Worker, Change(w) PROVE IInv'
  BY <1>2, ChangeKeeps
<1>3. ASSUME NEW w \in Worker, Answer(w) PROVE IInv'
  BY <1>3, ReadItemKeeps, ReadFieldsKeeps, RenderPageKeeps, CommitKeeps DEF Answer
<1>4. ASSUME NEW w \in Worker, Abort(w) PROVE IInv'
  BY <1>4, FailKeeps DEF Abort
<1>5. CASE StopPostgres
  BY <1>5, StopKeeps
<1>6. CASE UNCHANGED vars
  <2>1. UNCHANGED <<table, buf, want, todo, page>>
    BY <1>6 DEF vars, pgVars
  <2>2. TypeOK' /\ Exclusive' /\ Covered' /\ todo' \in [Worker -> Seq(Statement)]
    BY <2>1 DEF IInv, TypeOK, PgTypeOK, Exclusive, Covered, Items, Catalog
  <2>3. ASSUME NEW w \in Worker PROVE WorkerInv(w)' /\ PageInv(w)'
    BY <2>1, Frame
  <2> QED BY <2>2, <2>3 DEF IInv
<1> QED BY <1>1, <1>2, <1>3, <1>4, <1>5, <1>6 DEF Next

LEMMA Invariance == Spec => []IInv
<1>1. Init => IInv
  BY InitInv
<1>2. IInv /\ [Next]_vars => IInv'
  BY NextInv
<1> QED BY <1>1, <1>2, PTL DEF Spec

\* Every variable has its type, and no statement waits for a row there is not.
THEOREM TypeCorrect == Spec => []TypeOK
<1>1. IInv => TypeOK
  BY DEF IInv
<1> QED BY <1>1, Invariance, PTL

\* A page that is rendered knows the label of every key it shows, but the blank
\* one: the item was read before the catalog (app.py:125 and 137-143).
THEOREM PageLabelledAlways == Spec => []PageLabelled
<1>1. IInv => PageLabelled
  BY DEF IInv, PageInv, PageLabelled
<1> QED BY <1>1, Invariance, PTL

-----------------------------------------------------------------------------
(* The refinement: a form takes effect when it commits, all at once.       *)

\* The rows, as the store knows them.
fields == [f \in Field |-> table[f]]
rowsOfItems == [s \in Sku |-> table[s]]

LEMMA StoreInit == Init => Store!Init
<1> SUFFICES ASSUME Init PROVE Store!Init
  OBVIOUS
<1>1. TypeOK /\ Covered
  BY InitInv DEF IInv
<1>2. Store!StoreTypeOK
  BY <1>1 DEF TypeOK, Store!StoreTypeOK, Store!SpecsOf, Store!Key, SpecsOf, Key
<1>3. Store!Covered
  BY <1>1 DEF Covered, Items, Keys, Catalog, Key,
              Store!Covered, Store!Items, Store!Keys, Store!Key, Store!Defined
<1> QED BY <1>2, <1>3 DEF Store!Init

\* A transaction that commits its one item is a step of the store.
LEMMA CommitImplements ==
  ASSUME IInv, NEW w \in Worker, Commit(w) PROVE Store!Next
<1>1. /\ TypeOK /\ WrittenInv(w)
      /\ \A r \in Row : table'[r] = Seen(w, r)
      /\ \A f \in Field : table'[f] \in Label \cup {Absent}
      /\ Catalog' = SeenFields(w)
  BY Published DEF IInv
<1>2. Field \subseteq Row /\ Sku \subseteq Row
  BY SpecsAssumption
<1>3. \A f \in Field : buf[w][f] # Clean => table[f] = Absent
  BY DEF IInv, WorkerInv
<1>4. Store!Announce
  <2>1. fields' \in [Field -> Label \cup {Absent}]
    BY <1>1 DEF fields
  <2>2. \A f \in Field : table[f] # Absent => table'[f] = table[f]
    BY <1>1, <1>2, <1>3 DEF Seen
  <2> QED BY <2>1, <2>2 DEF fields, Store!Announce, Store!Defined
<1>5. Store!Defined' = SeenFields(w)
  BY <1>1, <1>2 DEF Store!Defined, SeenFields
<1>6. PICK s \in Sku : /\ \A t \in Sku \ {s} : buf[w][t] = Clean
                       /\ Created(w, s) \/ Merged(w, s) \/ Dropped(w, s)
  BY <1>1 DEF WrittenInv
<1>7. rowsOfItems' = [rowsOfItems EXCEPT ![s] = buf[w][s]]
  <2>1. table'[s] = buf[w][s]
    BY <1>1, <1>2, <1>6, WrittenSpecs DEF Seen
  <2>2. \A t \in Sku : t # s => table'[t] = table[t]
    BY <1>1, <1>2, <1>6 DEF Seen
  <2> QED BY <2>1, <2>2 DEF rowsOfItems
<1>8. CASE Created(w, s)
  <2>1. s \notin Store!Items
    BY <1>8 DEF Created, Store!Items
  <2>2. buf[w][s] \in Store!SpecsOf /\ Store!Keys(buf[w][s]) \subseteq Store!Defined'
    BY <1>5, <1>8 DEF Created, SpecsOf, Key, Keys, Store!SpecsOf, Store!Key, Store!Keys
  <2>3. Store!Create(s)
    BY <1>4, <1>7, <2>1, <2>2 DEF Store!Create, rowsOfItems
  <2> QED BY <2>3 DEF Store!Next
<1>9. CASE Merged(w, s)
  <2>1. s \in Store!Items
    BY <1>9, Marks DEF Merged, Store!Items
  <2>2. PICK k \in SeenFields(w) \cup {Blank}, v \in Value : buf[w][s] = [table[s] EXCEPT ![k] = v]
    BY <1>9 DEF Merged
  <2>3. rowsOfItems' = [rowsOfItems EXCEPT ![s][k] = v]
    BY <1>7, <2>2 DEF rowsOfItems
  <2>4. Store!SetField(s)
    BY <1>4, <1>5, <2>1, <2>3 DEF Store!SetField, rowsOfItems
  <2> QED BY <2>4 DEF Store!Next
<1>10. CASE Dropped(w, s)
  <2>1. s \in Store!Items
    BY <1>10, Marks DEF Dropped, Store!Items
  <2>2. PICK k \in Key : buf[w][s] = [table[s] EXCEPT ![k] = Absent]
    BY <1>10 DEF Dropped
  <2>3. rowsOfItems' = [rowsOfItems EXCEPT ![s][k] = Absent]
    BY <1>7, <2>2 DEF rowsOfItems
  <2>4. fields' = fields
    <3>1. \A f \in Field : table'[f] = table[f]
      BY <1>1, <1>2, <1>10 DEF Dropped, Seen
    <3> QED BY <3>1 DEF fields
  <2>5. Store!DropField(s)
    BY <2>1, <2>2, <2>3, <2>4 DEF Store!DropField, Store!Key, Key, rowsOfItems, fields
  <2> QED BY <2>5 DEF Store!Next
<1> QED BY <1>6, <1>8, <1>9, <1>10

\* Whatever else happens, the store sees nothing of it.
LEMMA StepImplements ==
  ASSUME IInv, [Next]_vars
  PROVE  [Store!Next]_<<fields, rowsOfItems>>
<1>1. \/ \E w \in Worker : Commit(w)
      \/ UNCHANGED table
  BY DEF Next, Ask, NewItem, AddField, AddNewField, EditField, RemoveField, Show, Submit,
         Change, DefineField, CreateItem, ChangeSpecs, SkuTaken, Fail, Discard,
         Answer, ReadItem, ReadFields, RenderPage, Abort, StopPostgres, vars, pgVars
<1>2. CASE \E w \in Worker : Commit(w)
  BY <1>2, CommitImplements
<1>3. CASE UNCHANGED table
  BY <1>3 DEF fields, rowsOfItems
<1> QED BY <1>1, <1>2, <1>3

\* The forms behave as if each were run alone and in one piece: whatever the
\* threads, what they publish is a run of SpecStore.
THEOREM ImplementsSpecStoreAlways == Spec => ImplementsSpecStore
<1>1. Init => Store!Init
  BY StoreInit
<1>2. IInv /\ [Next]_vars => [Store!Next]_<<fields, rowsOfItems>>
  BY StepImplements
<1>3. Spec => Store!Spec
  BY <1>1, <1>2, Invariance, PTL DEF Spec, Store!Spec, fields, rowsOfItems
<1> QED BY <1>3 DEF ImplementsSpecStore

=============================================================================
