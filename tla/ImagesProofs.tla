---------------------------- MODULE ImagesProofs ----------------------------
(***************************************************************************)
(* What holds of Images for every set of threads, every set of ids and     *)
(* every number of images, with proofs.                                    *)
(*                                                                         *)
(* The type invariant and the exclusion of row locks hold of all           *)
(* behaviours.  The refinement of Gallery, and with it the promise of one  *)
(* primary image, needs a quiet gallery: no handler of another thread adds *)
(* or removes an image between two statements of a transaction.            *)
(***************************************************************************)
EXTENDS Images, NaturalsInduction, WellFoundedInduction, TLAPS

USE MarkAssumption, ImagesAssumption

-----------------------------------------------------------------------------
(* The types.                                                              *)

LEMMA InitType == Init => TypeOK
  BY DEF Init, TypeOK, PgInit, PgTypeOK, NoWrites, Status, Stages

LEMMA NextType == TypeOK /\ [Next]_vars => TypeOK'
<1> SUFFICES ASSUME TypeOK, [Next]_vars PROVE TypeOK'
  OBVIOUS
<1> USE DEF TypeOK, PgTypeOK, pgVars
<1>1. ASSUME NEW w \in Worker, AddImage(w) PROVE TypeOK'
  BY <1>1 DEF AddImage, Stages
<1>2. ASSUME NEW w \in Worker, PickImage(w) PROVE TypeOK'
  <2>1. PICK k \in Kind \ {"add_image"}, r \in Offered :
          /\ pc' = [pc EXCEPT ![w] = FirstStatement[k]]
          /\ arg' = [arg EXCEPT ![w] = r]
    BY <1>2 DEF PickImage
  <2>2. FirstStatement[k] \in Stages
    BY DEF FirstStatement, Stages, Actions
  <2>3. r \in Row
    BY DEF Offered, LiveRows
  <2> QED BY <1>2, <2>1, <2>2, <2>3 DEF PickImage
<1>3. ASSUME NEW w \in Worker, CountImages(w) PROVE TypeOK'
  BY <1>3 DEF CountImages, Stages
<1>4. ASSUME NEW w \in Worker, InsertImage(w) PROVE TypeOK'
  BY <1>4 DEF InsertImage, Put, NewStatus, Stages, Status
<1>5. ASSUME NEW w \in Worker, ReadPrimary(w) PROVE TypeOK'
  BY <1>5 DEF ReadPrimary, Stages
<1>6. ASSUME NEW w \in Worker, NEW from, NEW to \in Stages, NEW rows \in SUBSET Row,
             StartStatement(w, from, to, rows)
      PROVE  TypeOK'
  BY <1>6 DEF StartStatement
<1>7. ASSUME NEW w \in Worker,
             DeleteImage(w) \/ PromoteImage(w) \/ ClearPrimaries(w)
               \/ MarkPrimary(w) \/ ReplaceImage(w)
      PROVE  TypeOK'
  <2>1. /\ ArgRow(w) \in SUBSET Row
        /\ SeenRows(w) \in SUBSET Row
        /\ Lowest(SeenRows(w)) \in SUBSET Row
    BY DEF ArgRow, SeenRows, Lowest
  <2>2. {"deleting", "promoting", "clearing", "marking", "replacing"} \subseteq Stages
    BY DEF Stages
  <2> QED BY <1>6, <1>7, <2>1, <2>2
             DEF DeleteImage, PromoteImage, ClearPrimaries, MarkPrimary, ReplaceImage
<1>8. ASSUME NEW w \in Worker, LockRow(w) PROVE TypeOK'
  <2>1. PICK r \in want[w] :
          /\ want' = [want EXCEPT ![w] = @ \ {r}]
          /\ \/ buf' = buf
             \/ Seen(w, r) # Absent /\ Put(w, r, Written(pc[w], Seen(w, r)))
    BY <1>8 DEF LockRow
  <2>2. Written(pc[w], Seen(w, r)) \in Status \cup {Absent, Clean}
    BY DEF Written, Seen, Status
  <2>3. r \in Row /\ want' \in [Worker -> SUBSET Row]
    BY <2>1
  <2>4. buf' \in [Worker -> [Row -> Status \cup {Absent, Clean}]]
    <3> DEFINE x == Written(pc[w], Seen(w, r))
    <3>1. [buf[w] EXCEPT ![r] = x] \in [Row -> Status \cup {Absent, Clean}]
      BY <2>2, <2>3
    <3>2. [buf EXCEPT ![w][r] = x] = [buf EXCEPT ![w] = [buf[w] EXCEPT ![r] = x]]
      OBVIOUS
    <3> HIDE DEF x
    <3> QED BY <2>1, <3>1, <3>2 DEF Put, x
  <2> QED BY <1>8, <2>3, <2>4 DEF LockRow
<1>9. ASSUME NEW W \in SUBSET Worker, Leave(W)
      PROVE  /\ pc' \in [Worker -> Stages]
             /\ arg' \in [Worker -> Row \cup {0}]
             /\ flag' \in [Worker -> BOOLEAN]
             /\ nextId' \in Nat \ {0}
  BY <1>9 DEF Leave, Stages
<1>10. ASSUME NEW w \in Worker, Commit(w) PROVE TypeOK'
  <2>1. table' \in [Row -> Status \cup {Absent}]
    BY <1>10 DEF Commit, Publish, Seen
  <2>2. buf' \in [Worker -> [Row -> Status \cup {Absent, Clean}]]
    BY <1>10 DEF Commit, Publish, NoWrites
  <2>3. shown' \in SUBSET Row
    BY <1>10 DEF Commit, SeenRows
  <2> QED BY <1>9, <1>10, <2>1, <2>2, <2>3 DEF Commit, Publish
<1>11. ASSUME NEW w \in Worker, Abort(w) PROVE TypeOK'
  <2>1. /\ buf' \in [Worker -> [Row -> Status \cup {Absent, Clean}]]
        /\ want' \in [Worker -> SUBSET Row]
    BY <1>11 DEF Abort, Discard, NoWrites
  <2> QED BY <1>9, <1>11, <2>1 DEF Abort, Discard
<1>12. ASSUME StopPostgres PROVE TypeOK'
  <2>1. /\ buf' \in [Worker -> [Row -> Status \cup {Absent, Clean}]]
        /\ want' \in [Worker -> SUBSET Row]
    BY <1>12 DEF StopPostgres, NoWrites
  <2> QED BY <1>9, <1>12, <2>1 DEF StopPostgres
<1>13. CASE UNCHANGED vars
  BY <1>13 DEF vars
<1> QED BY <1>1, <1>2, <1>3, <1>4, <1>5, <1>7, <1>8, <1>10, <1>11, <1>12, <1>13
           DEF Next, Step

\* In every behaviour of the server every variable keeps its type.
THEOREM TypeCorrect == Spec => []TypeOK
  BY InitType, NextType, PTL DEF Spec

-----------------------------------------------------------------------------
(* The row locks.  An insert takes its row without waiting, so their       *)
(* exclusion rests on the sequence: an id not yet handed out has no row,   *)
(* committed or not.                                                       *)

Fresh ==
    \A r \in Row : r >= nextId =>
        /\ table[r] = Absent
        /\ \A w \in Worker : buf[w][r] = Clean

Exclusive ==
    \A v, w \in Worker, r \in Row :
        v # w => buf[v][r] = Clean \/ buf[w][r] = Clean

LockInv == TypeOK /\ Fresh /\ Exclusive

LEMMA InitLocks == Init => LockInv
<1> SUFFICES ASSUME Init PROVE Fresh /\ Exclusive
  BY InitType DEF LockInv
<1> QED BY DEF Init, PgInit, NoWrites, Fresh, Exclusive

\* A row that some transaction sees has an id already handed out.
LEMMA SeenIsOld ==
  ASSUME LockInv, NEW w \in Worker, NEW r \in SeenRows(w)
  PROVE  r < nextId
  BY DEF LockInv, Fresh, SeenRows, Seen, TypeOK

LEMMA NextLocks == LockInv /\ [Next]_vars => LockInv'
<1> SUFFICES ASSUME LockInv, [Next]_vars PROVE Fresh' /\ Exclusive'
  BY NextType DEF LockInv
<1> USE DEF LockInv, TypeOK, PgTypeOK, pgVars
<1>1. ASSUME UNCHANGED <<table, buf, nextId>> PROVE Fresh' /\ Exclusive'
  BY <1>1 DEF Fresh, Exclusive
<1>2. ASSUME NEW w \in Worker,
             \/ AddImage(w) \/ PickImage(w) \/ CountImages(w) \/ ReadPrimary(w)
             \/ DeleteImage(w) \/ PromoteImage(w) \/ ClearPrimaries(w)
             \/ MarkPrimary(w) \/ ReplaceImage(w)
      PROVE  UNCHANGED <<table, buf, nextId>>
  BY <1>2 DEF AddImage, PickImage, CountImages, ReadPrimary, DeleteImage, PromoteImage,
              ClearPrimaries, MarkPrimary, ReplaceImage, StartStatement
<1>3. ASSUME NEW w \in Worker, InsertImage(w) PROVE Fresh' /\ Exclusive'
  <2>1. /\ \A v \in Worker, r \in Row : v # w \/ r # nextId => buf'[v][r] = buf[v][r]
        /\ \A v \in Worker : buf[v][nextId] = Clean
        /\ nextId \in Row /\ nextId' = nextId + 1 /\ table' = table
    BY <1>3 DEF InsertImage, Put, Fresh
  <2>2. Fresh'
    <3> SUFFICES ASSUME NEW r \in Row, r >= nextId + 1
                 PROVE  table[r] = Absent /\ \A v \in Worker : buf'[v][r] = Clean
      BY <2>1 DEF Fresh
    <3> QED BY <2>1 DEF Fresh
  <2> QED BY <2>1, <2>2 DEF Exclusive
<1>4. ASSUME NEW w \in Worker, LockRow(w) PROVE Fresh' /\ Exclusive'
  <2>1. PICK r \in want[w] :
          /\ Free(w, r)
          /\ \/ buf' = buf
             \/ Seen(w, r) # Absent /\ Put(w, r, Written(pc[w], Seen(w, r)))
    BY <1>4 DEF LockRow
  <2>2. CASE buf' = buf
    BY <1>1, <1>4, <2>2 DEF LockRow
  <2>3. CASE Seen(w, r) # Absent /\ Put(w, r, Written(pc[w], Seen(w, r)))
    <3>1. r \in Row /\ r < nextId
      BY <2>3, SeenIsOld DEF SeenRows
    <3>2. /\ \A v \in Worker, s \in Row : v # w \/ s # r => buf'[v][s] = buf[v][s]
          /\ \A v \in Worker : v # w => buf[v][r] = Clean
          /\ nextId' = nextId /\ table' = table
      BY <1>4, <2>1, <2>3, <3>1 DEF LockRow, Put, Free, Held
    <3> QED BY <3>1, <3>2 DEF Fresh, Exclusive
  <2> QED BY <2>1, <2>2, <2>3
<1>5. ASSUME NEW w \in Worker, Commit(w) PROVE Fresh' /\ Exclusive'
  <2>1. /\ \A v \in Worker, r \in Row : buf'[v][r] = IF v = w THEN Clean ELSE buf[v][r]
        /\ \A r \in Row : table'[r] = Seen(w, r)
        /\ nextId' = nextId
    BY <1>5 DEF Commit, Publish, NoWrites, Leave
  <2> QED BY <2>1 DEF Fresh, Exclusive, Seen
<1>6. ASSUME NEW w \in Worker, Abort(w) PROVE Fresh' /\ Exclusive'
  <2>1. /\ \A v \in Worker, r \in Row : buf'[v][r] = IF v = w THEN Clean ELSE buf[v][r]
        /\ table' = table /\ nextId' = nextId
    BY <1>6 DEF Abort, Discard, NoWrites, Leave
  <2> QED BY <2>1 DEF Fresh, Exclusive
<1>7. ASSUME StopPostgres PROVE Fresh' /\ Exclusive'
  <2>1. /\ \A v \in Worker, r \in Row : buf'[v][r] = Clean
        /\ table' = table /\ nextId' = nextId
    BY <1>7 DEF StopPostgres, NoWrites, Leave
  <2> QED BY <2>1 DEF Fresh, Exclusive
<1>8. CASE UNCHANGED vars
  BY <1>1, <1>8 DEF vars
<1> QED BY <1>1, <1>2, <1>3, <1>4, <1>5, <1>6, <1>7, <1>8 DEF Next, Step

\* Two open transactions never hold the same image row.
THEOREM LocksExclusive == Spec => []RowLocksExclusive
<1>1. LockInv => RowLocksExclusive
  BY DEF LockInv, Exclusive, RowLocksExclusive, Held
<1> QED BY InitLocks, NextLocks, <1>1, PTL DEF Spec

-----------------------------------------------------------------------------
(* The choice of a primary image, whatever other requests do meanwhile.    *)

\* A transaction that has run no statement yet has written nothing, and one
\* that chooses a primary image has taken the mark off every row it holds,
\* before it sets it on the chosen one.
ChoosingInv(w) ==
    /\ pc[w] \in {"idle", "count", "insert", "read", "gone", "delete", "clear", "replace"} =>
         want[w] = {} /\ \A r \in Row : buf[w][r] = Clean
    /\ pc[w] = "clearing" => \A r \in Row : buf[w][r] \in {Clean, "other"}
    /\ pc[w] = "marking" =>
         /\ want[w] \subseteq {arg[w]}
         /\ \A r \in Row : r # arg[w] \/ r \in want[w] => buf[w][r] \in {Clean, "other"}
         /\ \A r \in Row \ want[w] : r = arg[w] => buf[w][r] \in {Clean, "primary"}

ChoiceInv == TypeOK /\ \A w \in Worker : ChoosingInv(w)

LEMMA NextChoice == ChoiceInv /\ [Next]_vars => ChoiceInv'
<1> SUFFICES ASSUME ChoiceInv, [Next]_vars PROVE \A w \in Worker : ChoosingInv(w)'
  BY NextType DEF ChoiceInv
<1> USE DEF ChoiceInv, TypeOK, PgTypeOK, pgVars
<1>1. ASSUME NEW v \in Worker, pc'[v] = pc[v], want'[v] = want[v], buf'[v] = buf[v],
             arg'[v] = arg[v]
      PROVE  ChoosingInv(v)'
  BY <1>1 DEF ChoosingInv
<1>2. ASSUME NEW v \in Worker, pc'[v] = "idle", want'[v] = {}, \A r \in Row : buf'[v][r] = Clean
      PROVE  ChoosingInv(v)'
  BY <1>2 DEF ChoosingInv
<1>3. ASSUME NEW w \in Worker,
             AddImage(w) \/ PickImage(w) \/ CountImages(w) \/ InsertImage(w) \/ ReadPrimary(w)
      PROVE  \A v \in Worker : ChoosingInv(v)'
  <2>1. \A v \in Worker : v # w =>
          pc'[v] = pc[v] /\ want'[v] = want[v] /\ buf'[v] = buf[v] /\ arg'[v] = arg[v]
    BY <1>3 DEF AddImage, PickImage, CountImages, InsertImage, ReadPrimary, Put
  <2>2. CASE AddImage(w) \/ PickImage(w) \/ CountImages(w) \/ ReadPrimary(w)
    <3>1. /\ pc[w] \in {"idle", "count", "read"}
          /\ pc'[w] \notin {"clearing", "marking"}
          /\ want' = want /\ buf' = buf
      BY <2>2 DEF AddImage, PickImage, CountImages, ReadPrimary, FirstStatement, Actions
    <3>2. ChoosingInv(w)'
      BY <3>1 DEF ChoosingInv
    <3> QED BY <1>1, <2>1, <3>2
  <2>3. CASE InsertImage(w)
    <3>1. ChoosingInv(w)'
      BY <2>3 DEF InsertImage, ChoosingInv
    <3> QED BY <1>1, <2>1, <3>1
  <2> QED BY <1>3, <2>2, <2>3
<1>4. ASSUME NEW w \in Worker,
             \/ DeleteImage(w) \/ PromoteImage(w) \/ ClearPrimaries(w)
             \/ MarkPrimary(w) \/ ReplaceImage(w)
      PROVE  \A v \in Worker : ChoosingInv(v)'
  <2>1. \A v \in Worker : v # w =>
          pc'[v] = pc[v] /\ want'[v] = want[v] /\ buf'[v] = buf[v] /\ arg'[v] = arg[v]
    BY <1>4 DEF DeleteImage, PromoteImage, ClearPrimaries, MarkPrimary, ReplaceImage, StartStatement
  <2>2. CASE DeleteImage(w) \/ PromoteImage(w) \/ ReplaceImage(w)
    <3>1. pc'[w] \in {"deleting", "promoting", "replacing"}
      BY <2>2 DEF DeleteImage, PromoteImage, ReplaceImage, StartStatement
    <3> QED BY <1>1, <2>1, <3>1 DEF ChoosingInv
  <2>3. CASE ClearPrimaries(w)
    <3>1. pc[w] = "clear" /\ pc'[w] = "clearing" /\ buf' = buf
      BY <2>3 DEF ClearPrimaries, StartStatement
    <3> QED BY <1>1, <2>1, <3>1 DEF ChoosingInv
  <2>4. CASE MarkPrimary(w)
    <3>1. /\ pc[w] = "clearing" /\ pc'[w] = "marking" /\ buf' = buf /\ arg' = arg
          /\ want'[w] = ArgRow(w)
      BY <2>4 DEF MarkPrimary, StartStatement
    <3>2. \A r \in Row : buf[w][r] \in {Clean, "other"}
      BY <3>1 DEF ChoosingInv
    <3>3. \A r \in Row \ ArgRow(w) : r = arg[w] => buf[w][r] = Clean
      BY <3>2 DEF ArgRow, SeenRows, Seen, Status
    <3>4. ChoosingInv(w)'
      BY <3>1, <3>2, <3>3 DEF ChoosingInv, ArgRow
    <3> QED BY <1>1, <2>1, <3>4
  <2> QED BY <1>4, <2>2, <2>3, <2>4
<1>5. ASSUME NEW w \in Worker, LockRow(w) PROVE \A v \in Worker : ChoosingInv(v)'
  <2>1. PICK r \in want[w] :
          /\ want' = [want EXCEPT ![w] = @ \ {r}]
          /\ \/ Seen(w, r) = Absent /\ UNCHANGED buf
             \/ Seen(w, r) # Absent /\ Put(w, r, Written(pc[w], Seen(w, r)))
    BY <1>5 DEF LockRow
  <2>2. pc' = pc /\ arg' = arg /\ r \in Row
    BY <1>5 DEF LockRow
  <2>3. \A v \in Worker : v # w => want'[v] = want[v] /\ buf'[v] = buf[v]
    BY <2>1 DEF Put
  <2>4. /\ want'[w] = want[w] \ {r}
        /\ \A q \in Row : q # r => buf'[w][q] = buf[w][q]
        /\ \/ Seen(w, r) = Absent /\ buf'[w][r] = buf[w][r]
           \/ buf'[w][r] = Written(pc[w], Seen(w, r))
    BY <2>1, <2>2 DEF Put
  <2>5. CASE pc[w] = "clearing"
    <3>1. buf'[w][r] \in {Clean, "other"}
      BY <2>2, <2>4, <2>5 DEF ChoosingInv, Written
    <3> QED BY <1>1, <2>2, <2>3, <2>4, <2>5, <3>1 DEF ChoosingInv
  <2>6. CASE pc[w] = "marking"
    <3>1. r = arg[w] /\ want'[w] = {}
      BY <2>4, <2>6 DEF ChoosingInv
    <3>2. buf[w][r] \in {Clean, "other"}
      BY <2>2, <2>6 DEF ChoosingInv
    <3>3. buf'[w][r] \in {Clean, "primary"}
      BY <2>4, <2>6, <3>2 DEF Seen, Status, Written
    <3>4. \A q \in Row : q # arg[w] => buf'[w][q] \in {Clean, "other"}
      BY <2>4, <2>6, <3>1 DEF ChoosingInv
    <3>5. ChoosingInv(w)'
      BY <2>2, <2>6, <3>1, <3>3, <3>4 DEF ChoosingInv
    <3> QED BY <1>1, <2>2, <2>3, <3>5
  <2>7. CASE pc[w] \notin {"clearing", "marking"}
    <3>1. ChoosingInv(w)'
      BY <2>1, <2>2, <2>7 DEF ChoosingInv
    <3> QED BY <1>1, <2>2, <2>3, <3>1
  <2> QED BY <2>5, <2>6, <2>7
<1>6. ASSUME NEW w \in Worker, Commit(w) \/ Abort(w) PROVE \A v \in Worker : ChoosingInv(v)'
  <2>1. /\ pc'[w] = "idle" /\ want'[w] = {} /\ \A r \in Row : buf'[w][r] = Clean
        /\ \A v \in Worker : v # w =>
             pc'[v] = pc[v] /\ want'[v] = want[v] /\ buf'[v] = buf[v] /\ arg'[v] = arg[v]
    <3>1. CASE Commit(w)
      BY <3>1 DEF Commit, Publish, NoWrites, Leave
    <3>2. CASE Abort(w)
      BY <3>2 DEF Abort, Discard, NoWrites, Leave
    <3> QED BY <1>6, <3>1, <3>2
  <2> QED BY <1>1, <1>2, <2>1
<1>7. CASE StopPostgres
  BY <1>2, <1>7 DEF StopPostgres, NoWrites, Leave
<1>8. CASE UNCHANGED vars
  BY <1>1, <1>8 DEF vars
<1> QED BY <1>3, <1>4, <1>5, <1>6, <1>7, <1>8 DEF Next, Step

\* Choosing a primary image heals any marks, also with requests on the same
\* item at once: the last commit that held every image decides.
THEOREM PrimaryChoiceHealsAlways == Spec => PrimaryChoiceHeals
<1>1. Init => ChoiceInv
  <2> SUFFICES ASSUME Init, NEW w \in Worker PROVE ChoosingInv(w)
    BY InitType DEF ChoiceInv
  <2>1. pc[w] = "idle" /\ want[w] = {} /\ \A r \in Row : buf[w][r] = Clean
    BY DEF Init, PgInit, NoWrites
  <2> QED BY <2>1 DEF ChoosingInv
<1>2. ASSUME ChoiceInv, NEW w \in Worker, pc[w] = "marking", Commit(w),
             LiveRows \subseteq Held(w), arg[w] \in LiveRows
      PROVE  Primaries' = {arg[w]}
  <2>1. /\ want[w] = {} /\ TypeOK /\ ChoosingInv(w)
        /\ \A r \in Row : table'[r] = Seen(w, r)
    BY <1>2 DEF Commit, Publish, ChoiceInv
  <2>2. Primaries' = {r \in Row : Seen(w, r) = "primary"}
    BY <2>1 DEF Primaries
  <2>3. arg[w] \in Row /\ Seen(w, arg[w]) = "primary"
    BY <1>2, <2>1 DEF ChoosingInv, LiveRows, Held, Seen
  <2>4. ASSUME NEW r \in Row, r # arg[w] PROVE Seen(w, r) # "primary"
    BY <1>2, <2>1, <2>4 DEF ChoosingInv, LiveRows, Held, Seen, Status
  <2> QED BY <2>2, <2>3, <2>4
<1>3. ChoiceInv /\ [Next]_vars =>
        [\A w \in Worker :
            /\ pc[w] = "marking"
            /\ Commit(w)
            /\ LiveRows \subseteq Held(w)
            /\ arg[w] \in LiveRows
            => Primaries' = {arg[w]}]_vars
  BY <1>2
<1> QED BY <1>1, <1>3, NextChoice, PTL DEF Spec, PrimaryChoiceHeals

-----------------------------------------------------------------------------
(* The quiet gallery.                                                      *)

ChoosingKinds == {"replace_image", "set_primary_image"}

\* Requests come one at a time, or none of them adds or removes an image.
Quiet ==
    /\ ~StalePages
    /\ \/ \A v, w \in Worker : v = w
       \/ Kind \subseteq ChoosingKinds

\* Once w's image is removed: the item's next primary image.
Heir(w) == Lowest(LiveRows \ {arg[w]})

\* The rows the running statement of w is about.
Target(w) ==
    IF pc[w] \in {"deleting", "marking", "replacing"} THEN {arg[w]}
    ELSE IF pc[w] = "promoting" THEN Heir(w)
    ELSE IF pc[w] = "clearing" THEN LiveRows
    ELSE {}

Done(w) == Target(w) \ want[w]

\* What the transaction of w has made of row r so far.
Expected(w, r) ==
    IF pc[w] = "inserted" /\ r = nextId - 1 THEN NewStatus(flag[w])
    ELSE IF pc[w] = "promoting" /\ r = arg[w] THEN Absent
    ELSE IF r \in Done(w) THEN Written(pc[w], table[r])
    ELSE IF pc[w] = "marking" /\ r \in LiveRows THEN "other"
    ELSE Clean

WorkerInv(w) ==
    /\ want[w] \subseteq Target(w)
    /\ \A r \in Row : buf[w][r] = Expected(w, r)
    /\ pc[w] # "gone"
    /\ pc[w] \in {"insert", "inserted"} => flag[w] = (LiveRows # {})
    /\ pc[w] = "inserted" => nextId - 1 \in Row \ LiveRows
    /\ pc[w] \notin {"idle", "count", "insert", "inserted"} => arg[w] \in LiveRows
    /\ pc[w] \in {"delete", "deleting", "promoting"} =>
         flag[w] = (table[arg[w]] = "primary")
    /\ pc[w] = "promoting" => flag[w]
    /\ Kind \subseteq ChoosingKinds =>
         pc[w] \in {"idle", "clear", "clearing", "marking", "replace", "replacing"}

\* The inductive invariant: the transaction of each thread has written what
\* its statements so far make of the committed rows, and what the thread
\* remembers of the committed rows is still true.
IInv ==
    /\ LockInv
    /\ Promised!OnePrimary
    /\ \A w \in Worker : WorkerInv(w)

LEMMA InitQuiet == ASSUME Quiet PROVE Init => IInv
<1> SUFFICES ASSUME Init PROVE Promised!OnePrimary /\ \A w \in Worker : WorkerInv(w)
  BY InitLocks DEF IInv
<1> USE DEF Init, PgInit
<1>1. \A w \in Worker : WorkerInv(w)
  <2> TAKE w \in Worker
  <2>1. pc[w] = "idle" /\ want[w] = {}
    OBVIOUS
  <2>2. \A r \in Row : buf[w][r] = Clean
    BY DEF NoWrites
  <2> QED BY <2>1, <2>2 DEF WorkerInv, Expected, Done, Target
<1>2. Promised!OnePrimary
  <2>1. PICK p \in 0 .. Uploaded :
          /\ p = 0 <=> Uploaded = 0
          /\ table = [r \in Row |-> IF r > Uploaded THEN Absent
                                    ELSE IF r = p THEN "primary" ELSE "other"]
    OBVIOUS
  <2>2. \A r \in Row : table[r] = "primary" => r = p
    BY <2>1 DEF Status
  <2>3. CASE Uploaded = 0
    <3>1. \A r \in Row : r > Uploaded
      BY <2>3
    <3> QED BY <2>1, <2>2, <3>1
            DEF Promised!OnePrimary, Promised!Live, Promised!Marked
  <2>4. CASE Uploaded # 0
    <3>1. p \in Row /\ ~(p > Uploaded)
      BY <2>1, <2>4
    <3> QED BY <2>1, <2>2, <3>1
            DEF Promised!OnePrimary, Promised!Live, Promised!Marked
  <2> QED BY <2>3, <2>4
<1> QED BY <1>1, <1>2

\* What a thread knows survives a step that touches neither it nor the rows.
LEMMA Frame ==
  ASSUME NEW v \in Worker, WorkerInv(v), UNCHANGED table,
         buf'[v] = buf[v], want'[v] = want[v], pc'[v] = pc[v],
         arg'[v] = arg[v], flag'[v] = flag[v],
         nextId' = nextId \/ pc[v] # "inserted"
  PROVE  WorkerInv(v)'
  BY DEF WorkerInv, Expected, Done, Target, Heir, Lowest, LiveRows

LEMMA FrameOthers ==
  ASSUME IInv, NEW w \in Worker, UNCHANGED <<table, nextId>>,
         \A v \in Worker \ {w} :
            /\ buf'[v] = buf[v] /\ want'[v] = want[v] /\ pc'[v] = pc[v]
            /\ arg'[v] = arg[v] /\ flag'[v] = flag[v],
         WorkerInv(w)'
  PROVE  \A v \in Worker : WorkerInv(v)'
<1> TAKE v \in Worker
<1>1. CASE v = w
  BY <1>1
<1>2. CASE v # w
  BY <1>2, Frame DEF IInv
<1> QED BY <1>1, <1>2

LEMMA IdleInv ==
  ASSUME NEW w \in Worker, pc'[w] = "idle", want'[w] = {},
         \A r \in Row : buf'[w][r] = Clean
  PROVE  WorkerInv(w)'
  BY DEF WorkerInv, Expected, Done, Target

\* Under Quiet, a thread that adds or removes an image has the item alone.
LEMMA Alone ==
  ASSUME Quiet, IInv, NEW w \in Worker,
         pc[w] \notin {"idle", "clear", "clearing", "marking", "replace", "replacing"}
  PROVE  \A v \in Worker : v = w
  BY DEF Quiet, IInv, WorkerInv

\* A thread sees the committed rows but for what it has written.
LEMMA SeenRow ==
  ASSUME IInv, NEW w \in Worker, NEW r \in Row
  PROVE  Seen(w, r) = IF Expected(w, r) = Clean THEN table[r] ELSE Expected(w, r)
  BY DEF IInv, WorkerInv, Seen

LEMMA SeenBefore ==
  ASSUME IInv, NEW w \in Worker,
         pc[w] \in {"idle", "count", "insert", "read", "delete", "clear", "replace"}
  PROVE  /\ \A r \in Row : buf[w][r] = Clean /\ Seen(w, r) = table[r]
         /\ SeenRows(w) = LiveRows
         /\ want[w] = {}
<1>1. want[w] = {} /\ \A r \in Row : Expected(w, r) = Clean
  BY DEF IInv, WorkerInv, Expected, Done, Target
<1>2. \A r \in Row : buf[w][r] = Clean /\ Seen(w, r) = table[r]
  BY <1>1 DEF IInv, WorkerInv, Seen
<1> QED BY <1>1, <1>2 DEF SeenRows, LiveRows

\* Starting a statement of the form keeps the invariant of its thread.
LEMMA NextStart ==
  ASSUME Quiet, IInv, NEW w \in Worker,
         \/ AddImage(w) \/ PickImage(w) \/ CountImages(w) \/ ReadPrimary(w)
         \/ DeleteImage(w) \/ PromoteImage(w) \/ ClearPrimaries(w)
         \/ MarkPrimary(w) \/ ReplaceImage(w)
  PROVE  WorkerInv(w)'
<1> USE DEF IInv, LockInv, TypeOK, PgTypeOK, pgVars
<1> WorkerInv(w)
  OBVIOUS
<1>1. CASE AddImage(w)
  BY <1>1, SeenBefore
     DEF AddImage, WorkerInv, Expected, Done, Target, ChoosingKinds, LiveRows
<1>2. CASE PickImage(w)
  <2>1. PICK k \in Kind \ {"add_image"}, r \in LiveRows :
          /\ pc' = [pc EXCEPT ![w] = FirstStatement[k]]
          /\ arg' = [arg EXCEPT ![w] = r]
    BY <1>2 DEF PickImage, Offered, Quiet
  <2>2. FirstStatement[k] \in {"read", "replace", "clear"}
    BY DEF FirstStatement, Actions
  <2>3. Kind \subseteq ChoosingKinds => FirstStatement[k] \in {"replace", "clear"}
    BY DEF FirstStatement, ChoosingKinds
  <2> QED BY <1>2, <2>1, <2>2, <2>3, SeenBefore
             DEF PickImage, WorkerInv, Expected, Done, Target, LiveRows
<1>3. CASE CountImages(w)
  BY <1>3, SeenBefore
     DEF CountImages, WorkerInv, Expected, Done, Target, LiveRows
<1>4. CASE ReadPrimary(w)
  <2>1. arg[w] \in LiveRows
    BY <1>4 DEF ReadPrimary, WorkerInv
  <2>2. /\ pc'[w] = "delete"
        /\ flag'[w] = (table[arg[w]] = "primary")
    <3>1. arg[w] \in SeenRows(w) /\ Seen(w, arg[w]) = table[arg[w]]
      BY <1>4, <2>1, SeenBefore DEF ReadPrimary, LiveRows
    <3> QED BY <1>4, <3>1 DEF ReadPrimary
  <2> QED BY <1>4, <2>1, <2>2, SeenBefore
             DEF ReadPrimary, WorkerInv, Expected, Done, Target, LiveRows, ChoosingKinds
<1>5. CASE DeleteImage(w)
  BY <1>5, SeenBefore DEF DeleteImage, StartStatement, ArgRow, WorkerInv, Expected,
     Done, Target, LiveRows
<1>6. CASE ClearPrimaries(w)
  BY <1>6, SeenBefore DEF ClearPrimaries, StartStatement, WorkerInv, Expected,
     Done, Target, LiveRows
<1>7. CASE ReplaceImage(w)
  BY <1>7, SeenBefore DEF ReplaceImage, StartStatement, ArgRow, WorkerInv, Expected,
     Done, Target, LiveRows
<1>8. CASE PromoteImage(w)
  <2>1. pc[w] = "deleting" /\ want[w] = {} /\ flag[w]
    BY <1>8 DEF PromoteImage, StartStatement
  <2>2. \A r \in Row : Expected(w, r) = IF r = arg[w] THEN Absent ELSE Clean
    BY <2>1 DEF Expected, Done, Target, Written
  <2>3. SeenRows(w) = LiveRows \ {arg[w]}
    BY <2>2, SeenRow DEF SeenRows, LiveRows
  <2>4. /\ pc'[w] = "promoting" /\ want'[w] = Heir(w)
        /\ arg'[w] = arg[w] /\ flag'[w] = flag[w]
        /\ UNCHANGED <<table, buf, nextId>>
    BY <1>8, <2>3 DEF PromoteImage, StartStatement, Heir
  <2>5. Target(w)' = Heir(w) /\ Done(w)' = {}
    BY <2>4 DEF Target, Done, Heir, Lowest, LiveRows
  <2>6. \A r \in Row : Expected(w, r)' = Expected(w, r)
    BY <2>2, <2>4, <2>5 DEF Expected
  <2>7. /\ want'[w] \subseteq Target(w)'
        /\ \A r \in Row : buf'[w][r] = Expected(w, r)'
    BY <2>4, <2>5, <2>6 DEF WorkerInv
  <2>8. /\ arg[w] \in LiveRows /\ LiveRows' = LiveRows
        /\ flag[w] = (table[arg[w]] = "primary")
        /\ ~(Kind \subseteq ChoosingKinds)
    BY <2>1, <2>4 DEF WorkerInv, LiveRows
  <2> QED BY <2>1, <2>4, <2>7, <2>8 DEF WorkerInv
<1>9. CASE MarkPrimary(w)
  <2>1. pc[w] = "clearing" /\ want[w] = {}
    BY <1>9 DEF MarkPrimary, StartStatement
  <2>2. \A r \in Row : Expected(w, r) = IF r \in LiveRows THEN "other" ELSE Clean
    BY <2>1 DEF Expected, Done, Target, Written
  <2>3. ArgRow(w) = {arg[w]}
    <3>1. arg[w] \in LiveRows
      BY <2>1 DEF WorkerInv
    <3>2. Seen(w, arg[w]) # Absent
      BY <2>2, <3>1, SeenRow DEF LiveRows, Status
    <3> QED BY <3>1, <3>2 DEF ArgRow, SeenRows, LiveRows
  <2> QED BY <1>9, <2>1, <2>2, <2>3 DEF MarkPrimary, StartStatement, WorkerInv,
             Expected, Done, Target, LiveRows
<1> QED BY <1>1, <1>2, <1>3, <1>4, <1>5, <1>6, <1>7, <1>8, <1>9

\* So does reaching a row.
LEMMA NextLock ==
  ASSUME Quiet, IInv, NEW w \in Worker, LockRow(w)
  PROVE  WorkerInv(w)'
<1> USE DEF IInv, LockInv, TypeOK, PgTypeOK
<1> WorkerInv(w)
  OBVIOUS
<1>1. PICK r \in want[w] :
        /\ want' = [want EXCEPT ![w] = @ \ {r}]
        /\ IF Seen(w, r) = Absent
           THEN UNCHANGED buf
           ELSE Put(w, r, Written(pc[w], Seen(w, r)))
  BY DEF LockRow
<1>2. /\ pc[w] \in {"deleting", "promoting", "clearing", "marking", "replacing"}
      /\ r \in LiveRows /\ r \in Row /\ r \in Target(w)
      /\ pc[w] = "promoting" => r # arg[w]
      /\ pc[w] \notin {"idle", "count", "insert", "inserted"}
  BY <1>1 DEF WorkerInv, Target, Heir, Lowest, LiveRows
<1>3. Expected(w, r) = IF pc[w] = "marking" THEN "other" ELSE Clean
  BY <1>1, <1>2 DEF Expected, Done
<1>4. Seen(w, r) = IF pc[w] = "marking" THEN "other" ELSE table[r]
  BY <1>2, <1>3, SeenRow DEF Status
<1>5. Seen(w, r) # Absent /\ Written(pc[w], Seen(w, r)) = Written(pc[w], table[r])
  BY <1>2, <1>4 DEF Written, LiveRows, Status
<1>6. UNCHANGED <<table, nextId>> /\ pc'[w] = pc[w] /\ arg'[w] = arg[w] /\ flag'[w] = flag[w]
  BY DEF LockRow
<1>7. \A s \in Row : buf'[w][s] = IF s = r THEN Written(pc[w], table[r]) ELSE buf[w][s]
  BY <1>1, <1>2, <1>5 DEF Put
<1>8. /\ LiveRows' = LiveRows /\ Target(w)' = Target(w)
      /\ want'[w] = want[w] \ {r} /\ Done(w)' = Done(w) \cup {r}
  <2>1. LiveRows' = LiveRows /\ Heir(w)' = Heir(w)
    BY <1>6 DEF LiveRows, Heir, Lowest
  <2>2. Target(w)' = Target(w)
    BY <1>6, <2>1 DEF Target
  <2>3. want'[w] = want[w] \ {r}
    BY <1>1
  <2> QED BY <1>2, <2>1, <2>2, <2>3 DEF Done
<1>9. \A s \in Row : Expected(w, s)' = IF s = r THEN Written(pc[w], table[r])
                                       ELSE Expected(w, s)
  BY <1>2, <1>6, <1>8 DEF Expected
<1>10. /\ want'[w] \subseteq Target(w)'
       /\ \A s \in Row : buf'[w][s] = Expected(w, s)'
  <2>1. /\ want[w] \subseteq Target(w)
        /\ \A s \in Row : buf[w][s] = Expected(w, s)
    BY DEF WorkerInv
  <2> QED BY <1>7, <1>8, <1>9, <2>1
<1> QED BY <1>2, <1>6, <1>8, <1>10 DEF WorkerInv

\* A commit publishes what its handler, run alone, would do to the item.
LEMMA CommitEffect ==
  ASSUME IInv, NEW w \in Worker, Commit(w)
  PROVE  /\ [Promised!Next]_table
         /\ \A r \in Row : Expected(w, r) = Clean => table'[r] = table[r]
<1> USE DEF IInv, LockInv, TypeOK, PgTypeOK
<1> WorkerInv(w)
  OBVIOUS
<1>1. /\ table' = [r \in Row |-> Seen(w, r)]
      /\ want[w] = {} /\ LastStatement(w)
  BY DEF Commit, Publish
<1>2. \A r \in Row : table'[r] = IF Expected(w, r) = Clean THEN table[r]
                                 ELSE Expected(w, r)
  BY <1>1, SeenRow
<1>3. Done(w) = Target(w)
  BY <1>1 DEF Done
<1>4. pc[w] \in {"inserted", "deleting", "promoting", "marking", "replacing"}
  BY <1>1 DEF LastStatement, WorkerInv
<1> USE DEF Promised!Next, Promised!Live, LiveRows
<1>5. CASE pc[w] = "inserted"
  <2>1. nextId - 1 \in Row /\ nextId - 1 \notin LiveRows /\ flag[w] = (LiveRows # {})
    BY <1>5 DEF WorkerInv
  <2>2. \A r \in Row : Expected(w, r) = IF r = nextId - 1 THEN NewStatus(flag[w])
                                        ELSE Clean
    BY <1>3, <1>5 DEF Expected, Target
  <2>3. table' = [table EXCEPT ![nextId - 1] = NewStatus(flag[w])]
    BY <1>1, <1>2, <2>1, <2>2 DEF NewStatus, Status
  <2>4. Promised!Upload(nextId - 1)
    BY <2>1, <2>3 DEF Promised!Upload, NewStatus
  <2> QED BY <1>2, <2>1, <2>4
<1>6. CASE pc[w] = "deleting"
  <2>1. arg[w] \in LiveRows /\ table[arg[w]] # "primary"
    BY <1>1, <1>6 DEF WorkerInv, LastStatement
  <2>2. \A r \in Row : Expected(w, r) = IF r = arg[w] THEN Absent ELSE Clean
    BY <1>3, <1>6 DEF Expected, Target, Written
  <2>3. table' = [r \in Row |-> IF r = arg[w] THEN Absent ELSE table[r]]
    BY <1>1, <1>2, <2>2
  <2>4. Promised!Remove(arg[w])
    BY <2>1, <2>3 DEF Promised!Remove, Promised!Marked
  <2> QED BY <1>2, <2>1, <2>4
<1>7. CASE pc[w] = "promoting"
  <2>1. arg[w] \in LiveRows /\ table[arg[w]] = "primary"
    BY <1>7 DEF WorkerInv
  <2>2. \A r \in Row : Expected(w, r) = IF r = arg[w] THEN Absent
                                        ELSE IF r \in Heir(w) THEN "primary"
                                        ELSE Clean
    BY <1>3, <1>7 DEF Expected, Target, Written
  <2>3. table' = [r \in Row |-> IF r = arg[w] THEN Absent
                                ELSE IF r \in Heir(w) THEN "primary" ELSE table[r]]
    BY <1>1, <1>2, <2>2 DEF Status
  <2>4. Promised!Remove(arg[w])
    BY <2>1, <2>3 DEF Promised!Remove, Promised!Marked, Heir, Lowest
  <2> QED BY <1>2, <2>1, <2>4
<1>8. CASE pc[w] = "marking"
  <2>1. arg[w] \in LiveRows
    BY <1>8 DEF WorkerInv
  <2>2. \A r \in Row : Expected(w, r) = IF r = arg[w] THEN "primary"
                                        ELSE IF r \in LiveRows THEN "other"
                                        ELSE Clean
    BY <1>3, <1>8 DEF Expected, Target, Written
  <2>3. table' = [r \in Row |-> IF r = arg[w] THEN "primary"
                                ELSE IF r \in LiveRows THEN "other" ELSE Absent]
    BY <1>1, <1>2, <2>2 DEF Status
  <2>4. Promised!Choose(arg[w])
    BY <2>1, <2>3 DEF Promised!Choose
  <2> QED BY <1>2, <2>1, <2>4
<1>9. CASE pc[w] = "replacing"
  <2>1. \A r \in Row : Expected(w, r) \in {table[r], Clean}
    BY <1>3, <1>9 DEF Expected, Target, Written
  <2>2. table' = table
    BY <1>1, <1>2, <2>1
  <2> QED BY <1>2, <2>2
<1> QED BY <1>4, <1>5, <1>6, <1>7, <1>8, <1>9

\* A minimum exists: what removal promotes is there when an image is left.
LEMMA LowestExists ==
  ASSUME NEW S \in SUBSET Row, S # {}
  PROVE  \E r \in S : \A s \in S : r <= s
<1> DEFINE R == OpToRel(<, Nat)
<1>1. S \subseteq Nat
  OBVIOUS
<1>2. IsWellFoundedOn(R, Nat)
  BY NatLessThanWellFounded
<1>3. \A r, s \in Nat : s < r => <<s, r>> \in R
  BY Zenon DEF OpToRel
<1> HIDE DEF R
<1>4. PICK r \in S : \A s \in S : ~(<<s, r>> \in R)
  BY <1>1, <1>2, WFMin
<1>5. \A s \in S : ~(s < r)
  BY <1>1, <1>3, <1>4
<1> QED BY <1>1, <1>5

\* The gallery keeps its promise.
LEMMA GalleryStep ==
  ASSUME Promised!OnePrimary, Promised!GalleryTypeOK, [Promised!Next]_table
  PROVE  Promised!OnePrimary'
<1> USE DEF Promised!OnePrimary, Promised!GalleryTypeOK, Promised!Live, Promised!Marked
<1>1. ASSUME NEW r \in Row, Promised!Upload(r) PROVE Promised!OnePrimary'
  BY <1>1 DEF Promised!Upload, Status
<1>2. ASSUME NEW r \in Row, Promised!Choose(r) PROVE Promised!OnePrimary'
  BY <1>2 DEF Promised!Choose, Status
<1>3. ASSUME NEW r \in Row, Promised!Remove(r) PROVE Promised!OnePrimary'
  <2> DEFINE left == Promised!Live \ {r}
             oldest == {s \in left : \A t \in left : s <= t}
  <2>1. \A s \in Row : table'[s] = IF s = r THEN Absent
                                   ELSE IF r \in Promised!Marked /\ s \in oldest
                                        THEN "primary" ELSE table[s]
    BY <1>3 DEF Promised!Remove
  <2>2. left # {} => oldest # {}
    BY LowestExists
  <2>3. \A s, t \in oldest : s = t
    BY DEF Status
  <2>4. oldest \subseteq left
    OBVIOUS
  <2>5. CASE r \in Promised!Marked
    <3>1. Promised!Live' = left
      BY <2>1 DEF Status
    <3>2. \A s \in left : table[s] # "primary"
      BY <2>5
    <3>3. Promised!Marked' = oldest
      <4> HIDE DEF oldest
      <4>1. \A s \in Row : table'[s] = "primary" <=> s \in oldest
        BY <2>1, <2>4, <2>5, <3>2 DEF Status
      <4>2. oldest \subseteq Row
        BY <2>4
      <4> QED BY <4>1, <4>2
    <3> QED BY <2>2, <2>3, <3>1, <3>3
  <2>6. CASE r \notin Promised!Marked
    BY <2>1, <2>6 DEF Status
  <2> QED BY <2>5, <2>6
<1>4. CASE UNCHANGED table
  BY <1>4
<1> QED BY <1>1, <1>2, <1>3, <1>4 DEF Promised!Next

LEMMA NextQuiet == ASSUME Quiet PROVE IInv /\ [Next]_vars => IInv'
<1> SUFFICES ASSUME IInv, [Next]_vars
             PROVE  Promised!OnePrimary' /\ \A w \in Worker : WorkerInv(w)'
  BY NextLocks DEF IInv
<1> USE DEF LockInv, TypeOK, PgTypeOK, pgVars
<1>1. ASSUME UNCHANGED table PROVE Promised!OnePrimary'
  BY <1>1 DEF IInv, Promised!OnePrimary, Promised!Live, Promised!Marked
<1>2. ASSUME NEW w \in Worker,
             \/ AddImage(w) \/ PickImage(w) \/ CountImages(w) \/ ReadPrimary(w)
             \/ DeleteImage(w) \/ PromoteImage(w) \/ ClearPrimaries(w)
             \/ MarkPrimary(w) \/ ReplaceImage(w)
      PROVE  Promised!OnePrimary' /\ \A v \in Worker : WorkerInv(v)'
  <2>1. /\ UNCHANGED <<table, nextId>>
        /\ \A v \in Worker \ {w} :
              /\ buf'[v] = buf[v] /\ want'[v] = want[v] /\ pc'[v] = pc[v]
              /\ arg'[v] = arg[v] /\ flag'[v] = flag[v]
    BY <1>2 DEF IInv, AddImage, PickImage, CountImages, ReadPrimary, DeleteImage,
       PromoteImage, ClearPrimaries, MarkPrimary, ReplaceImage, StartStatement
  <2>2. WorkerInv(w)'
    BY <1>2, NextStart
  <2> QED BY <1>1, <2>1, <2>2, FrameOthers
<1>3. ASSUME NEW w \in Worker, LockRow(w)
      PROVE  Promised!OnePrimary' /\ \A v \in Worker : WorkerInv(v)'
  <2>1. /\ UNCHANGED <<table, nextId>>
        /\ \A v \in Worker \ {w} :
              /\ buf'[v] = buf[v] /\ want'[v] = want[v] /\ pc'[v] = pc[v]
              /\ arg'[v] = arg[v] /\ flag'[v] = flag[v]
    BY <1>3 DEF IInv, LockRow, Put
  <2> QED BY <1>1, <1>3, <2>1, NextLock, FrameOthers
<1>4. ASSUME NEW w \in Worker, Abort(w)
      PROVE  Promised!OnePrimary' /\ \A v \in Worker : WorkerInv(v)'
  <2>1. /\ UNCHANGED <<table, nextId>>
        /\ \A v \in Worker \ {w} :
              /\ buf'[v] = buf[v] /\ want'[v] = want[v] /\ pc'[v] = pc[v]
              /\ arg'[v] = arg[v] /\ flag'[v] = flag[v]
    BY <1>4 DEF IInv, Abort, Discard, Leave
  <2>2. WorkerInv(w)'
    BY <1>4, IdleInv DEF IInv, Abort, Discard, NoWrites, Leave
  <2> QED BY <1>1, <2>1, <2>2, FrameOthers
<1>5. ASSUME StopPostgres
      PROVE  Promised!OnePrimary' /\ \A v \in Worker : WorkerInv(v)'
  BY <1>1, <1>5, IdleInv DEF IInv, StopPostgres, NoWrites, Leave
<1>6. ASSUME NEW w \in Worker, InsertImage(w)
      PROVE  Promised!OnePrimary' /\ \A v \in Worker : WorkerInv(v)'
  <2>1. /\ UNCHANGED table /\ pc[w] = "insert" /\ pc'[w] = "inserted"
        /\ nextId' = nextId + 1 /\ nextId \in Row
        /\ flag'[w] = flag[w] /\ want'[w] = {}
        /\ flag[w] = (LiveRows # {})
    BY <1>6, SeenBefore DEF IInv, InsertImage, WorkerInv
  <2>2. \A v \in Worker : v = w
    BY <2>1, Alone
  <2>3. nextId \notin LiveRows
    BY <2>1 DEF IInv, Fresh, LiveRows
  <2>4. \A r \in Row : buf'[w][r] = IF r = nextId THEN NewStatus(flag[w]) ELSE Clean
    BY <1>6, <2>1, SeenBefore DEF IInv, InsertImage, Put
  <2>5. \A r \in Row : Expected(w, r)' = IF r = nextId THEN NewStatus(flag[w]) ELSE Clean
    BY <2>1 DEF Expected, Done, Target
  <2>6. ~(Kind \subseteq ChoosingKinds) /\ LiveRows' = LiveRows
    BY <2>1 DEF IInv, WorkerInv, LiveRows
  <2>7. WorkerInv(w)'
    <3>1. nextId' - 1 = nextId /\ Target(w)' = {}
      BY <2>1 DEF Target
    <3>2. /\ want'[w] \subseteq Target(w)'
          /\ \A r \in Row : buf'[w][r] = Expected(w, r)'
      BY <2>1, <2>4, <2>5, <3>1
    <3> QED BY <2>1, <2>3, <2>6, <3>1, <3>2 DEF WorkerInv
  <2> QED BY <1>1, <2>1, <2>2, <2>7
<1>7. ASSUME NEW w \in Worker, Commit(w)
      PROVE  Promised!OnePrimary' /\ \A v \in Worker : WorkerInv(v)'
  <2>1. Promised!OnePrimary'
    BY <1>7, CommitEffect, GalleryStep DEF IInv, Promised!GalleryTypeOK, Status
  <2>2. WorkerInv(w)'
    BY <1>7, IdleInv, SeenBefore DEF IInv, Commit, Publish, NoWrites, Leave
  <2>3. ASSUME NEW v \in Worker \ {w} PROVE WorkerInv(v)'
    <3>1. pc[v] \in {"idle", "clear", "clearing", "marking", "replace", "replacing"}
          /\ pc[w] \in {"idle", "clear", "clearing", "marking", "replace", "replacing"}
      BY <2>3, Alone
    <3>2. /\ buf'[v] = buf[v] /\ want'[v] = want[v] /\ pc'[v] = pc[v]
          /\ arg'[v] = arg[v] /\ flag'[v] = flag[v] /\ nextId' = nextId
      BY <1>7 DEF IInv, Commit, Publish, Leave
    <3>3. LiveRows' = LiveRows
      <4>1. \A r \in Row : table'[r] = Seen(w, r)
        BY <1>7 DEF Commit, Publish
      <4>2. \A r \in Row : Seen(w, r) = Absent <=> table[r] = Absent
        BY <3>1, SeenRow DEF Expected, Done, Target, Written, LiveRows, IInv, WorkerInv, Status
      <4> QED BY <4>1, <4>2 DEF LiveRows
    <3>4. \A r \in Row : Expected(v, r)' = Expected(v, r)
      <4>1. TAKE r \in Row
      <4>2. CASE pc[v] = "replacing" /\ r \in Done(v)
        <5>1. buf[v][r] # Clean
          BY <4>2 DEF IInv, WorkerInv, Expected, Written, Target, Done, LiveRows, Status
        <5>2. buf[w][r] = Clean
          BY <5>1 DEF IInv, Exclusive
        <5>3. table'[r] = table[r]
          BY <1>7, <5>2, CommitEffect DEF IInv, WorkerInv
        <5> QED BY <3>1, <3>2, <3>3, <4>2, <5>3 DEF Expected, Done, Target, Written
      <4>3. CASE ~(pc[v] = "replacing" /\ r \in Done(v))
        BY <3>1, <3>2, <3>3, <4>3 DEF Expected, Done, Target, Written
      <4> QED BY <4>2, <4>3
    <3>5. Target(v)' = Target(v)
      BY <3>1, <3>2, <3>3 DEF Target
    <3> QED BY <3>1, <3>2, <3>3, <3>4, <3>5 DEF IInv, WorkerInv
  <2> QED BY <2>1, <2>2, <2>3
<1>8. CASE UNCHANGED vars
  BY <1>1, <1>8, Frame DEF IInv, vars
<1> QED BY <1>2, <1>3, <1>4, <1>5, <1>6, <1>7, <1>8 DEF Next, Step

\* In a quiet gallery the statement-by-statement handlers implement Gallery:
\* every step is an upload, a removal with its promotion or a choice of the
\* primary image, in one piece, or leaves the committed rows alone.
THEOREM QuietImplementsGallery ==
  ASSUME Quiet PROVE Spec => ImplementsGallery
<1>1. Init => Promised!Init
  BY InitQuiet DEF IInv, LockInv, TypeOK, PgTypeOK, Promised!Init, Promised!GalleryTypeOK,
     Status
<1>2. IInv /\ [Next]_vars => [Promised!Next]_table
  <2> SUFFICES ASSUME IInv, [Next]_vars PROVE [Promised!Next]_table
    OBVIOUS
  <2>1. ASSUME NEW w \in Worker, Commit(w) PROVE [Promised!Next]_table
    BY <2>1, CommitEffect
  <2>2. ASSUME NEW w \in Worker,
               \/ AddImage(w) \/ PickImage(w) \/ CountImages(w) \/ InsertImage(w)
               \/ ReadPrimary(w) \/ DeleteImage(w) \/ PromoteImage(w)
               \/ ClearPrimaries(w) \/ MarkPrimary(w) \/ ReplaceImage(w)
               \/ LockRow(w) \/ Abort(w)
        PROVE  UNCHANGED table
    BY <2>2 DEF AddImage, PickImage, CountImages, InsertImage, ReadPrimary, DeleteImage,
       PromoteImage, ClearPrimaries, MarkPrimary, ReplaceImage, StartStatement, LockRow,
       Abort, Discard, pgVars
  <2>3. ASSUME StopPostgres \/ UNCHANGED vars PROVE UNCHANGED table
    BY <2>3 DEF StopPostgres, vars, pgVars
  <2> QED BY <2>1, <2>2, <2>3 DEF Next, Step
<1>3. Init => IInv
  BY InitQuiet
<1>4. IInv /\ [Next]_vars => IInv'
  BY NextQuiet
<1> QED BY <1>1, <1>2, <1>3, <1>4, PTL DEF Spec, ImplementsGallery, Promised!Spec

LEMMA QuietOnePrimary ==
  ASSUME Quiet PROVE Spec => []Promised!OnePrimary
<1>1. Init => IInv
  BY InitQuiet
<1>2. IInv /\ [Next]_vars => IInv'
  BY NextQuiet
<1>3. IInv => Promised!OnePrimary
  BY DEF IInv
<1> QED BY <1>1, <1>2, <1>3, PTL DEF Spec

\* In a quiet gallery an item never shows two primary images.
THEOREM QuietAtMostOnePrimary ==
  ASSUME Quiet PROVE Spec => []AtMostOnePrimary
<1>1. Promised!OnePrimary => AtMostOnePrimary
  BY DEF AtMostOnePrimary, Primaries, Promised!OnePrimary, Promised!Marked
<1> QED BY <1>1, QuietOnePrimary, PTL

\* In a quiet gallery an item that has images shows a primary one.
THEOREM QuietSomePrimary ==
  ASSUME Quiet PROVE Spec => []SomePrimary
<1>1. Promised!OnePrimary => SomePrimary
  BY DEF SomePrimary, Primaries, LiveRows, Promised!OnePrimary, Promised!Live, Promised!Marked
<1> QED BY <1>1, QuietOnePrimary, PTL
=============================================================================
