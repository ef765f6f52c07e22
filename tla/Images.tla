------------------------------- MODULE Images -------------------------------
(***************************************************************************)
(* The gallery of one item: the items_images rows behind                   *)
(* /item/<id>/specs (edit_specs in app.py), one action per SQL statement   *)
(* of the image handlers, run by several request threads at once.          *)
(*                                                                         *)
(* The rows are those of a single item: every statement of these handlers  *)
(* is restricted to the item of the URL.  A row is reduced to is_primary;  *)
(* file name, type and bytes are never read by a handler that writes, so   *)
(* replace_image is a write that keeps the row.                            *)
(***************************************************************************)
EXTENDS PgTable, FiniteSets

CONSTANTS
    Kind,           \* the actions of the form that are submitted
    Uploaded,       \* how many images the item has at the start
    StalePages      \* may a page that shows a removed image still be used?

Status == {"primary", "other"}

Actions == {"add_image", "remove_image", "replace_image", "set_primary_image"}

ASSUME ImagesAssumption ==
    /\ Kind \subseteq Actions
    /\ Row \subseteq Nat \ {0}
    /\ Uploaded \in Nat
    /\ 1 .. Uploaded \subseteq Row
    /\ StalePages \in BOOLEAN
    /\ Absent \notin Status
    /\ Clean \notin Status

VARIABLES
    pc,         \* the statement each thread runs next ("delete"), or is
                \* running ("deleting"), in its transaction
    arg,        \* image_id of the submitted form, 0 when there is none
    flag,       \* has_images of add_image, was_primary of remove_image
    nextId,     \* the sequence behind items_images.id
    shown       \* the ids some page of the item has shown

vars == <<pgVars, pc, arg, flag, nextId, shown>>

-----------------------------------------------------------------------------
\* An item as new_item and single uploads leave it: images 1 .. Uploaded,
\* one of them the primary one.
Init ==
    /\ \E p \in 0 .. Uploaded :
        /\ p = 0 <=> Uploaded = 0
        /\ PgInit([r \in Row |-> IF r > Uploaded THEN Absent
                                 ELSE IF r = p THEN "primary" ELSE "other"])
    /\ pc = [w \in Worker |-> "idle"]
    /\ arg = [w \in Worker |-> 0]
    /\ flag = [w \in Worker |-> FALSE]
    /\ nextId = Uploaded + 1
    /\ shown = 1 .. Uploaded

\* The image ids a submitted form can carry.
Offered == IF StalePages THEN shown ELSE LiveRows

FirstStatement == [remove_image |-> "read", replace_image |-> "replace",
                   set_primary_image |-> "clear"]

\* Bound: an upload starts only while Row has ids for it and for the uploads
\* under way.
RoomToAdd ==
    nextId + Cardinality({v \in Worker : pc[v] \in {"count", "insert"}}) \in Row

AddImage(w) ==
    /\ "add_image" \in Kind
    /\ pc[w] = "idle"
    /\ RoomToAdd
    /\ pc' = [pc EXCEPT ![w] = "count"]
    /\ UNCHANGED <<pgVars, arg, flag, nextId, shown>>

\* The other three forms name an image of the page they were sent from.
PickImage(w) ==
    /\ pc[w] = "idle"
    /\ \E k \in Kind \ {"add_image"}, r \in Offered :
        /\ pc' = [pc EXCEPT ![w] = FirstStatement[k]]
        /\ arg' = [arg EXCEPT ![w] = r]
    /\ UNCHANGED <<pgVars, flag, nextId, shown>>

-----------------------------------------------------------------------------
(* add_image: count the images, then insert with is_primary = not has_images. *)

CountImages(w) ==
    /\ pc[w] = "count"
    /\ flag' = [flag EXCEPT ![w] = SeenRows(w) # {}]
    /\ pc' = [pc EXCEPT ![w] = "insert"]
    /\ UNCHANGED <<pgVars, arg, nextId, shown>>

\* Mutants: the guess whether there are images is ignored; is_primary left null.
NewStatusAlways(hasImages) == "primary"
NewStatusNull(hasImages) == IF hasImages THEN "null" ELSE "primary"

NewStatus(hasImages) == IF hasImages THEN "other" ELSE "primary"

InsertImage(w) ==
    /\ pc[w] = "insert"
    /\ nextId \in Row
    /\ Put(w, nextId, NewStatus(flag[w]))
    /\ nextId' = nextId + 1
    /\ pc' = [pc EXCEPT ![w] = "inserted"]
    /\ UNCHANGED <<table, want, arg, flag, shown>>

-----------------------------------------------------------------------------
(* remove_image: read is_primary, delete, and promote the lowest remaining *)
(* id if the deleted row was read as primary.                              *)

ReadPrimary(w) ==
    /\ pc[w] = "read"
    /\ flag' = [flag EXCEPT ![w] = Seen(w, arg[w]) = "primary"]
    /\ pc' = [pc EXCEPT ![w] = IF arg[w] \in SeenRows(w) THEN "delete" ELSE "gone"]
    /\ UNCHANGED <<pgVars, arg, nextId, shown>>

\* A thread that has finished statement `from` starts the statement `to` on
\* the given rows.
StartStatement(w, from, to, rows) ==
    /\ pc[w] = from
    /\ want[w] = {}
    /\ pc' = [pc EXCEPT ![w] = to]
    /\ want' = [want EXCEPT ![w] = rows]
    /\ UNCHANGED <<table, buf, arg, flag, nextId, shown>>

\* WHERE id = image_id AND item_id = item_id
ArgRow(w) == {arg[w]} \cap SeenRows(w)

DeleteImage(w) == StartStatement(w, "delete", "deleting", ArgRow(w))

\* Mutant: ORDER BY id DESC LIMIT 1
LowestDesc(S) == {r \in S : \A s \in S : r >= s}

\* ORDER BY id LIMIT 1
Lowest(S) == {r \in S : \A s \in S : r <= s}

PromoteImage(w) ==
    /\ flag[w]
    /\ StartStatement(w, "deleting", "promoting", Lowest(SeenRows(w)))

-----------------------------------------------------------------------------
(* set_primary_image clears is_primary on every row of the item, then sets *)
(* it on the chosen one; replace_image rewrites one row.                   *)

ClearPrimaries(w) == StartStatement(w, "clear", "clearing", SeenRows(w))

MarkPrimary(w) == StartStatement(w, "clearing", "marking", ArgRow(w))

ReplaceImage(w) == StartStatement(w, "replace", "replacing", ArgRow(w))

\* Mutant: the other marks are not cleared.
WrittenNoClear(stage, x) ==
    CASE stage = "deleting" -> Absent
      [] stage \in {"promoting", "marking"} -> "primary"
      [] OTHER -> x

\* What a running statement makes of a row that had status x.
Written(stage, x) ==
    CASE stage = "deleting" -> Absent
      [] stage = "clearing" -> "other"
      [] stage \in {"promoting", "marking"} -> "primary"
      [] OTHER -> x

\* A running statement reaches one of its rows.
LockRow(w) ==
    /\ \E r \in want[w] :
        /\ Free(w, r)
        /\ want' = [want EXCEPT ![w] = @ \ {r}]
        /\ IF Seen(w, r) = Absent
           THEN UNCHANGED buf
           ELSE Put(w, r, Written(pc[w], Seen(w, r)))
    /\ UNCHANGED <<table, pc, arg, flag, nextId, shown>>

-----------------------------------------------------------------------------
(* Every handler ends with conn.commit(), or with an error before it.      *)

\* Mutants: remove_image never promotes another image; it leaves the
\* transaction open when the image is gone.
LastStatementNoPromotion(w) ==
    pc[w] \in {"inserted", "gone", "deleting", "promoting", "marking", "replacing"}

LastStatementKeepsOpen(w) ==
    \/ pc[w] \in {"inserted", "promoting", "marking", "replacing"}
    \/ pc[w] = "deleting" /\ ~flag[w]

LastStatement(w) ==
    \/ pc[w] \in {"inserted", "gone", "promoting", "marking", "replacing"}
    \/ pc[w] = "deleting" /\ ~flag[w]

Leave(W) ==
    /\ pc' = [w \in Worker |-> IF w \in W THEN "idle" ELSE pc[w]]
    /\ arg' = [w \in Worker |-> IF w \in W THEN 0 ELSE arg[w]]
    /\ flag' = [w \in Worker |-> IF w \in W THEN FALSE ELSE flag[w]]
    /\ UNCHANGED nextId

Commit(w) ==
    /\ LastStatement(w)
    /\ want[w] = {}
    /\ Publish(w)
    /\ Leave({w})
    /\ shown' = shown \cup SeenRows(w)

\* A deadlock victim: psycopg2 raises, the handler fails before its commit.
Abort(w) ==
    /\ Deadlocked(w)
    /\ Discard(w)
    /\ Leave({w})
    /\ UNCHANGED shown

\* The window is closed: pg_ctl stop -m fast rolls back every open
\* transaction.  The next start of the program finds the committed rows.
StopPostgres ==
    /\ \E w \in Worker : pc[w] # "idle"
    /\ buf' = [w \in Worker |-> NoWrites]
    /\ want' = [w \in Worker |-> {}]
    /\ Leave(Worker)
    /\ UNCHANGED <<table, shown>>

Step(w) ==
    \/ CountImages(w) \/ InsertImage(w)
    \/ ReadPrimary(w) \/ DeleteImage(w) \/ PromoteImage(w)
    \/ ClearPrimaries(w) \/ MarkPrimary(w) \/ ReplaceImage(w)
    \/ Commit(w)

Next ==
    \/ \E w \in Worker :
        AddImage(w) \/ PickImage(w) \/ Step(w) \/ LockRow(w) \/ Abort(w)
    \/ StopPostgres

Spec == Init /\ [][Next]_vars

\* A started request is run to its end.  Strong fairness of LockRow stands
\* for PostgreSQL's first-come queue of the transactions waiting for a row.
Fairness ==
    \A w \in Worker :
        WF_vars(Step(w)) /\ SF_vars(LockRow(w)) /\ WF_vars(Abort(w))

FairSpec == Spec /\ Fairness
-----------------------------------------------------------------------------
Stages == {"idle", "count", "insert", "inserted", "read", "gone", "delete",
           "deleting", "promoting", "clear", "clearing", "marking", "replace",
           "replacing"}

\* Every variable has its type.
TypeOK ==
    /\ PgTypeOK(Status)
    /\ pc \in [Worker -> Stages]
    /\ arg \in [Worker -> Row \cup {0}]
    /\ flag \in [Worker -> BOOLEAN]
    /\ nextId \in Nat \ {0}
    /\ shown \in SUBSET Row

Primaries == {r \in Row : table[r] = "primary"}

\* An item never shows two primary images: the image that add_image makes
\* primary is the first one (app.py:355), set_primary_image takes the mark
\* off every other image first (app.py:407-416), and remove_image promotes
\* only in place of the primary image it deleted (app.py:382).
AtMostOnePrimary == \A r, s \in Primaries : r = s

\* An item that has images has a primary one: the first upload is primary
\* (app.py:355) and removing the primary image promotes another one if any
\* are left (app.py:383).
SomePrimary == LiveRows # {} => Primaries # {}

\* Choosing a primary image repairs whatever the item's marks were: when
\* set_primary_image commits having locked every image of the item, and the
\* chosen image exists, exactly that image is primary (app.py:407-416).
PrimaryChoiceHeals ==
    [][\A w \in Worker :
        /\ pc[w] = "marking"
        /\ Commit(w)
        /\ LiveRows \subseteq Held(w)
        /\ arg[w] \in LiveRows
        => Primaries' = {arg[w]}]_vars

\* Every submitted form is answered, with a commit or with an error, although
\* handlers that lock several rows wait for each other (app.py:376-393,
\* 407-416).
EveryRequestEnds == \A w \in Worker : pc[w] # "idle" ~> pc[w] = "idle"

Promised == INSTANCE Gallery

\* Each committed form has the effect of the whole handler run alone: the
\* statements of several threads only ever add up to uploads, removals with
\* promotion by lowest id, and choices of a primary image (app.py:350-416).
ImplementsGallery == Promised!Spec
=============================================================================
