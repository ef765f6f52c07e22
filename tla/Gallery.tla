------------------------------- MODULE Gallery -------------------------------
(***************************************************************************)
(* What the image handlers of edit_specs promise for one item, each form   *)
(* taking effect in a single step: at most one image is the primary one,   *)
(* and there is one whenever there are images.  Images implements this     *)
(* statement by statement where requests do not get in each other's way.   *)
(***************************************************************************)
EXTENDS Naturals

CONSTANTS Row, Absent

VARIABLE table

Live == {r \in Row : table[r] # Absent}

Marked == {r \in Row : table[r] = "primary"}

OnePrimary ==
    /\ \A r, s \in Marked : r = s
    /\ Live # {} => Marked # {}

GalleryTypeOK == table \in [Row -> {"primary", "other", Absent}]

Init == GalleryTypeOK /\ OnePrimary

\* The first image uploaded becomes the primary one.
Upload(r) ==
    /\ r \notin Live
    /\ table' = [table EXCEPT ![r] = IF Live = {} THEN "primary" ELSE "other"]

\* Removing the primary image promotes the oldest one left.
Remove(r) ==
    LET oldest == {s \in Live \ {r} : \A t \in Live \ {r} : s <= t}
        promoted == IF r \in Marked THEN oldest ELSE {}
    IN  /\ r \in Live
        /\ table' = [s \in Row |-> IF s = r THEN Absent
                                   ELSE IF s \in promoted THEN "primary"
                                   ELSE table[s]]

Choose(r) ==
    /\ r \in Live
    /\ table' = [s \in Row |-> IF s = r THEN "primary"
                               ELSE IF s \in Live THEN "other" ELSE Absent]

Next == \E r \in Row : Upload(r) \/ Remove(r) \/ Choose(r)

Spec == Init /\ [][Next]_table
=============================================================================
