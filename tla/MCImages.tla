------------------------------ MODULE MCImages ------------------------------
(* Instances of Images for TLC: the ids the sequence hands out. *)
EXTENDS Images

ThreeIds == 1 .. 3
FourIds == 1 .. 4

Everything == Actions
UploadsOnly == {"add_image"}
=============================================================================
